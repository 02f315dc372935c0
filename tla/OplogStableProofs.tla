--------------------------- MODULE OplogStableProofs ---------------------------
(***************************************************************************)
(* Theorems about OplogReplication under one leader that stays up: the     *)
(* masters copy one log, for any number of lost requests, crashes of the   *)
(* others, ids and files.  Up to three masters: from four on a phase 1     *)
(* that is refused leaves an entry prepared.                               *)
(***************************************************************************)
EXTENDS OplogReplicationProofs, FiniteSetTheorems

Lead == CHOOSE m \in Masters : Eligible = {m}

\* The replies that arrive, the puts that succeed and the page that is long enough
\* are what update_oplog and phase 1 rely on, see the runs.
Stable ==
    /\ N <= 3 /\ PageSize > MaxId
    /\ (\E m \in Masters : Eligible = {m}) /\ Lead \notin Crashable
    /\ ~LoopRemoved
    /\ MaxRoles = 0 /\ MaxLostReply = 0 /\ MaxLostGet = 0 /\ MaxDbFail = 0

\* Nobody else leads, so nobody else uploads or is answered.
Quiet ==
    /\ \A what \in {"roles", "reply", "get", "db"} : budget[what] = 0
    /\ alive[Lead] /\ confirm[Lead].at = "idle"
    /\ \A m \in Masters :
         /\ m_status[m] = Leader => m = Lead
         /\ m_leader[m] \in {m, Lead}
         /\ m # Lead => upload[m].at \in {"idle", "spin"}
         /\ confirm[m].at # "idle" => confirm[m].from = Lead

\* The entry in hand is the next one of the leader's oplog until it is put.
InHand == upload[Lead].at \in {"phase1", "phase2", "put"}
PhaseInv ==
    /\ InHand => upload[Lead].op_id = NextId(oplog[Lead])
    /\ upload[Lead].at = "phase1" => upload[Lead].tp_cnt >= 1
    /\ upload[Lead].at = "put_user" =>
         /\ upload[Lead].op_id < NextId(oplog[Lead])
         /\ oplog[Lead][upload[Lead].op_id] = upload[Lead].op

\* Every oplog is the leader's, as far as it goes, or has the entry in hand too.
NoGap(log) == \A id \in Ids : log[id] # NoOp <=> id < NextId(log)
LogInv == \A i \in Masters :
    /\ NoGap(oplog[i])
    /\ \A id \in Ids : id < NextId(oplog[i]) /\ id < NextId(oplog[Lead]) =>
                         oplog[i][id] = oplog[Lead][id]
    /\ NextId(oplog[i]) > NextId(oplog[Lead]) =>
         /\ upload[Lead].at \in {"phase2", "put"}
         /\ NextId(oplog[i]) = NextId(oplog[Lead]) + 1
         /\ oplog[i][upload[Lead].op_id] = upload[Lead].op

\* A master that catches up has in hand what it lacks of the leader's oplog.
Rest(log, n) == [id \in Ids |-> IF id >= n THEN log[id] ELSE NoOp]
CatchInv == \A i \in Masters : LET c == confirm[i] IN
    /\ c.at \in CatchingUp =>
         /\ c.op = upload[Lead].op /\ c.op_id = upload[Lead].op_id
         /\ c.leader \in {i, Lead} /\ m_state_id[i] = c.op_id
         /\ c.current < NextId(oplog[Lead])
         /\ NextId(oplog[i]) = IF c.at = "apply_user" THEN c.current + 1 ELSE c.current
         /\ IF c.at = "fetch" THEN c.last_id = c.current
            ELSE c.page = Rest(oplog[Lead], c.current)
    /\ c.at = "put_user" => c.op_id < NextId(oplog[i]) /\ oplog[i][c.op_id] = c.op

\* An id prepared is old, or it is the one in hand: then the entry is prepared
\* under it, enough masters have it prepared, and the oplog ends before it.
Ready(i) == /\ m_state[i] /\ m_state_data[i] = upload[Lead].op
            /\ upload[Lead].at = "phase1" => upload[Lead].tp_cnt >= 2
            /\ NextId(oplog[i]) >= NextId(oplog[Lead])
PrepInv == \A i \in Masters :
    \/ m_state_id[i] < NextId(oplog[Lead])
    \/ /\ m_state_id[i] = NextId(oplog[Lead]) /\ InHand
       /\ confirm[i].at \in CatchingUp \/ Ready(i)

SInv == Quiet /\ PhaseInv /\ LogInv /\ CatchInv /\ PrepInv

-----------------------------------------------------------------------------
(* Logs without gaps.                                                      *)

LEMMA NextIdIs ==
  ASSUME NEW log, NEW n \in 0..(MaxId + 1), \A id \in Ids : log[id] # NoOp <=> id < n
  PROVE  NextId(log) = n
<1>. USE OplogAssumption DEF Ids
<1>1. CASE n = 0
  <2>1. Written(log) = {}
    BY <1>1 DEF Written
  <2>. QED
    BY <1>1, <2>1 DEF NextId
<1>2. CASE n # 0
  <2>1. n - 1 \in Written(log) /\ \A j \in Written(log) : j \in Int /\ j <= n - 1
    BY <1>2 DEF Written
  <2>2. (CHOOSE id \in Written(log) : \A j \in Written(log) : j <= id) = n - 1
    <3>1. \A id \in Written(log) : (\A j \in Written(log) : j <= id) => id = n - 1
      BY <2>1
    <3>. QED
      BY <2>1, <3>1
  <2>. QED
    BY <2>1, <2>2 DEF NextId
<1>. QED
  BY <1>1, <1>2

LEMMA AppendNext ==
  ASSUME NEW log \in Logs, NoGap(log), NEW op \in Ops, NextId(log) \in Ids,
         NEW new, new = [log EXCEPT ![NextId(log)] = op]
  PROVE  NoGap(new) /\ NextId(new) = NextId(log) + 1
<1>1. new \in Logs /\ new[NextId(log)] = op /\ \A id \in Ids : id # NextId(log) => new[id] = log[id]
  BY DEF Logs
<1>2. \A j \in Ids : new[j] # NoOp <=> j < NextId(log) + 1
  BY <1>1, OplogAssumption DEF NoGap, Ids
<1>3. NextId(log) + 1 \in 0..(MaxId + 1)
  BY OplogAssumption DEF Ids
<1>4. NextId(new) = NextId(log) + 1
  BY <1>2, <1>3, NextIdIs
<1>5. NoGap(new)
  BY <1>2, <1>4 DEF NoGap
<1>. QED
  BY <1>1, <1>4, <1>5

\* A page is everything from the id on: nothing is left for a second one.
LEMMA WholePage ==
  ASSUME Stable, NEW log \in Logs, NoGap(log), NEW id \in 0..(MaxId + 1)
  PROVE  Page(log, id) = IF id < NextId(log) THEN Rest(log, id) ELSE EmptyLog
<1>. USE OplogAssumption
<1>1. ASSUME NEW j \in Ids PROVE Cardinality({k \in KeysFrom(log, id) : k <= j}) <= PageSize
  <2>. DEFINE S == {k \in KeysFrom(log, id) : k <= j}
  <2>1. S \subseteq Ids
    BY DEF KeysFrom, Written
  <2>2. IsFiniteSet(Ids) /\ Cardinality(Ids) = MaxId + 1
    <3>1. 0 \in Int /\ MaxId \in Int /\ ~(0 > MaxId) /\ MaxId - 0 + 1 = MaxId + 1
      OBVIOUS
    <3>. QED
      BY <3>1, FS_Interval DEF Ids
  <2>3. Cardinality(S) <= MaxId + 1 /\ Cardinality(S) \in Nat
    BY <2>1, <2>2, FS_Subset, FS_CardinalityType
  <2>. HIDE DEF S
  <2>4. PageSize > MaxId
    BY DEF Stable
  <2>5. Cardinality(S) <= PageSize
    BY <2>3, <2>4
  <2>. QED
    BY <2>5 DEF S
<1>2. NextId(log) \in 0..(MaxId + 1)
  BY NextIdType
<1>3. id < NextId(log) => id \in Written(log)
  BY <1>2 DEF NoGap, Written, Ids
<1>4. ~(id < NextId(log)) => id \notin Written(log)
  BY DEF NoGap, Written
<1>5. CASE id < NextId(log)
  <2>1. Page(log, id) = [j \in Ids |-> IF j \in KeysFrom(log, id) THEN log[j] ELSE NoOp]
    BY <1>1, <1>3, <1>5 DEF Page
  <2>2. \A j \in Ids : (IF j \in KeysFrom(log, id) THEN log[j] ELSE NoOp)
                       = IF j >= id THEN log[j] ELSE NoOp
    BY DEF KeysFrom, Written
  <2>. QED
    BY <1>5, <2>1, <2>2 DEF Rest
<1>6. CASE ~(id < NextId(log))
  BY <1>4, <1>6 DEF Page
<1>. QED
  BY <1>5, <1>6

\* The first entry of what is left, and what is left after it.
LEMMA RestOf ==
  ASSUME NEW log \in Logs, NoGap(log), NEW n \in Ids, n < NextId(log)
  PROVE  /\ FirstOf(Rest(log, n)) = n /\ Rest(log, n)[n] = log[n]
         /\ [Rest(log, n) EXCEPT ![n] = NoOp] = Rest(log, n + 1)
         /\ Rest(log, n + 1) = EmptyLog <=> n + 1 = NextId(log)
         /\ Rest(log, n) # EmptyLog
<1>. USE OplogAssumption DEF Ids
<1>0. NextId(log) \in 0..(MaxId + 1)
  BY NextIdType
<1>1. Rest(log, n)[n] = log[n] /\ log[n] # NoOp /\ Rest(log, n)[n] # NoOp
  BY DEF Rest, NoGap
<1>2. n \in Written(Rest(log, n)) /\ \A j \in Written(Rest(log, n)) : j \in Ids /\ n <= j
  BY <1>1 DEF Written, Rest
<1>3. FirstOf(Rest(log, n)) = n
  <2>1. \A k \in Written(Rest(log, n)) : (\A j \in Written(Rest(log, n)) : k <= j) => k = n
    BY <1>2
  <2>. QED
    BY <1>2, <2>1 DEF FirstOf
<1>4. [Rest(log, n) EXCEPT ![n] = NoOp] = Rest(log, n + 1)
  <2>1. \A id \in Ids : (IF id = n THEN NoOp ELSE Rest(log, n)[id]) = Rest(log, n + 1)[id]
    BY DEF Rest
  <2>2. [Rest(log, n) EXCEPT ![n] = NoOp] = [id \in Ids |-> IF id = n THEN NoOp ELSE Rest(log, n)[id]]
    BY DEF Rest
  <2>3. Rest(log, n + 1) = [id \in Ids |-> Rest(log, n + 1)[id]]
    BY DEF Rest
  <2>. QED
    BY <2>1, <2>2, <2>3, Zenon
<1>5. Rest(log, n + 1) = EmptyLog <=> n + 1 = NextId(log)
  <2>1. CASE n + 1 = NextId(log)
    <3>1. \A id \in Ids : Rest(log, n + 1)[id] = NoOp
      BY <2>1 DEF NoGap, Rest
    <3>. QED
      BY <2>1, <3>1 DEF EmptyLog, Rest
  <2>2. CASE n + 1 # NextId(log)
    <3>1. n + 1 \in Ids /\ n + 1 < NextId(log)
      BY <1>0, <2>2
    <3>2. Rest(log, n + 1)[n + 1] # NoOp
      BY <3>1 DEF NoGap, Rest
    <3>. QED
      BY <2>2, <3>1, <3>2 DEF EmptyLog
  <2>. QED
    BY <2>1, <2>2
<1>6. Rest(log, n) # EmptyLog
  BY <1>1 DEF EmptyLog
<1>. QED
  BY <1>1, <1>3, <1>4, <1>5, <1>6

-----------------------------------------------------------------------------
(* Who is at work.                                                         *)

LEMMA LeadFacts ==
  ASSUME Stable
  PROVE  /\ Lead \in Masters /\ Eligible = {Lead} /\ Lead \notin Crashable /\ ~LoopRemoved
         /\ N \div 2 <= 1
<1>1. Lead \in Masters /\ Eligible = {Lead}
  BY DEF Stable, Lead
<1>2. N \div 2 <= 1
  <2>1. N = 1 \/ N = 2 \/ N = 3
    BY RolesAssumption DEF Stable
  <2>2. 1 \div 2 = 0 /\ 2 \div 2 = 1 /\ 3 \div 2 = 1
    OBVIOUS
  <2>. QED
    BY <2>1, <2>2
<1>. QED
  BY <1>1, <1>2 DEF Stable

LEMMA NoSpend ==
  ASSUME Quiet, NEW what \in {"roles", "reply", "get", "db"}
  PROVE  ~Spend(what)
BY DEF Quiet, Spend

LEMMA NoPay ==
  ASSUME Quiet, NEW n \in 0..2, NEW r \in 0..1, Pay(n, r), budget \in Budget
  PROVE  n = 0 /\ r = 0 /\ budget' = budget
<1>1. n = 0 /\ r = 0
  BY DEF Quiet, Pay
<1>2. budget["any"] \in Nat /\ budget["db"] = 0 /\ budget["reply"] = 0
  BY DEF Quiet, Budget
<1>. QED
  BY <1>1, <1>2 DEF Pay, Budget

LEMMA NoUndo ==
  ASSUME Quiet, NEW m, NEW id
  PROVE  ~Undo(m, id)
BY DEF Quiet, Undo, Pay

\* Every read of an oplog succeeds.
LEMMA ReadStable ==
  ASSUME Quiet, IInv, NEW i \in Masters, NEW next \in IdsRead(oplog[i]),
         NEW n \in 0..1, NEW r \in 0..1, Pay(n + Misreads(oplog[i], next), r)
  PROVE  n = 0 /\ next = NextId(oplog[i]) /\ UNCHANGED budget
<1>1. Misreads(oplog[i], next) \in 0..1
  BY DEF Misreads
<1>2. n + Misreads(oplog[i], next) \in 0..2
  BY <1>1
<1>3. n + Misreads(oplog[i], next) = 0 /\ budget' = budget
  BY <1>2, NoPay DEF IInv, TypeOK
<1>. QED
  BY <1>1, <1>3 DEF Misreads

LEMMA SpentStays ==
  ASSUME IInv, Quiet, NEW what \in {"call", "crash"}, Spend(what)
  PROVE  \A w \in {"roles", "reply", "get", "db"} : budget'[w] = 0
BY DEF Quiet, Spend, IInv, TypeOK, Budget

\* One confirm thread works at a time, for the leader.
LEMMA AtWork ==
  ASSUME Stable, IInv, Quiet, NEW i \in Masters, confirm[i].at # "idle"
  PROVE  /\ i # Lead /\ alive[i] /\ confirm[i].from = Lead /\ Lead # 0
         /\ InCall(Lead) /\ upload[Lead].i = i
         /\ confirm[i].at \in CatchingUp <=> upload[Lead].at = "phase1"
         /\ \A j \in Masters : j # i => confirm[j].at = "idle"
<1>1. Lead # 0
  BY LeadFacts, RolesAssumption DEF Masters
<1>2. \A j \in Masters : confirm[j].at # "idle" => confirm[j].from = Lead /\ upload[Lead].i = j
  BY <1>1 DEF Quiet, IInv, CallsMatch
<1>3. alive[i] /\ i # Lead
  BY DEF Quiet, IInv, ConfirmInv
<1>. QED
  BY <1>1, <1>2, <1>3 DEF IInv, CallsMatch, CatchingUp

\* The call that is taken is the leader's, and nobody is at work yet.
LEMMA CallOfLead ==
  ASSUME Stable, IInv, Quiet, NEW i \in Masters, NEW m \in Masters, Called(i, m)
  PROVE  /\ m = Lead /\ i # Lead /\ alive[i] /\ InCall(Lead) /\ upload[Lead].i = i /\ m # 0
         /\ m_status[i] # Leader
         /\ \A j \in Masters : confirm[j].at = "idle"
<1>1. m = Lead
  BY DEF Called, InCall, Quiet
<1>2. i # Lead
  BY <1>1, CalleeFacts
<1>3. \A j \in Masters : confirm[j].at = "idle"
  BY <1>1, AtWork DEF Called
<1>. QED
  BY <1>1, <1>2, <1>3, RolesAssumption DEF Called, Quiet, Masters

-----------------------------------------------------------------------------
(* Quiet is kept.                                                          *)

\* A step of the leader's upload thread and of at most one confirm thread.
LEMMA QuietStep ==
  ASSUME Stable, IInv, IInv', Quiet, UNCHANGED <<roles, alive>>,
         budget' = budget \/ Spend("call"),
         \A m \in Masters : m # Lead => upload'[m] = upload[m] \/ upload'[m].at \in {"idle", "spin"},
         confirm'[Lead] = confirm[Lead],
         \A i \in Masters : confirm'[i] = confirm[i] \/ confirm'[i].at = "idle"
                            \/ confirm'[i].from = Lead
  PROVE  Quiet'
<1>1. \A w \in {"roles", "reply", "get", "db"} : budget'[w] = 0
  BY SpentStays DEF Quiet
<1>. QED
  BY <1>1 DEF Quiet, roles

\* How an answer ends a call.
LEMMA AnswerStable ==
  ASSUME Stable, IInv, Quiet, NEW ok \in BOOLEAN, NEW n \in 0..1, Answer(Lead, ok, n)
  PROVE  /\ upload' = [upload EXCEPT ![Lead] = Advance(upload[Lead], Lead, ok)]
         /\ n = 0 /\ UNCHANGED budget
<1>1. Lead # 0
  BY LeadFacts, RolesAssumption DEF Masters
<1>2. n \in 0..2 /\ 0 \in 0..1 /\ 1 \in 0..1
  OBVIOUS
<1>3. ~Pay(n, 1) /\ (Pay(n, 0) => n = 0 /\ budget' = budget)
  BY <1>2, NoPay DEF IInv, TypeOK
<1>. QED
  BY <1>1, <1>3 DEF Answer, Resume

LEMMA TwoPhaseStartStable ==
  ASSUME Quiet, IInv, NEW m \in Masters, TwoPhaseStart(m)
  PROVE  /\ upload[m].at = "asked" /\ ~Exists(m) /\ NextId(oplog[m]) \in Ids
         /\ upload' = [upload EXCEPT ![m] =
                         BeginPhase([upload[m] EXCEPT !.op_id = NextId(oplog[m]), !.tp_cnt = 1],
                                    m, "phase1", "put")]
         /\ UNCHANGED <<roles, alive, disk, prepared, confirm, acked, budget>>
<1>1. PICK next \in IdsRead(oplog[m]) : TwoPhaseStart(m)!(next)
  BY DEF TwoPhaseStart
<1>2. (IF Exists(m) THEN 1 ELSE 0) \in 0..1 /\ 0 \in 0..1
  OBVIOUS
<1>3. ~Exists(m) /\ next = NextId(oplog[m]) /\ UNCHANGED budget
  BY <1>1, <1>2, ReadStable
<1>. QED
  BY <1>1, <1>3

LEMMA QuietUpload ==
  ASSUME Stable, IInv, IInv', Quiet, NEW m \in Masters,
         (\E op \in Ops : UploadStart(m, op)) \/ UploadStep(m)
  PROVE  Quiet'
<1>. USE LeadFacts
<1>1. CASE \E op \in Ops : UploadStart(m, op)
  <2>1. PICK op \in Ops : UploadStart(m, op)
    BY <1>1
  <2>2. m # Lead => upload'[m].at = "spin"
    BY <2>1 DEF UploadStart, Quiet, IInv, TypeOK, UploadIdle
  <2>3. \A q \in Masters : q # m => upload'[q] = upload[q]
    BY <2>1 DEF UploadStart, IInv, TypeOK
  <2>. QED
    BY <2>1, <2>2, <2>3, QuietStep DEF UploadStart
<1>2. CASE UploadStep(m)
  <2>1. m = Lead
    BY <1>2 DEF UploadStep, SpinRemoved, UploadRejected, TwoPhaseStart, NoAnswer, InCall, PutOplog, PutUserdata, Quiet
  <2>2. \A q \in Masters : q # m => upload'[q] = upload[q]
    BY <1>2 DEF UploadStep, SpinRemoved, UploadRejected, TwoPhaseStart, NoAnswer, PutOplog, PutUserdata, IInv, TypeOK
  <2>3. budget' = budget \/ Spend("call")
    BY <1>2, NoSpend, NoUndo, TwoPhaseStartStable
       DEF UploadStep, SpinRemoved, UploadRejected, NoAnswer, PutOplog, PutUserdata
  <2>4. UNCHANGED <<roles, alive, confirm>>
    BY <1>2, NoSpend, NoUndo, TwoPhaseStartStable
       DEF UploadStep, SpinRemoved, UploadRejected, NoAnswer, PutOplog, PutUserdata
  <2>. QED
    BY <2>1, <2>2, <2>3, <2>4, QuietStep
<1>. QED
  BY <1>1, <1>2

\* What the steps of a confirm thread come to: nothing fails, the leader waits.
Returns(ok) == /\ upload' = [upload EXCEPT ![Lead] = Advance(upload[Lead], Lead, ok)]
               /\ UNCHANGED budget

LEMMA ConfirmCases ==
  ASSUME Stable, IInv, Quiet, NEW i \in Masters, ConfirmStep(i)
  PROVE  \/ \E m \in Masters : Called(i, m) /\ (Refuse(i, m) \/ Prepare(i, m) \/ CatchUp(i, m) \/ Commit(i, m))
         \/ confirm[i].at # "idle" /\ (CommitUserdata(i) \/ Fetch(i) \/ FetchFails(i) \/ ApplyOplog(i) \/ ApplyUserdata(i))
BY DEF ConfirmStep, AnswerCall, Refuse, Prepare, CatchUp, Commit,
       CommitUserdata, Fetch, FetchFails, ApplyOplog, ApplyUserdata

LEMMA RefuseStable ==
  ASSUME Stable, IInv, Quiet, NEW i \in Masters, NEW m \in Masters, Refuse(i, m)
  PROVE  /\ upload[Lead].at = "phase2" /\ ~PreparedFor(i, Lead) /\ Returns(FALSE)
         /\ UNCHANGED <<roles, alive, disk, prepared, confirm, acked>>
<1>1. m = Lead /\ m_status[i] # Leader
  BY CallOfLead DEF Refuse
<1>2. Answer(Lead, FALSE, 0)
  BY <1>1 DEF Refuse
<1>3. Returns(FALSE)
  BY <1>2, 0 \in 0..1, AnswerStable DEF Returns
<1>. QED
  BY <1>1, <1>3 DEF Refuse

LEMMA PrepareStable ==
  ASSUME Stable, IInv, Quiet, NEW i \in Masters, NEW m \in Masters, Prepare(i, m)
  PROVE  /\ upload[Lead].at = "phase1" /\ UpToDate(i, Lead, NextId(oplog[i])) /\ Returns(TRUE)
         /\ m_state' = [m_state EXCEPT ![i] = TRUE]
         /\ m_state_id' = [m_state_id EXCEPT ![i] = upload[Lead].op_id]
         /\ m_state_data' = [m_state_data EXCEPT ![i] = upload[Lead].op]
         /\ UNCHANGED <<roles, alive, disk, confirm, acked>>
<1>1. m = Lead
  BY CallOfLead DEF Prepare
<1>2. PICK next \in IdsRead(oplog[i]) : Prepare(i, Lead)!(next)
  BY <1>1 DEF Prepare
<1>3. Misreads(oplog[i], next) \in 0..1
  BY DEF Misreads
<1>4. Misreads(oplog[i], next) = 0 /\ Returns(TRUE)
  BY <1>2, <1>3, AnswerStable DEF Returns
<1>5. next = NextId(oplog[i])
  BY <1>4 DEF Misreads
<1>. QED
  BY <1>2, <1>4, <1>5

LEMMA CatchUpStarts ==
  ASSUME Stable, IInv, Quiet, NEW i \in Masters, NEW m \in Masters, CatchUp(i, m)
  PROVE  LET next == NextId(oplog[i]) IN
         /\ m = Lead /\ upload[Lead].at = "phase1" /\ ~UpToDate(i, Lead, next)
         /\ m_state_id' = [m_state_id EXCEPT ![i] = upload[Lead].op_id]
         /\ confirm' = [confirm EXCEPT ![i] =
                          [at |-> "fetch", from |-> Lead, op |-> upload[Lead].op,
                           op_id |-> upload[Lead].op_id, leader |-> m_leader[i],
                           last_id |-> next, current |-> next, page |-> EmptyLog]]
         /\ UNCHANGED <<roles, alive, disk, m_state, m_state_data, upload, acked, budget>>
<1>1. m = Lead
  BY CallOfLead DEF CatchUp
<1>2. PICK next \in IdsRead(oplog[i]) : CatchUp(i, Lead)!(next)
  BY <1>1 DEF CatchUp
<1>3. Misreads(oplog[i], next) = 0 + Misreads(oplog[i], next) /\ 0 \in 0..1
  BY DEF Misreads
<1>4. next = NextId(oplog[i]) /\ UNCHANGED budget
  BY <1>2, <1>3, ReadStable
<1>. QED
  BY <1>1, <1>2, <1>4

LEMMA CommitStable ==
  ASSUME Stable, IInv, Quiet, NEW i \in Masters, NEW m \in Masters, Commit(i, m)
  PROVE  /\ upload[Lead].at = "phase2" /\ PreparedFor(i, Lead)
         /\ oplog' = [oplog EXCEPT ![i][upload[Lead].op_id] = m_state_data[i]]
         /\ confirm' = [confirm EXCEPT ![i] =
                          [ConfirmIdle EXCEPT !.at = "put_user", !.from = Lead,
                                              !.op_id = upload[Lead].op_id,
                                              !.op = m_state_data[i]]]
         /\ UNCHANGED <<roles, alive, userdata, prepared, acked, upload, budget>>
BY CallOfLead, NoSpend DEF Commit

LEMMA CommitUserdataStable ==
  ASSUME Stable, IInv, Quiet, NEW i \in Masters, CommitUserdata(i)
  PROVE  /\ confirm[i].at = "put_user" /\ AddUserdata(i, confirm[i].op.file) /\ Returns(TRUE)
         /\ confirm' = [confirm EXCEPT ![i] = ConfirmIdle]
         /\ UNCHANGED <<roles, alive, oplog, prepared, acked>>
<1>1. confirm[i].from = Lead
  BY AtWork DEF CommitUserdata
<1>. QED
  BY <1>1, NoUndo, 0 \in 0..1, AnswerStable DEF CommitUserdata, Returns

\* A fetch cannot fail: the master asked runs.
LEMMA NoFetchFails ==
  ASSUME Stable, IInv, Quiet, CatchInv, NEW i \in Masters
  PROVE  ~FetchFails(i)
<1>. SUFFICES ASSUME FetchFails(i) PROVE FALSE
  OBVIOUS
<1>1. confirm[i].at = "fetch" /\ ~alive[confirm[i].leader]
  BY NoSpend DEF FetchFails
<1>2. alive[i]
  BY <1>1, AtWork
<1>3. confirm[i].leader \in {i, Lead}
  BY <1>1 DEF CatchInv, CatchingUp
<1>. QED
  BY <1>1, <1>2, <1>3 DEF Quiet

LEMMA ApplyOplogStable ==
  ASSUME Stable, IInv, Quiet, NEW i \in Masters, ApplyOplog(i)
  PROVE  /\ confirm[i].at = "apply" /\ confirm[i].current \in Ids
         /\ oplog' = [oplog EXCEPT ![i][confirm[i].current] = confirm[i].page[FirstOf(confirm[i].page)]]
         /\ confirm' = [confirm EXCEPT ![i].at = "apply_user"]
         /\ UNCHANGED <<roles, alive, userdata, prepared, acked, upload, budget>>
BY NoSpend DEF ApplyOplog

LEMMA ApplyUserdataStable ==
  ASSUME Stable, IInv, Quiet, NEW i \in Masters, ApplyUserdata(i)
  PROVE  LET c == confirm[i]
             rest == [c.page EXCEPT ![FirstOf(c.page)] = NoOp]
         IN  /\ c.at = "apply_user" /\ AddUserdata(i, c.page[FirstOf(c.page)].file)
             /\ UNCHANGED <<roles, alive, oplog, m_state_id, acked>>
             /\ \/ /\ rest = EmptyLog /\ AtTarget(c) /\ Returns(TRUE)
                   /\ m_state' = [m_state EXCEPT ![i] = TRUE]
                   /\ m_state_data' = [m_state_data EXCEPT ![i] = c.op]
                   /\ confirm' = [confirm EXCEPT ![i] = ConfirmIdle]
                \/ /\ ~(rest = EmptyLog /\ AtTarget(c))
                   /\ confirm' = [confirm EXCEPT ![i] =
                                   [c EXCEPT !.current = c.current + 1, !.page = rest,
                                             !.at = IF rest = EmptyLog THEN "fetch" ELSE "apply"]]
                   /\ UNCHANGED <<m_state, m_state_data, upload, budget>>
<1>1. confirm[i].from = Lead
  BY AtWork DEF ApplyUserdata
<1>2. Answer(Lead, TRUE, 0) => Returns(TRUE)
  BY 0 \in 0..1, AnswerStable DEF Returns
<1>. QED
  BY <1>1, <1>2, NoUndo DEF ApplyUserdata

LEMMA QuietConfirm ==
  ASSUME Stable, IInv, IInv', Quiet, CatchInv, NEW i \in Masters, ConfirmStep(i)
  PROVE  Quiet'
<1>. USE LeadFacts
<1>1. ConfirmIdle.at = "idle"
  BY DEF ConfirmIdle
<1>2. Returns(TRUE) \/ Returns(FALSE) => \A q \in Masters : q # Lead => upload'[q] = upload[q]
  BY DEF Returns, IInv, TypeOK
<1>3. ASSUME NEW c, confirm' = [confirm EXCEPT ![i] = c]
      PROVE  confirm'[i] = c /\ \A j \in Masters : j # i => confirm'[j] = confirm[j]
  BY <1>3 DEF IInv, TypeOK
<1>4. ASSUME NEW m \in Masters, Called(i, m), Refuse(i, m) \/ Prepare(i, m) \/ CatchUp(i, m) \/ Commit(i, m)
      PROVE  Quiet'
  <2>1. m = Lead /\ i # Lead
    BY <1>4, CallOfLead
  <2>2. CASE Refuse(i, m)
    BY <1>2, <2>2, RefuseStable, QuietStep DEF Returns
  <2>3. CASE Prepare(i, m)
    BY <1>2, <2>3, PrepareStable, QuietStep DEF Returns
  <2>4. CASE CatchUp(i, m)
    <3>1. UNCHANGED <<roles, alive, upload, budget>> /\ confirm'[i].from = Lead
          /\ \A j \in Masters : j # i => confirm'[j] = confirm[j]
      BY <2>1, <2>4, CatchUpStarts DEF IInv, TypeOK
    <3>. QED
      BY <2>1, <3>1, QuietStep
  <2>5. CASE Commit(i, m)
    <3>1. UNCHANGED <<roles, alive, upload, budget>> /\ confirm'[i].from = Lead
          /\ \A j \in Masters : j # i => confirm'[j] = confirm[j]
      <4>. DEFINE c == [ConfirmIdle EXCEPT !.at = "put_user", !.from = Lead,
                                           !.op_id = upload[Lead].op_id, !.op = m_state_data[i]]
      <4>1. c.from = Lead
        BY DEF ConfirmIdle
      <4>2. confirm' = [confirm EXCEPT ![i] = c]
        BY <2>5, CommitStable
      <4>. HIDE DEF c
      <4>. QED
        BY <1>3, <2>5, <4>1, <4>2, CommitStable
    <3>. QED
      BY <2>1, <3>1, QuietStep
  <2>. QED
    BY <1>4, <2>2, <2>3, <2>4, <2>5
<1>5. ASSUME confirm[i].at # "idle"
      PROVE  (CommitUserdata(i) \/ Fetch(i) \/ FetchFails(i) \/ ApplyOplog(i) \/ ApplyUserdata(i)) => Quiet'
  <2>1. confirm[i].from = Lead /\ i # Lead
    BY <1>5, AtWork
  <2>2. CASE CommitUserdata(i)
    BY <1>1, <1>2, <1>3, <2>1, <2>2, CommitUserdataStable, QuietStep DEF Returns
  <2>3. CASE Fetch(i)
    <3>1. UNCHANGED <<roles, alive, upload, budget>> /\ confirm'[i].from = Lead
          /\ \A j \in Masters : j # i => confirm'[j] = confirm[j]
      <4>1. UNCHANGED <<roles, alive, upload, budget>>
        BY <2>3 DEF Fetch
      <4>2. confirm'[i].from = confirm[i].from /\ \A j \in Masters : j # i => confirm'[j] = confirm[j]
        BY <2>3 DEF Fetch, IInv, TypeOK, Confirms
      <4>. QED
        BY <2>1, <4>1, <4>2
    <3>. QED
      BY <2>1, <3>1, QuietStep
  <2>4. CASE FetchFails(i)
    BY <2>4, NoFetchFails
  <2>5. CASE ApplyOplog(i)
    <3>1. UNCHANGED <<roles, alive, upload, budget>> /\ confirm'[i].from = Lead
          /\ \A j \in Masters : j # i => confirm'[j] = confirm[j]
      BY <2>1, <2>5, ApplyOplogStable DEF IInv, TypeOK, Confirms
    <3>. QED
      BY <2>1, <3>1, QuietStep
  <2>6. CASE ApplyUserdata(i)
    <3>1. UNCHANGED <<roles, alive>> /\ budget' = budget
          /\ \A q \in Masters : q # Lead => upload'[q] = upload[q]
      BY <1>2, <2>6, ApplyUserdataStable DEF Returns
    <3>2. /\ confirm'[i].at = "idle" \/ confirm'[i].from = Lead
          /\ \A j \in Masters : j # i => confirm'[j] = confirm[j]
      <4>. DEFINE rest == [confirm[i].page EXCEPT ![FirstOf(confirm[i].page)] = NoOp]
                  at == IF rest = EmptyLog THEN "fetch" ELSE "apply"
                  n == confirm[i].current + 1
      <4>1. \/ confirm' = [confirm EXCEPT ![i] = ConfirmIdle]
            \/ confirm' = [confirm EXCEPT ![i] = [confirm[i] EXCEPT !.current = n, !.page = rest, !.at = at]]
        BY <2>6, ApplyUserdataStable
      <4>. HIDE DEF rest, at, n
      <4>2. [confirm[i] EXCEPT !.current = n, !.page = rest, !.at = at].from = Lead
        BY <2>1 DEF IInv, TypeOK, Confirms
      <4>. QED
        BY <1>1, <1>3, <4>1, <4>2
    <3>. QED
      BY <2>1, <3>1, <3>2, QuietStep
  <2>. QED
    BY <2>2, <2>3, <2>4, <2>5, <2>6
<1>. QED
  BY <1>4, <1>5, ConfirmCases

LEMMA QuietEnvironment ==
  ASSUME Stable, IInv, IInv', Quiet, NEW m \in Masters,
         Crash(m) \/ Restart(m) \/ RoleSettles(m) \/ RoleDoubted(m)
  PROVE  Quiet'
<1>. USE LeadFacts
<1>1. CASE Crash(m)
  <2>1. m # Lead /\ m_status' = [m_status EXCEPT ![m] = Consensus]
        /\ m_leader' = [m_leader EXCEPT ![m] = m] /\ alive' = [alive EXCEPT ![m] = FALSE]
    BY <1>1 DEF Crash, NameItself
  <2>2. \A w \in {"roles", "reply", "get", "db"} : budget'[w] = 0
    BY <1>1, SpentStays DEF Crash
  <2>3. UploadIdle.at = "idle" /\ ConfirmIdle.at = "idle" /\ Consensus # Leader
    BY DEF UploadIdle, ConfirmIdle, Consensus, Leader
  <2>4. \A q \in Masters : q # Lead => upload'[q] = upload[q] \/ upload'[q].at = "idle"
    <3>1. confirm[m].from # 0 => confirm[m].from = Lead
      BY DEF Quiet, IInv, ConfirmInv, ConfirmOK
    <3>2. upload' = [q \in Masters |-> CASE q = m -> UploadIdle
                                        [] q # m /\ q = confirm[m].from -> Advance(upload[q], q, FALSE)
                                        [] OTHER -> upload[q]]
      BY <1>1 DEF Crash
    <3>3. \A q \in Masters : q # Lead => q # confirm[m].from
      BY <3>1, RolesAssumption DEF Masters
    <3>. QED
      BY <2>3, <3>2, <3>3
  <2>5. \A q \in Masters : confirm'[q] = confirm[q] \/ confirm'[q].at = "idle"
    <3>1. \A q \in Masters : confirm[q].from # m
      <4>1. m # 0
        BY RolesAssumption DEF Masters
      <4>. QED
        BY <2>1, <4>1 DEF Quiet, IInv, ConfirmInv, ConfirmOK
    <3>. QED
      BY <1>1, <2>3, <3>1 DEF Crash
  <2>6. \A q \in Masters : m_status'[q] = Leader => q = Lead
    BY <2>1, <2>3 DEF Quiet, IInv, TypeOK
  <2>7. \A q \in Masters : m_leader'[q] \in {q, Lead}
    BY <2>1 DEF Quiet, IInv, TypeOK
  <2>8. alive'[Lead]
    BY <2>1 DEF Quiet, IInv, TypeOK
  <2>. QED
    BY <2>2, <2>4, <2>5, <2>6, <2>7, <2>8 DEF Quiet
<1>2. CASE Restart(m)
  BY <1>2 DEF Restart, Quiet, IInv, TypeOK, roles
<1>3. CASE RoleSettles(m)
  <2>1. /\ m_leader' = [m_leader EXCEPT ![m] = Lead]
        /\ m_status' = [m_status EXCEPT ![m] = IF Lead = m THEN Leader ELSE Follower]
        /\ UNCHANGED <<alive, upload, confirm, budget>>
    BY <1>3 DEF RoleSettles, Settle
  <2>. QED
    BY <2>1 DEF Quiet, IInv, TypeOK, Leader, Follower
<1>4. CASE RoleDoubted(m)
  BY <1>4, NoSpend DEF RoleDoubted
<1>. QED
  BY <1>1, <1>2, <1>3, <1>4

-----------------------------------------------------------------------------
(* The end of a call.                                                      *)

\* The upload thread after a call: it goes on in the phase, or to the next phase,
\* or gives the upload up, which it does only if nobody else has it prepared.
LEMMA AdvanceStable ==
  ASSUME Stable, NEW m \in Masters, NEW u, UploadOK(u, m), u.at \in {"phase1", "phase2"},
         NEW ok \in BOOLEAN, NEW v, v = Advance(u, m, ok)
  PROVE  \/ v.at = u.at /\ v.op = u.op /\ v.op_id = u.op_id /\ v.tp_cnt = Count(u, ok)
         \/ v.at \in {"phase2", "put"} /\ v.op = u.op /\ v.op_id = u.op_id
         \/ u.at = "phase1" /\ v = UploadIdle /\ Count(u, ok) <= 1
<1>. DEFINE w == [u EXCEPT !.tp_cnt = Count(u, ok)]
<1>1. u \in Uploads
  BY DEF UploadOK
<1>2. w.at = u.at /\ w.op = u.op /\ w.op_id = u.op_id /\ w.tp_cnt = Count(u, ok)
      /\ Count(u, ok) \in Nat
  BY <1>1, RolesAssumption DEF Uploads, Count
<1>3. \A j : LET x == [w EXCEPT !.i = j] IN
         x.at = w.at /\ x.op = w.op /\ x.op_id = w.op_id /\ x.tp_cnt = w.tp_cnt
  BY <1>1 DEF Uploads
<1>4. \A a, j : LET x == [w EXCEPT !.at = a]
                    y == [w EXCEPT !.at = a, !.i = j]
                IN  x.at = a /\ x.op = w.op /\ x.op_id = w.op_id
                    /\ y.at = a /\ y.op = w.op /\ y.op_id = w.op_id
  BY <1>1 DEF Uploads
<1>. HIDE DEF w
<1>5. CASE After(m, u.i) # {}
  <2>1. v = [w EXCEPT !.i = Least(After(m, u.i))]
    BY <1>5 DEF Advance, w
  <2>. QED
    BY <1>2, <1>3, <2>1
<1>6. CASE After(m, u.i) = {}
  <2>1. v = AfterCalls(w, m)
    BY <1>6 DEF Advance, w
  <2>2. CASE w.at = "phase2"
    BY <1>2, <1>4, <2>1, <2>2 DEF AfterCalls
  <2>3. CASE w.at # "phase2" /\ w.tp_cnt <= N \div 2
    <3>1. v = UploadIdle
      BY <2>1, <2>3 DEF AfterCalls
    <3>2. N \div 2 \in Int /\ N \div 2 <= 1
      BY RolesAssumption, LeadFacts
    <3>. QED
      BY <1>2, <2>3, <3>1, <3>2
  <2>4. CASE w.at # "phase2" /\ ~(w.tp_cnt <= N \div 2)
    <3>1. v = BeginPhase(w, m, "phase2", "put")
      BY <2>1, <2>4 DEF AfterCalls
    <3>. QED
      BY <1>2, <1>4, <3>1 DEF BeginPhase
  <2>. QED
    BY <2>2, <2>3, <2>4
<1>. QED
  BY <1>5, <1>6

\* The call is over and nobody works for the leader; what is prepared is counted.
LEMMA CallOver ==
  ASSUME Stable, IInv, SInv, InCall(Lead), NEW ok \in BOOLEAN,
         upload'[Lead] = Advance(upload[Lead], Lead, ok), UNCHANGED oplog,
         \A i \in Masters : confirm'[i].at = "idle",
         \A i \in Masters :
            \/ m_state_id'[i] < NextId(oplog[Lead])
            \/ /\ m_state_id'[i] = NextId(oplog[Lead])
               /\ m_state'[i] /\ m_state_data'[i] = upload[Lead].op
               /\ NextId(oplog[i]) >= NextId(oplog[Lead])
               /\ upload[Lead].at = "phase1" => Count(upload[Lead], ok) >= 2
  PROVE  PhaseInv' /\ LogInv' /\ CatchInv' /\ PrepInv'
<1>. DEFINE u == upload[Lead]
            v == Advance(u, Lead, ok)
<1>1. Lead \in Masters /\ UploadOK(u, Lead) /\ u.at \in {"phase1", "phase2"} /\ upload'[Lead] = v
  BY LeadFacts DEF IInv, UploadInv, InCall
<1>2. \/ v.at = u.at /\ v.op = u.op /\ v.op_id = u.op_id /\ v.tp_cnt = Count(u, ok)
      \/ v.at \in {"phase2", "put"} /\ v.op = u.op /\ v.op_id = u.op_id
      \/ u.at = "phase1" /\ v = UploadIdle /\ Count(u, ok) <= 1
  BY <1>1, AdvanceStable
<1>3. u.op_id = NextId(oplog[Lead]) /\ (u.at = "phase1" => Count(u, ok) >= 1 /\ Count(u, ok) \in Int)
  BY <1>1 DEF SInv, PhaseInv, InHand, Count, UploadOK, Uploads
<1>4. UploadIdle.at = "idle"
  BY DEF UploadIdle
<1>5. oplog' = oplog
  OBVIOUS
<1>. HIDE DEF v
<1>6. PhaseInv'
  BY <1>1, <1>2, <1>3, <1>4, <1>5 DEF PhaseInv, InHand
<1>7. LogInv'
  BY <1>1, <1>2, <1>4, <1>5 DEF SInv, LogInv
<1>8. CatchInv'
  BY DEF CatchInv, CatchingUp
<1>9. PrepInv'
  BY <1>1, <1>2, <1>3, <1>4, <1>5 DEF PrepInv, InHand, Ready, CatchingUp
<1>. QED
  BY <1>6, <1>7, <1>8, <1>9

LEMMA Answered ==
  ASSUME Stable, IInv, SInv, InCall(Lead), NEW ok \in BOOLEAN,
         upload' = [upload EXCEPT ![Lead] = Advance(upload[Lead], Lead, ok)], UNCHANGED oplog,
         \A i \in Masters : confirm'[i].at = "idle",
         \A i \in Masters :
            \/ m_state_id'[i] < NextId(oplog[Lead])
            \/ /\ m_state_id'[i] = NextId(oplog[Lead])
               /\ m_state'[i] /\ m_state_data'[i] = upload[Lead].op
               /\ NextId(oplog[i]) >= NextId(oplog[Lead])
               /\ upload[Lead].at = "phase1" => Count(upload[Lead], ok) >= 2
  PROVE  PhaseInv' /\ LogInv' /\ CatchInv' /\ PrepInv'
<1>1. upload'[Lead] = Advance(upload[Lead], Lead, ok)
  BY LeadFacts DEF IInv, TypeOK
<1>. QED
  BY <1>1, CallOver

-----------------------------------------------------------------------------
(* The logs under the steps of the upload thread.                          *)

Copies == PhaseInv /\ LogInv /\ CatchInv /\ PrepInv

LEMMA LengthType ==
  ASSUME IInv, NEW i \in Masters
  PROVE  NextId(oplog[i]) \in 0..(MaxId + 1) /\ NextId(oplog[i]) \in Int
BY NextIdType, OplogAssumption DEF IInv, TypeOK

\* The leader is not in a call and has no entry in hand afterwards.
LEMMA HandEmpty ==
  ASSUME Stable, IInv, SInv, ~InCall(Lead), upload[Lead].at # "put",
         upload'[Lead].at \in {"idle", "spin", "asked"}, UNCHANGED <<oplog, prepared, confirm>>
  PROVE  Copies'
<1>1. \A i \in Masters : confirm[i].at = "idle"
  BY AtWork DEF SInv
<1>2. upload[Lead].at \notin {"phase1", "phase2", "put"}
  BY DEF InCall
<1>. QED
  BY <1>1, <1>2 DEF Copies, SInv, PhaseInv, LogInv, CatchInv, PrepInv, InHand, CatchingUp, prepared

\* The leader's upload thread stays as it is.
LEMMA LeaderStays ==
  ASSUME SInv, upload'[Lead] = upload[Lead], UNCHANGED <<oplog, prepared, confirm>>
  PROVE  Copies'
BY DEF Copies, SInv, PhaseInv, LogInv, CatchInv, PrepInv, InHand, Ready, prepared

LEMMA UploadStartCopies ==
  ASSUME Stable, IInv, SInv, NEW m \in Masters, NEW op \in Ops, UploadStart(m, op)
  PROVE  Copies'
<1>. DEFINE v == [UploadIdle EXCEPT !.op = op, !.at = IF m_status[m] = Leader THEN "asked" ELSE "spin"]
<1>1. upload[m].at = "idle" /\ upload' = [upload EXCEPT ![m] = v] /\ UNCHANGED <<oplog, prepared, confirm>>
  BY DEF UploadStart, disk
<1>2. v.at \in {"asked", "spin"}
  BY DEF UploadIdle
<1>. HIDE DEF v
<1>3. CASE m = Lead
  <2>1. upload'[Lead] = v
    BY <1>1, <1>3 DEF IInv, TypeOK
  <2>. QED
    BY <1>1, <1>2, <1>3, <2>1, HandEmpty DEF InCall
<1>4. CASE m # Lead
  <2>1. upload'[Lead] = upload[Lead]
    BY <1>1, <1>4, LeadFacts DEF IInv, TypeOK
  <2>. QED
    BY <1>1, <2>1, LeaderStays
<1>. QED
  BY <1>3, <1>4

LEMMA TwoPhaseStartCopies ==
  ASSUME Stable, IInv, SInv, TwoPhaseStart(Lead)
  PROVE  Copies'
<1>. DEFINE w == [upload[Lead] EXCEPT !.op_id = NextId(oplog[Lead]), !.tp_cnt = 1]
            v == BeginPhase(w, Lead, "phase1", "put")
<1>0. Lead \in Masters /\ upload[Lead] \in Uploads
  BY LeadFacts DEF IInv, TypeOK
<1>1. upload[Lead].at = "asked" /\ upload' = [upload EXCEPT ![Lead] = v] /\ UNCHANGED <<oplog, prepared, confirm>>
  BY LeadFacts, TwoPhaseStartStable DEF SInv, disk
<1>2. w.op_id = NextId(oplog[Lead]) /\ w.tp_cnt = 1
  BY <1>0 DEF Uploads
<1>3. v.at \in {"phase1", "put"} /\ v.op_id = NextId(oplog[Lead]) /\ v.tp_cnt = 1
  <2>1. \A a, j : LET x == [w EXCEPT !.at = a]
                      y == [w EXCEPT !.at = a, !.i = j]
                  IN  /\ x.at = a /\ x.op_id = w.op_id /\ x.tp_cnt = w.tp_cnt
                      /\ y.at = a /\ y.op_id = w.op_id /\ y.tp_cnt = w.tp_cnt
    BY <1>0 DEF Uploads
  <2>. HIDE DEF w
  <2>. QED
    BY <1>2, <2>1 DEF BeginPhase
<1>. HIDE DEF v
<1>4. upload'[Lead] = v
  BY <1>0, <1>1 DEF IInv, TypeOK
<1>5. \A i \in Masters : confirm[i].at = "idle"
  BY <1>1, AtWork DEF SInv, InCall
<1>. QED
  BY <1>0, <1>1, <1>3, <1>4, <1>5
     DEF Copies, SInv, PhaseInv, LogInv, CatchInv, PrepInv, InHand, CatchingUp, prepared

LEMMA NoAnswerCopies ==
  ASSUME Stable, IInv, SInv, NoAnswer(Lead)
  PROVE  Copies'
<1>. DEFINE i == upload[Lead].i
<1>0. Lead \in Masters /\ InCall(Lead) /\ upload[Lead] \in Uploads /\ i \in Masters
  BY LeadFacts DEF NoAnswer, InCall, IInv, TypeOK, UploadInv, UploadOK
<1>1. /\ upload' = [upload EXCEPT ![Lead] = Advance(upload[Lead], Lead, FALSE)]
      /\ UNCHANGED <<oplog, prepared>>
      /\ confirm' = confirm /\ (~alive[i] \/ confirm[i].from # Lead)
  BY NoSpend DEF NoAnswer, disk, SInv, IInv, TypeOK
<1>2. \A j \in Masters : confirm[j].at = "idle"
  <2>. SUFFICES ASSUME NEW j \in Masters, confirm[j].at # "idle" PROVE FALSE
    OBVIOUS
  <2>. QED
    BY <1>1, AtWork DEF SInv
<1>3. upload[Lead].at = "phase1" => Count(upload[Lead], FALSE) = upload[Lead].tp_cnt
  BY DEF Count
<1>. QED
  BY <1>0, <1>1, <1>2, <1>3, Answered DEF Copies, SInv, PrepInv, Ready, CatchingUp, prepared

\* The leader puts the entry in hand; the masters that committed it have it already.
LEMMA PutOplogCopies ==
  ASSUME Stable, IInv, SInv, PutOplog(Lead)
  PROVE  Copies'
<1>. DEFINE u == upload[Lead]
            n == NextId(oplog[Lead])
<1>0. Lead \in Masters /\ UploadOK(u, Lead) /\ oplog[Lead] \in Logs /\ NoGap(oplog[Lead])
  BY LeadFacts DEF IInv, TypeOK, UploadInv, SInv, LogInv
<1>1. u.at = "put" /\ u.op_id = n /\ n \in Ids /\ u.op \in Ops
  BY <1>0 DEF PutOplog, SInv, PhaseInv, InHand, UploadOK, Uploads
<1>2. /\ oplog' = [oplog EXCEPT ![Lead][n] = u.op]
      /\ upload' = [upload EXCEPT ![Lead].at = "put_user"] /\ UNCHANGED <<prepared, confirm>>
  BY <1>1, NoSpend DEF PutOplog, SInv
<1>3. /\ oplog'[Lead] = [oplog[Lead] EXCEPT ![n] = u.op]
      /\ \A i \in Masters : i # Lead => oplog'[i] = oplog[i]
  BY <1>0, <1>2 DEF IInv, TypeOK
<1>4. upload'[Lead].at = "put_user" /\ upload'[Lead].op = u.op /\ upload'[Lead].op_id = u.op_id
  BY <1>0, <1>2 DEF IInv, TypeOK, Uploads
<1>5. /\ NoGap(oplog'[Lead]) /\ NextId(oplog'[Lead]) = n + 1 /\ oplog'[Lead][n] = u.op
      /\ \A id \in Ids : id # n => oplog'[Lead][id] = oplog[Lead][id]
  <2>. DEFINE log == oplog[Lead]
              op == u.op
              new == oplog'[Lead]
  <2>1. log \in Logs /\ NoGap(log) /\ NextId(log) \in Ids /\ op \in Ops
        /\ new = [log EXCEPT ![NextId(log)] = op]
    BY <1>0, <1>1, <1>3
  <2>. HIDE DEF log, op, new
  <2>2. NoGap(new) /\ NextId(new) = NextId(log) + 1
    BY <2>1, AppendNext
  <2>3. new[NextId(log)] = op /\ \A id \in Ids : id # NextId(log) => new[id] = log[id]
    BY <2>1 DEF Logs
  <2>. QED
    BY <2>2, <2>3 DEF log, op, new
<1>6. \A i \in Masters : confirm[i].at = "idle"
  BY <1>1, AtWork DEF SInv, InCall
<1>7. n \in Int /\ \A i \in Masters : NextId(oplog[i]) \in Int /\ m_state_id[i] \in Int
  BY <1>1, LengthType DEF IInv, TypeOK, Ids
<1>. HIDE DEF n
<1>8. PhaseInv'
  BY <1>1, <1>4, <1>5, <1>7 DEF PhaseInv, InHand
<1>9. LogInv'
  <2>. SUFFICES ASSUME NEW i \in Masters
                PROVE  /\ NoGap(oplog'[i])
                       /\ \A id \in Ids : id < NextId(oplog'[i]) /\ id < NextId(oplog'[Lead]) =>
                                            oplog'[i][id] = oplog'[Lead][id]
                       /\ ~(NextId(oplog'[i]) > NextId(oplog'[Lead]))
    BY DEF LogInv
  <2>1. CASE i = Lead
    BY <1>5, <1>7, <2>1
  <2>2. CASE i # Lead
    <3>1. /\ NoGap(oplog[i]) /\ NextId(oplog[i]) <= n + 1
          /\ \A id \in Ids : id < NextId(oplog[i]) /\ id < n => oplog[i][id] = oplog[Lead][id]
          /\ NextId(oplog[i]) > n => oplog[i][n] = u.op
      BY <1>1, <1>7 DEF SInv, LogInv, n
    <3>2. \A id \in Ids : id < n + 1 => id < n \/ id = n
      BY <1>7 DEF Ids
    <3>. QED
      BY <1>3, <1>5, <1>7, <2>2, <3>1, <3>2
  <2>. QED
    BY <2>1, <2>2
<1>10. CatchInv'
  BY <1>2, <1>6 DEF CatchInv, CatchingUp
<1>11. PrepInv'
  BY <1>2, <1>5, <1>7 DEF PrepInv, SInv, prepared, n
<1>. QED
  BY <1>8, <1>9, <1>10, <1>11 DEF Copies

LEMMA UploadCopies ==
  ASSUME Stable, IInv, SInv, NEW m \in Masters, UploadStep(m)
  PROVE  Copies'
<1>0. m = Lead
  BY LeadFacts DEF UploadStep, SpinRemoved, UploadRejected, TwoPhaseStart, NoAnswer, InCall,
                   PutOplog, PutUserdata, Quiet, SInv
<1>1. CASE UploadRejected(m)
  BY <1>0, <1>1, HandEmpty DEF UploadRejected, InCall, UploadIdle, IInv, TypeOK, disk
<1>2. CASE PutUserdata(m)
  <2>1. UNCHANGED <<oplog, prepared, confirm>> /\ upload[Lead].at = "put_user"
        /\ upload' = [upload EXCEPT ![Lead] = UploadIdle]
    BY <1>0, <1>2, NoUndo DEF PutUserdata, SInv
  <2>2. upload'[Lead].at = "idle"
    BY <2>1, LeadFacts DEF UploadIdle, IInv, TypeOK
  <2>. QED
    BY <2>1, <2>2, HandEmpty DEF InCall
<1>. QED
  BY <1>0, <1>1, <1>2, LeadFacts, TwoPhaseStartCopies, NoAnswerCopies, PutOplogCopies DEF UploadStep, SpinRemoved

-----------------------------------------------------------------------------
(* The logs under the steps of a confirm thread.                           *)

\* What a step of a confirm thread starts from, with the length of the logs.
LEMMA InCallFacts ==
  ASSUME Stable, IInv, SInv, InCall(Lead)
  PROVE  /\ Lead \in Masters /\ upload[Lead] \in Uploads /\ upload[Lead].op \in Ops
         /\ upload[Lead].op_id = NextId(oplog[Lead]) /\ NextId(oplog[Lead]) \in Ids
         /\ upload[Lead].at = "phase1" => upload[Lead].tp_cnt >= 1
         /\ upload[Lead].at = "phase1" => Count(upload[Lead], TRUE) >= 2
         /\ \A i \in Masters : oplog[i] \in Logs /\ NoGap(oplog[i])
                               /\ NextId(oplog[i]) \in Int /\ m_state_id[i] \in Int
<1>1. Lead \in Masters /\ UploadOK(upload[Lead], Lead) /\ upload[Lead].at \in {"phase1", "phase2"}
  BY LeadFacts DEF IInv, TypeOK, UploadInv, InCall
<1>2. upload[Lead].op_id = NextId(oplog[Lead])
      /\ (upload[Lead].at = "phase1" => upload[Lead].tp_cnt >= 1)
  BY <1>1 DEF SInv, PhaseInv, InHand
<1>3. upload[Lead].tp_cnt \in Int /\ upload[Lead].op_id \in Ids
  BY <1>1, RolesAssumption DEF UploadOK, Uploads
<1>4. upload[Lead].at = "phase1" => Count(upload[Lead], TRUE) >= 2
  BY <1>2, <1>3 DEF Count
<1>5. \A i \in Masters : NextId(oplog[i]) \in Int
  BY LengthType
<1>6. \A i \in Masters : oplog[i] \in Logs /\ NoGap(oplog[i]) /\ m_state_id[i] \in Int
  BY OplogAssumption DEF IInv, TypeOK, SInv, LogInv, Ids
<1>. QED
  BY <1>1, <1>2, <1>3, <1>4, <1>5, <1>6 DEF UploadOK

LEMMA RefuseCopies ==
  ASSUME Stable, IInv, SInv, NEW i \in Masters, NEW m \in Masters, Refuse(i, m)
  PROVE  Copies'
<1>1. InCall(Lead) /\ \A j \in Masters : confirm[j].at = "idle"
  BY CallOfLead DEF Refuse, SInv
<1>2. upload[Lead].at = "phase2" /\ Returns(FALSE) /\ UNCHANGED <<oplog, prepared, confirm>>
  BY RefuseStable DEF SInv, disk
<1>. QED
  BY <1>1, <1>2, Answered DEF Copies, SInv, PrepInv, Ready, CatchingUp, prepared, Returns

LEMMA PrepareCopies ==
  ASSUME Stable, IInv, SInv, NEW i \in Masters, NEW m \in Masters, Prepare(i, m)
  PROVE  Copies'
<1>1. InCall(Lead) /\ \A j \in Masters : confirm[j].at = "idle"
  BY CallOfLead DEF Prepare, SInv
<1>2. /\ upload[Lead].at = "phase1" /\ NextId(oplog[i]) = upload[Lead].op_id /\ Returns(TRUE)
      /\ m_state' = [m_state EXCEPT ![i] = TRUE]
      /\ m_state_id' = [m_state_id EXCEPT ![i] = upload[Lead].op_id]
      /\ m_state_data' = [m_state_data EXCEPT ![i] = upload[Lead].op]
      /\ UNCHANGED <<oplog, confirm>>
  BY PrepareStable DEF SInv, disk, UpToDate
<1>3. /\ m_state'[i] /\ m_state_id'[i] = NextId(oplog[Lead]) /\ m_state_data'[i] = upload[Lead].op
      /\ NextId(oplog[i]) >= NextId(oplog[Lead]) /\ Count(upload[Lead], TRUE) >= 2
  <2>1. /\ upload[Lead].op_id = NextId(oplog[Lead]) /\ NextId(oplog[Lead]) \in Int
        /\ Count(upload[Lead], TRUE) >= 2
    BY <1>1, <1>2, InCallFacts
  <2>2. m_state'[i]
    BY <1>2 DEF IInv, TypeOK
  <2>3. m_state_id'[i] = upload[Lead].op_id /\ m_state_data'[i] = upload[Lead].op
    BY <1>2 DEF IInv, TypeOK
  <2>4. NextId(oplog[i]) >= NextId(oplog[Lead])
    BY <1>2, <2>1
  <2>. QED
    BY <2>1, <2>2, <2>3, <2>4
<1>4. \A j \in Masters : j # i => /\ m_state'[j] = m_state[j] /\ m_state_id'[j] = m_state_id[j]
                                  /\ m_state_data'[j] = m_state_data[j]
  BY <1>2 DEF IInv, TypeOK
<1>5. ASSUME NEW j \in Masters
      PROVE  \/ m_state_id'[j] < NextId(oplog[Lead])
             \/ /\ m_state_id'[j] = NextId(oplog[Lead])
                /\ m_state'[j] /\ m_state_data'[j] = upload[Lead].op
                /\ NextId(oplog[j]) >= NextId(oplog[Lead])
  BY <1>1, <1>3, <1>4 DEF SInv, PrepInv, Ready, CatchingUp
<1>. QED
  BY <1>1, <1>2, <1>3, <1>5, Answered DEF Copies, Returns

LEMMA CatchUpCopies ==
  ASSUME Stable, IInv, SInv, NEW i \in Masters, NEW m \in Masters, CatchUp(i, m)
  PROVE  Copies'
<1>. DEFINE n == NextId(oplog[i])
            c == [at |-> "fetch", from |-> m, op |-> upload[m].op,
                  op_id |-> upload[m].op_id, leader |-> m_leader[i],
                  last_id |-> n, current |-> n, page |-> EmptyLog]
<1>1. m = Lead /\ InCall(Lead) /\ \A j \in Masters : confirm[j].at = "idle"
  BY CallOfLead DEF CatchUp, SInv
<1>2. /\ upload[Lead].at = "phase1" /\ n # upload[Lead].op_id
      /\ m_state_id' = [m_state_id EXCEPT ![i] = upload[Lead].op_id]
      /\ confirm' = [confirm EXCEPT ![i] = c]
      /\ UNCHANGED <<oplog, m_state, m_state_data, upload>>
  BY <1>1, CatchUpStarts DEF SInv, UpToDate, disk
<1>3. n < NextId(oplog[Lead]) /\ upload[Lead].op_id = NextId(oplog[Lead])
  <2>1. /\ upload[Lead].op_id = NextId(oplog[Lead]) /\ NextId(oplog[Lead]) \in Int
        /\ NextId(oplog[i]) \in Int
    BY <1>1, InCallFacts
  <2>2. ~(NextId(oplog[i]) > NextId(oplog[Lead]))
    BY <1>2 DEF SInv, LogInv
  <2>. QED
    BY <1>2, <2>1, <2>2
<1>4. m_leader[i] \in {i, Lead}
  BY DEF SInv, Quiet
<1>5. confirm'[i] = c /\ \A j \in Masters : j # i => confirm'[j] = confirm[j]
  BY <1>2 DEF IInv, TypeOK
<1>6. m_state_id'[i] = upload[Lead].op_id /\ \A j \in Masters : j # i => m_state_id'[j] = m_state_id[j]
  BY <1>2 DEF IInv, TypeOK
<1>7. c.at = "fetch" /\ c.op = upload[Lead].op /\ c.op_id = upload[Lead].op_id
      /\ c.leader = m_leader[i] /\ c.last_id = n /\ c.current = n
  BY <1>1
<1>. HIDE DEF c, n
<1>8. CatchInv'
  BY <1>1, <1>2, <1>3, <1>4, <1>5, <1>6, <1>7 DEF CatchInv, CatchingUp, n
<1>9. PrepInv'
  BY <1>1, <1>2, <1>3, <1>5, <1>6, <1>7 DEF SInv, PrepInv, InHand, Ready, CatchingUp
<1>. QED
  BY <1>2, <1>8, <1>9 DEF Copies, SInv, PhaseInv, LogInv, InHand

\* What phase 2 writes: the entry in hand, after the entries that the leader has.
LEMMA CommitFacts ==
  ASSUME Stable, IInv, SInv, NEW i \in Masters, NEW m \in Masters, Commit(i, m)
  PROVE  LET n == NextId(oplog[Lead]) IN
         /\ i # Lead /\ m_state_data[i] = upload[Lead].op /\ upload[Lead].op_id = n /\ n \in Ids
         /\ NextId(oplog[i]) >= n
         /\ NextId(oplog[i]) > n => NextId(oplog[i]) = n + 1 /\ oplog[i][n] = upload[Lead].op
<1>1. i # Lead /\ InCall(Lead) /\ \A j \in Masters : confirm[j].at = "idle"
  BY CallOfLead DEF Commit, SInv
<1>2. m_state_id[i] = upload[Lead].op_id
  BY CommitStable DEF SInv, PreparedFor
<1>3. upload[Lead].op_id = NextId(oplog[Lead]) /\ NextId(oplog[Lead]) \in Ids /\ m_state_id[i] \in Int
  BY <1>1, InCallFacts
<1>4. m_state_data[i] = upload[Lead].op /\ NextId(oplog[i]) >= NextId(oplog[Lead])
  BY <1>1, <1>2, <1>3 DEF SInv, PrepInv, Ready, CatchingUp
<1>5. NextId(oplog[i]) > NextId(oplog[Lead]) =>
        NextId(oplog[i]) = NextId(oplog[Lead]) + 1 /\ oplog[i][NextId(oplog[Lead])] = upload[Lead].op
  BY <1>3 DEF SInv, LogInv
<1>. QED
  BY <1>1, <1>3, <1>4, <1>5

\* Phase 2 adds the entry in hand, or finds it there.
LEMMA CommitCopies ==
  ASSUME Stable, IInv, SInv, NEW i \in Masters, NEW m \in Masters, Commit(i, m)
  PROVE  Copies'
<1>. DEFINE u == upload[Lead]
            n == NextId(oplog[Lead])
            log == oplog[i]
            new == [log EXCEPT ![n] = u.op]
            c == [ConfirmIdle EXCEPT !.at = "put_user", !.from = Lead, !.op_id = u.op_id, !.op = m_state_data[i]]
<1>1. i # Lead /\ InCall(Lead) /\ \A j \in Masters : confirm[j].at = "idle"
  BY CallOfLead DEF Commit, SInv
<1>2. /\ u.at = "phase2" /\ m_state_id[i] = u.op_id
      /\ oplog' = [oplog EXCEPT ![i][u.op_id] = m_state_data[i]]
      /\ confirm' = [confirm EXCEPT ![i] = c]
      /\ UNCHANGED <<prepared, upload>>
  BY CommitStable DEF SInv, PreparedFor
<1>3. u.op_id = n /\ n \in Ids /\ u.op \in Ops /\ log \in Logs /\ NoGap(log) /\ Lead \in Masters
      /\ n \in Int /\ \A j \in Masters : NextId(oplog[j]) \in Int /\ m_state_id[j] \in Int
  BY <1>1, InCallFacts
<1>4. m_state_data[i] = u.op /\ NextId(log) >= n
  BY CommitFacts
<1>5. oplog'[i] = new /\ \A j \in Masters : j # i => oplog'[j] = oplog[j]
  BY <1>2, <1>3, <1>4 DEF IInv, TypeOK
<1>6. NextId(log) > n => NextId(log) = n + 1 /\ log[n] = u.op
  BY CommitFacts
<1>7. NoGap(new) /\ NextId(new) = n + 1 /\ new[n] = u.op /\ \A id \in Ids : id # n => new[id] = log[id]
  <2>1. CASE NextId(log) = n
    <3>1. \A e \in Ops : /\ NoGap([log EXCEPT ![NextId(log)] = e])
                         /\ NextId([log EXCEPT ![NextId(log)] = e]) = NextId(log) + 1
      BY <1>3, <2>1, AppendNext
    <3>. QED
      BY <1>3, <2>1, <3>1 DEF Logs
  <2>2. CASE NextId(log) # n
    <3>1. NextId(log) = n + 1 /\ log[n] = u.op
      BY <1>3, <1>4, <1>6, <2>2
    <3>2. new = log
      BY <1>3, <3>1 DEF Logs
    <3>. QED
      BY <1>3, <3>1, <3>2
  <2>. QED
    BY <2>1, <2>2
<1>8. confirm'[i] = c /\ \A j \in Masters : j # i => confirm'[j] = confirm[j]
  BY <1>2 DEF IInv, TypeOK
<1>9. c.at = "put_user" /\ c.op_id = n /\ c.op = u.op
  BY <1>3, <1>4 DEF ConfirmIdle
<1>. HIDE DEF c, new, n, log
<1>10. PhaseInv'
  BY <1>1, <1>2, <1>3, <1>5 DEF SInv, PhaseInv, InHand
<1>11. LogInv'
  <2>. SUFFICES ASSUME NEW j \in Masters
                PROVE  /\ NoGap(oplog'[j])
                       /\ \A id \in Ids : id < NextId(oplog'[j]) /\ id < n => oplog'[j][id] = oplog[Lead][id]
                       /\ NextId(oplog'[j]) > n => NextId(oplog'[j]) = n + 1 /\ oplog'[j][n] = u.op
    BY <1>1, <1>2, <1>3, <1>5 DEF LogInv, n
  <2>1. CASE j = i
    <3>1. \A id \in Ids : id < n => id # n /\ id < NextId(log) /\ id \in Int
      BY <1>3, <1>4 DEF Ids, log
    <3>2. \A id \in Ids : id < n => new[id] = oplog[Lead][id]
      BY <1>7, <3>1 DEF SInv, LogInv, n, log
    <3>. QED
      BY <1>5, <1>7, <2>1, <3>2
  <2>2. CASE j # i
    <3>1. oplog'[j] = oplog[j]
      BY <1>5, <2>2
    <3>. QED
      BY <1>3, <3>1 DEF SInv, LogInv, n
  <2>. QED
    BY <2>1, <2>2
<1>12. CatchInv'
  BY <1>1, <1>3, <1>5, <1>7, <1>8, <1>9 DEF CatchInv, CatchingUp
<1>13. PrepInv'
  <2>1. \A j \in Masters : NextId(oplog[j]) >= n => NextId(oplog'[j]) >= n
    BY <1>3, <1>5, <1>7
  <2>. QED
    BY <1>1, <1>2, <1>3, <1>5, <2>1 DEF SInv, PrepInv, InHand, Ready, CatchingUp, prepared, n
<1>. QED
  BY <1>10, <1>11, <1>12, <1>13 DEF Copies

LEMMA CommitUserdataCopies ==
  ASSUME Stable, IInv, SInv, NEW i \in Masters, CommitUserdata(i)
  PROVE  Copies'
<1>1. /\ confirm[i].at = "put_user" /\ Returns(TRUE)
      /\ confirm' = [confirm EXCEPT ![i] = ConfirmIdle] /\ UNCHANGED <<oplog, prepared>>
  BY CommitUserdataStable DEF SInv
<1>2. /\ InCall(Lead) /\ upload[Lead].at # "phase1"
      /\ \A j \in Masters : j # i => confirm[j].at = "idle"
  BY <1>1, AtWork DEF SInv, CatchingUp
<1>3. \A j \in Masters : confirm'[j].at = "idle" /\ confirm[j].at \notin CatchingUp
  BY <1>1, <1>2 DEF IInv, TypeOK, ConfirmIdle, CatchingUp
<1>. QED
  BY <1>1, <1>2, <1>3, Answered DEF Copies, SInv, PrepInv, Ready, prepared, Returns

\* What a master that catches up has in hand.
LEMMA CatchUpStable ==
  ASSUME Stable, IInv, SInv, NEW i \in Masters, confirm[i].at \in CatchingUp
  PROVE  /\ confirm[i].op = upload[Lead].op /\ confirm[i].op_id = NextId(oplog[Lead])
         /\ upload[Lead].at = "phase1" /\ InCall(Lead) /\ m_state_id[i] = NextId(oplog[Lead])
         /\ confirm[i].current \in Ids /\ confirm[i].current < NextId(oplog[Lead])
         /\ \A j \in Masters : j # i => confirm[j].at = "idle"
<1>1. /\ InCall(Lead) /\ upload[Lead].at = "phase1"
      /\ \A j \in Masters : j # i => confirm[j].at = "idle"
  BY AtWork DEF SInv, CatchingUp
<1>2. upload[Lead].op_id = NextId(oplog[Lead]) /\ NextId(oplog[Lead]) \in Ids
  BY <1>1, InCallFacts
<1>3. /\ confirm[i].op = upload[Lead].op /\ confirm[i].op_id = upload[Lead].op_id
      /\ m_state_id[i] = confirm[i].op_id /\ confirm[i].current < NextId(oplog[Lead])
  BY DEF SInv, CatchInv
<1>4. confirm[i].current \in 0..(MaxId + 1)
  BY DEF IInv, TypeOK, Confirms
<1>. QED
  BY <1>1, <1>2, <1>3, <1>4, OplogAssumption DEF Ids

\* A step of a master that catches up, after which it still does.
LEMMA StillCatchingUp ==
  ASSUME Stable, IInv, SInv, NEW i \in Masters, confirm[i].at \in CatchingUp,
         confirm'[i].at \in CatchingUp, \A j \in Masters : j # i => confirm'[j] = confirm[j],
         UNCHANGED <<m_state_id, upload>>,
         \A j \in Masters : j # i => /\ oplog'[j] = oplog[j] /\ m_state'[j] = m_state[j]
                                     /\ m_state_data'[j] = m_state_data[j]
  PROVE  PhaseInv' /\ PrepInv'
<1>1. i # Lead /\ Lead \in Masters
  BY AtWork, LeadFacts DEF SInv, CatchingUp
<1>2. oplog'[Lead] = oplog[Lead]
  BY <1>1
<1>3. PhaseInv'
  BY <1>2 DEF SInv, PhaseInv, InHand
<1>4. PrepInv'
  BY <1>2 DEF SInv, PrepInv, InHand, Ready
<1>. QED
  BY <1>3, <1>4

LEMMA FetchCopies ==
  ASSUME Stable, IInv, SInv, NEW i \in Masters, Fetch(i)
  PROVE  Copies'
<1>. DEFINE c == confirm[i]
            n == c.current
            page == Page(oplog[c.leader], c.last_id)
            d == [c EXCEPT !.page = page, !.at = IF page = EmptyLog THEN "fetch" ELSE "apply"]
<1>1. c.at = "fetch" /\ UNCHANGED <<oplog, prepared, upload>> /\ c \in Confirms
      /\ confirm' = [confirm EXCEPT ![i] = d]
  BY DEF Fetch, disk, IInv, TypeOK
<1>2. /\ c.op_id = NextId(oplog[Lead]) /\ m_state_id[i] = NextId(oplog[Lead]) /\ n < NextId(oplog[Lead])
      /\ n \in Ids /\ InCall(Lead) /\ \A j \in Masters : j # i => confirm[j].at = "idle"
  BY <1>1, CatchUpStable DEF CatchingUp
<1>3. /\ c.op = upload[Lead].op /\ c.op_id = upload[Lead].op_id /\ c.leader \in {i, Lead}
      /\ NextId(oplog[i]) = n /\ c.last_id = n /\ m_state_id[i] = c.op_id
  BY <1>1 DEF SInv, CatchInv, CatchingUp
<1>4. Lead \in Masters /\ oplog[Lead] \in Logs /\ NoGap(oplog[Lead]) /\ oplog[i] \in Logs /\ NoGap(oplog[i])
  BY <1>2, InCallFacts
<1>5. n \in 0..(MaxId + 1) /\ ~(n < NextId(oplog[i]))
  BY <1>2, <1>3, OplogAssumption DEF Ids
<1>6. page = EmptyLog \/ (page = Rest(oplog[Lead], n) /\ Rest(oplog[Lead], n) # EmptyLog)
  <2>1. Page(oplog[i], n) = EmptyLog
    BY <1>4, <1>5, WholePage
  <2>2. Page(oplog[Lead], n) = Rest(oplog[Lead], n)
    BY <1>2, <1>4, <1>5, WholePage
  <2>3. Rest(oplog[Lead], n) # EmptyLog
    BY <1>2, <1>4, RestOf
  <2>. QED
    BY <1>3, <2>1, <2>2, <2>3
<1>. HIDE DEF page
<1>7. /\ d.at = IF page = EmptyLog THEN "fetch" ELSE "apply"
      /\ d.page = page /\ d.current = n /\ d.last_id = c.last_id
      /\ d.op = c.op /\ d.op_id = c.op_id /\ d.leader = c.leader
  BY <1>1 DEF Confirms
<1>. HIDE DEF d
<1>8. confirm'[i] = d /\ \A j \in Masters : j # i => confirm'[j] = confirm[j]
  BY <1>1 DEF IInv, TypeOK
<1>9. CatchInv'
  BY <1>1, <1>2, <1>3, <1>6, <1>7, <1>8 DEF CatchInv, CatchingUp, prepared
<1>10. PhaseInv' /\ PrepInv'
  BY <1>1, <1>7, <1>8, StillCatchingUp DEF CatchingUp, prepared
<1>11. LogInv'
  BY <1>1 DEF SInv, LogInv
<1>. QED
  BY <1>9, <1>10, <1>11 DEF Copies

\* What update_oplog writes: the leader's entry, at the end of the oplog.
LEMMA ApplyFacts ==
  ASSUME Stable, IInv, SInv, NEW i \in Masters, ApplyOplog(i)
  PROVE  LET c == confirm[i] IN
         /\ i # Lead /\ c.current \in Ids /\ c.current < NextId(oplog[Lead])
         /\ c.current = NextId(oplog[i]) /\ c.page = Rest(oplog[Lead], c.current)
         /\ c.page[FirstOf(c.page)] = oplog[Lead][c.current] /\ oplog[Lead][c.current] \in Ops
<1>. DEFINE c == confirm[i]
            n == c.current
<1>1. c.at = "apply" /\ i # Lead
  BY ApplyOplogStable, AtWork DEF SInv
<1>2. n < NextId(oplog[Lead]) /\ n \in Ids /\ InCall(Lead)
  BY <1>1, CatchUpStable DEF CatchingUp
<1>3. NextId(oplog[i]) = n /\ c.page = Rest(oplog[Lead], n)
  BY <1>1 DEF SInv, CatchInv, CatchingUp
<1>4. Lead \in Masters /\ oplog[Lead] \in Logs /\ NoGap(oplog[Lead])
  BY <1>2, InCallFacts
<1>5. c.page[FirstOf(c.page)] = oplog[Lead][n]
  <2>1. FirstOf(Rest(oplog[Lead], n)) = n
    BY <1>2, <1>4, RestOf
  <2>2. Rest(oplog[Lead], n)[n] = oplog[Lead][n]
    BY <1>2, <1>4, RestOf
  <2>. QED
    BY <1>3, <2>1, <2>2
<1>6. oplog[Lead][n] \in Ops
  BY <1>2, <1>4 DEF NoGap, Logs
<1>. QED
  BY <1>1, <1>2, <1>3, <1>5, <1>6

\* The entry put is the leader's, and it goes to the end of the oplog.
LEMMA ApplyOplogCopies ==
  ASSUME Stable, IInv, SInv, NEW i \in Masters, ApplyOplog(i)
  PROVE  Copies'
<1>. DEFINE c == confirm[i]
            n == c.current
            log == oplog[i]
            op == oplog[Lead][n]
            new == [log EXCEPT ![n] = op]
            d == [c EXCEPT !.at = "apply_user"]
<1>1. /\ c.at = "apply" /\ c \in Confirms /\ UNCHANGED <<prepared, upload>>
      /\ oplog' = [oplog EXCEPT ![i][n] = c.page[FirstOf(c.page)]]
      /\ confirm' = [confirm EXCEPT ![i] = d]
  BY ApplyOplogStable DEF SInv, IInv, TypeOK
<1>2. /\ c.op_id = NextId(oplog[Lead]) /\ m_state_id[i] = NextId(oplog[Lead]) /\ n < NextId(oplog[Lead])
      /\ n \in Ids /\ InCall(Lead) /\ upload[Lead].at = "phase1"
      /\ \A j \in Masters : j # i => confirm[j].at = "idle"
  BY <1>1, CatchUpStable DEF CatchingUp
<1>3. /\ c.op = upload[Lead].op /\ c.op_id = upload[Lead].op_id /\ c.leader \in {i, Lead}
      /\ NextId(log) = n /\ c.page = Rest(oplog[Lead], n) /\ m_state_id[i] = c.op_id
  BY <1>1 DEF SInv, CatchInv, CatchingUp
<1>4. /\ Lead \in Masters /\ oplog[Lead] \in Logs /\ NoGap(oplog[Lead]) /\ log \in Logs /\ NoGap(log)
      /\ NextId(oplog[Lead]) \in Int
  BY <1>2, InCallFacts
<1>5. c.page[FirstOf(c.page)] = op
  BY ApplyFacts
<1>6. op \in Ops
  BY ApplyFacts
<1>7. i # Lead
  BY <1>1, AtWork DEF SInv
<1>8. oplog'[i] = new /\ \A j \in Masters : j # i => oplog'[j] = oplog[j]
  BY <1>1, <1>5 DEF IInv, TypeOK
<1>9. NoGap(new) /\ NextId(new) = n + 1 /\ new[n] = op /\ \A id \in Ids : id # n => new[id] = log[id]
  <2>1. \A e \in Ops : /\ NoGap([log EXCEPT ![NextId(log)] = e])
                       /\ NextId([log EXCEPT ![NextId(log)] = e]) = NextId(log) + 1
    BY <1>2, <1>3, <1>4, AppendNext
  <2>. QED
    BY <1>2, <1>3, <1>4, <1>6, <2>1 DEF Logs
<1>10. /\ d.at = "apply_user" /\ d.page = c.page /\ d.current = n
       /\ d.op = c.op /\ d.op_id = c.op_id /\ d.leader = c.leader
  BY <1>1 DEF Confirms
<1>. HIDE DEF d, new
<1>11. confirm'[i] = d /\ \A j \in Masters : j # i => confirm'[j] = confirm[j]
  BY <1>1 DEF IInv, TypeOK
<1>12. PhaseInv' /\ PrepInv'
  BY <1>1, <1>8, <1>10, <1>11, StillCatchingUp DEF CatchingUp, prepared
<1>13. CatchInv'
  <2>1. oplog'[Lead] = oplog[Lead] /\ upload' = upload /\ m_state_id' = m_state_id
    BY <1>1, <1>4, <1>7, <1>8 DEF prepared
  <2>2. \A j \in Masters : j # i => confirm'[j].at = "idle"
    BY <1>2, <1>11
  <2>3. NextId(oplog'[i]) = n + 1
    BY <1>8, <1>9
  <2>4. /\ d.op = upload[Lead].op /\ d.op_id = upload[Lead].op_id /\ d.leader \in {i, Lead}
        /\ m_state_id[i] = d.op_id /\ d.current < NextId(oplog[Lead]) /\ d.page = Rest(oplog[Lead], d.current)
    BY <1>2, <1>3, <1>10
  <2>. QED
    BY <1>10, <1>11, <2>1, <2>2, <2>3, <2>4 DEF CatchInv, CatchingUp
<1>14. LogInv'
  <2>1. oplog'[Lead] = oplog[Lead] /\ upload' = upload
    BY <1>1, <1>4, <1>7, <1>8
  <2>2. n \in Int /\ NextId(log) = n /\ n < NextId(oplog[Lead]) /\ NextId(oplog[Lead]) \in Int
    BY <1>2, <1>3, <1>4 DEF Ids
  <2>3. ASSUME NEW id \in Ids, id < n + 1
        PROVE  new[id] = oplog[Lead][id]
    <3>1. CASE id = n
      BY <1>9, <3>1
    <3>2. CASE id # n
      <4>1. id \in Int /\ id < n
        BY <2>2, <2>3, <3>2 DEF Ids
      <4>2. id < NextId(log) /\ id < NextId(oplog[Lead])
        BY <2>2, <4>1
      <4>3. log[id] = oplog[Lead][id]
        BY <4>2 DEF SInv, LogInv
      <4>. QED
        BY <1>9, <3>2, <4>3
    <3>. QED
      BY <3>1, <3>2
  <2>4. ~(n + 1 > NextId(oplog[Lead]))
    BY <1>2, <1>4, OplogAssumption DEF Ids
  <2>. QED
    BY <1>8, <1>9, <2>1, <2>3, <2>4 DEF SInv, LogInv
<1>. QED
  BY <1>12, <1>13, <1>14 DEF Copies

\* At the end of the page the master has every entry of the leader, so the loop
\* ends and the entry in hand is prepared.
LEMMA ApplyUserdataCopies ==
  ASSUME Stable, IInv, SInv, NEW i \in Masters, ApplyUserdata(i)
  PROVE  Copies'
<1>. DEFINE c == confirm[i]
            n == c.current
            len == NextId(oplog[Lead])
            rest == Rest(oplog[Lead], n + 1)
            at == IF rest = EmptyLog THEN "fetch" ELSE "apply"
            d == [c EXCEPT !.current = n + 1, !.page = rest, !.at = at]
<1>1. c.at = "apply_user" /\ UNCHANGED <<oplog, m_state_id>> /\ c \in Confirms
  BY ApplyUserdataStable DEF SInv, IInv, TypeOK
<1>2. /\ c.op_id = len /\ m_state_id[i] = len /\ n < len
      /\ n \in Ids /\ InCall(Lead) /\ upload[Lead].at = "phase1"
      /\ \A j \in Masters : j # i => confirm[j].at = "idle"
  BY <1>1, CatchUpStable DEF CatchingUp
<1>3. /\ c.op = upload[Lead].op /\ c.op_id = upload[Lead].op_id /\ c.leader \in {i, Lead}
      /\ NextId(oplog[i]) = n + 1 /\ c.page = Rest(oplog[Lead], n) /\ m_state_id[i] = c.op_id
  BY <1>1 DEF SInv, CatchInv, CatchingUp
<1>4. /\ Lead \in Masters /\ oplog[Lead] \in Logs /\ NoGap(oplog[Lead]) /\ len \in Int
      /\ Count(upload[Lead], TRUE) >= 2
  BY <1>2, InCallFacts
<1>5. [c.page EXCEPT ![FirstOf(c.page)] = NoOp] = rest /\ (rest = EmptyLog <=> n + 1 = len)
  <2>1. FirstOf(Rest(oplog[Lead], n)) = n
    BY <1>2, <1>4, RestOf
  <2>2. [Rest(oplog[Lead], n) EXCEPT ![n] = NoOp] = rest
    BY <1>2, <1>4, RestOf
  <2>3. rest = EmptyLog <=> n + 1 = len
    BY <1>2, <1>4, RestOf
  <2>. QED
    BY <1>3, <2>1, <2>2, <2>3
<1>6. \/ /\ n + 1 = len /\ Returns(TRUE)
         /\ m_state' = [m_state EXCEPT ![i] = TRUE]
         /\ m_state_data' = [m_state_data EXCEPT ![i] = c.op]
         /\ confirm' = [confirm EXCEPT ![i] = ConfirmIdle]
      \/ /\ n + 1 # len /\ confirm' = [confirm EXCEPT ![i] = d]
         /\ UNCHANGED <<m_state, m_state_data, upload>>
  <2>. DEFINE left == [c.page EXCEPT ![FirstOf(c.page)] = NoOp]
  <2>1. \/ /\ left = EmptyLog /\ Returns(TRUE)
           /\ m_state' = [m_state EXCEPT ![i] = TRUE]
           /\ m_state_data' = [m_state_data EXCEPT ![i] = c.op]
           /\ confirm' = [confirm EXCEPT ![i] = ConfirmIdle]
        \/ /\ ~(left = EmptyLog /\ AtTarget(c))
           /\ confirm' = [confirm EXCEPT ![i] = [c EXCEPT !.current = n + 1, !.page = left,
                                             !.at = IF left = EmptyLog THEN "fetch" ELSE "apply"]]
           /\ UNCHANGED <<m_state, m_state_data, upload>>
    BY ApplyUserdataStable DEF SInv
  <2>2. left = rest
    BY <1>5
  <2>3. AtTarget(c) <=> n + 1 = len
    BY <1>2 DEF AtTarget
  <2>. HIDE DEF left
  <2>. QED
    BY <1>5, <2>1, <2>2, <2>3
<1>7. CASE /\ n + 1 = len /\ Returns(TRUE)
           /\ m_state' = [m_state EXCEPT ![i] = TRUE]
           /\ m_state_data' = [m_state_data EXCEPT ![i] = c.op]
           /\ confirm' = [confirm EXCEPT ![i] = ConfirmIdle]
  <2>1. \A j \in Masters : confirm'[j].at = "idle"
    BY <1>2, <1>7 DEF IInv, TypeOK, ConfirmIdle
  <2>2. m_state'[i]
    BY <1>7 DEF IInv, TypeOK
  <2>3. m_state_data'[i] = upload[Lead].op /\ m_state_id'[i] = len
    BY <1>1, <1>2, <1>3, <1>7 DEF IInv, TypeOK
  <2>4. NextId(oplog[i]) >= len
    BY <1>3, <1>4, <1>7
  <2>5. \A j \in Masters : j # i => /\ m_state'[j] = m_state[j] /\ m_state_id'[j] = m_state_id[j]
                                    /\ m_state_data'[j] = m_state_data[j]
    BY <1>1, <1>7 DEF IInv, TypeOK
  <2>6. ASSUME NEW j \in Masters
        PROVE  \/ m_state_id'[j] < len
               \/ /\ m_state_id'[j] = len
                  /\ m_state'[j] /\ m_state_data'[j] = upload[Lead].op /\ NextId(oplog[j]) >= len
    BY <1>2, <2>2, <2>3, <2>4, <2>5 DEF SInv, PrepInv, Ready, CatchingUp
  <2>. QED
    BY <1>1, <1>2, <1>4, <1>7, <2>1, <2>6, Answered DEF Copies, Returns
<1>8. CASE /\ n + 1 # len /\ confirm' = [confirm EXCEPT ![i] = d]
           /\ UNCHANGED <<m_state, m_state_data, upload>>
  <2>1. at = "apply" /\ n + 1 < len
    <3>1. rest # EmptyLog
      BY <1>5, <1>8
    <3>2. n \in Int
      BY <1>2 DEF Ids
    <3>. HIDE DEF n, len
    <3>. QED
      BY <1>2, <1>4, <1>8, <3>1, <3>2
  <2>. HIDE DEF rest, at
  <2>2. /\ d.at = at /\ d.page = rest /\ d.current = n + 1
        /\ d.op = c.op /\ d.op_id = c.op_id /\ d.leader = c.leader
    BY <1>1 DEF Confirms
  <2>. HIDE DEF d
  <2>3. confirm'[i] = d /\ \A j \in Masters : j # i => confirm'[j] = confirm[j]
    BY <1>8 DEF IInv, TypeOK
  <2>4. CatchInv'
    <3>1. oplog' = oplog /\ upload' = upload /\ m_state_id' = m_state_id
      BY <1>1, <1>8
    <3>2. \A j \in Masters : j # i => confirm'[j].at = "idle"
      BY <1>2, <2>3
    <3>3. /\ d.op = upload[Lead].op /\ d.op_id = upload[Lead].op_id /\ d.leader \in {i, Lead}
          /\ m_state_id[i] = d.op_id /\ d.current < len /\ d.page = Rest(oplog[Lead], d.current)
          /\ NextId(oplog[i]) = d.current
      BY <1>2, <1>3, <2>1, <2>2 DEF rest
    <3>. QED
      BY <2>1, <2>2, <2>3, <3>1, <3>2, <3>3 DEF CatchInv, CatchingUp
  <2>5. PhaseInv' /\ PrepInv'
    BY <1>1, <1>8, <2>1, <2>2, <2>3, StillCatchingUp DEF CatchingUp
  <2>6. LogInv'
    BY <1>1, <1>8 DEF SInv, LogInv
  <2>. QED
    BY <2>4, <2>5, <2>6 DEF Copies
<1>. HIDE DEF d
<1>. QED
  BY <1>6, <1>7, <1>8

-----------------------------------------------------------------------------
(* The logs when a process or a role changes.                              *)

LEMMA CrashCopies ==
  ASSUME Stable, IInv, SInv, NEW m \in Masters, Crash(m)
  PROVE  Copies'
<1>1. m # Lead /\ Lead \in Masters /\ UNCHANGED oplog
  BY LeadFacts DEF Crash, disk
<1>2. \A j \in Masters : j # m => /\ m_state'[j] = m_state[j] /\ m_state_id'[j] = m_state_id[j]
                                  /\ m_state_data'[j] = m_state_data[j]
  BY DEF Crash, Forget, IInv, TypeOK
<1>3. m_state_id'[m] = -1 /\ -1 < NextId(oplog[Lead])
  BY <1>1, LengthType, OplogAssumption DEF Crash, Forget, IInv, TypeOK
<1>4. confirm' = [q \in Masters |-> CASE q = m -> ConfirmIdle
                                      [] q # m /\ confirm[q].from = m -> [confirm[q] EXCEPT !.from = 0]
                                      [] OTHER -> confirm[q]]
  BY DEF Crash
<1>5. \A q \in Masters : confirm[q].from # m
  <2>1. m # 0
    BY RolesAssumption DEF Masters
  <2>. QED
    BY <1>1, <2>1 DEF SInv, Quiet, IInv, ConfirmInv, ConfirmOK
<1>6. confirm'[m] = ConfirmIdle /\ \A q \in Masters : q # m => confirm'[q] = confirm[q]
  BY <1>4, <1>5
<1>7. ConfirmIdle.at = "idle"
  BY DEF ConfirmIdle
<1>8. upload' = [q \in Masters |-> CASE q = m -> UploadIdle
                                     [] q # m /\ q = confirm[m].from -> Advance(upload[q], q, FALSE)
                                     [] OTHER -> upload[q]]
  BY DEF Crash
<1>9. CASE confirm[m].at = "idle"
  <2>1. upload'[Lead] = upload[Lead]
    <3>1. confirm[m].from = 0 /\ Lead # 0
      BY <1>1, <1>9, RolesAssumption DEF IInv, ConfirmInv, ConfirmOK, Masters
    <3>. QED
      BY <1>1, <1>8, <3>1
  <2>2. PhaseInv' /\ LogInv'
    BY <1>1, <2>1 DEF SInv, PhaseInv, LogInv, InHand
  <2>3. CatchInv'
    BY <1>1, <1>2, <1>6, <1>7, <2>1 DEF SInv, CatchInv, CatchingUp
  <2>4. PrepInv'
    BY <1>1, <1>2, <1>3, <1>6, <2>1 DEF SInv, PrepInv, InHand, Ready
  <2>. QED
    BY <2>2, <2>3, <2>4 DEF Copies
<1>10. CASE confirm[m].at # "idle"
  <2>1. confirm[m].from = Lead /\ InCall(Lead) /\ \A j \in Masters : j # m => confirm[j].at = "idle"
    BY <1>10, AtWork DEF SInv
  <2>2. upload'[Lead] = Advance(upload[Lead], Lead, FALSE)
    BY <1>1, <1>8, <2>1
  <2>3. \A j \in Masters : confirm'[j].at = "idle"
    BY <1>6, <1>7, <2>1
  <2>4. ASSUME NEW j \in Masters
        PROVE  \/ m_state_id'[j] < NextId(oplog[Lead])
               \/ /\ m_state_id'[j] = NextId(oplog[Lead])
                  /\ m_state'[j] /\ m_state_data'[j] = upload[Lead].op
                  /\ NextId(oplog[j]) >= NextId(oplog[Lead])
                  /\ upload[Lead].at = "phase1" => Count(upload[Lead], FALSE) >= 2
    BY <1>2, <1>3, <2>1 DEF SInv, PrepInv, Ready, CatchingUp, Count
  <2>. QED
    BY <1>1, <2>1, <2>2, <2>3, <2>4, CallOver DEF Copies
<1>. QED
  BY <1>9, <1>10

LEMMA EnvironmentCopies ==
  ASSUME SInv, NEW m \in Masters, Restart(m) \/ RoleSettles(m) \/ RoleDoubted(m)
  PROVE  Copies'
BY LeaderStays DEF Restart, RoleSettles, RoleDoubted, disk

-----------------------------------------------------------------------------
LEMMA InitStable ==
  ASSUME Stable, Init
  PROVE  SInv
<1>0. Lead \in Masters
  BY LeadFacts
<1>1. \A m \in Masters : /\ oplog[m] = EmptyLog /\ m_state_id[m] = -1 /\ alive[m]
                         /\ upload[m] = UploadIdle /\ confirm[m] = ConfirmIdle
                         /\ m_status[m] = Consensus /\ m_leader[m] = m
  BY DEF Init, RolesInit, DataInit
<1>2. NoGap(EmptyLog) /\ NextId(EmptyLog) = 0
  BY EmptyLogType DEF NextId, NoGap, EmptyLog, Ids
<1>3. UploadIdle.at = "idle" /\ ConfirmIdle.at = "idle" /\ Consensus # Leader
  BY DEF UploadIdle, ConfirmIdle, Consensus, Leader
<1>4. Quiet
  BY <1>0, <1>1, <1>3 DEF Quiet, Stable, Init, DataInit
<1>. QED
  BY <1>0, <1>1, <1>2, <1>3, <1>4 DEF SInv, PhaseInv, LogInv, CatchInv, PrepInv, InHand, CatchingUp

LEMMA NextStable ==
  ASSUME Stable, IInv, IInv', SInv, [Next]_vars
  PROVE  SInv'
<1>0. Quiet /\ CatchInv
  BY DEF SInv
<1>1. CASE Next
  <2>1. PICK m \in Masters :
          \/ \E op \in Ops : UploadStart(m, op)
          \/ UploadStep(m) \/ ConfirmStep(m)
          \/ Crash(m) \/ Restart(m) \/ RoleSettles(m) \/ RoleDoubted(m)
    BY <1>1 DEF Next
  <2>2. CASE \E op \in Ops : UploadStart(m, op)
    BY <1>0, <2>2, QuietUpload, UploadStartCopies DEF SInv, Copies
  <2>3. CASE UploadStep(m)
    BY <1>0, <2>3, QuietUpload, UploadCopies DEF SInv, Copies
  <2>4. CASE ConfirmStep(m)
    <3>1. Copies'
      BY <1>0, <2>4, ConfirmCases, NoFetchFails, RefuseCopies, PrepareCopies, CatchUpCopies, CommitCopies,
         CommitUserdataCopies, FetchCopies, ApplyOplogCopies, ApplyUserdataCopies
    <3>. QED
      BY <1>0, <2>4, <3>1, QuietConfirm DEF SInv, Copies
  <2>5. CASE Crash(m) \/ Restart(m) \/ RoleSettles(m) \/ RoleDoubted(m)
    BY <1>0, <2>5, QuietEnvironment, CrashCopies, EnvironmentCopies DEF SInv, Copies
  <2>. QED
    BY <2>1, <2>2, <2>3, <2>4, <2>5
<1>2. CASE UNCHANGED vars
  <2>1. Copies' /\ UNCHANGED <<roles, alive, budget, upload, confirm>>
    BY <1>2, LeaderStays DEF vars, disk
  <2>2. Quiet'
    BY <1>0, <2>1 DEF Quiet, roles
  <2>. QED
    BY <2>1, <2>2 DEF SInv, Copies
<1>. QED
  BY <1>1, <1>2

LEMMA StableInvariance ==
  ASSUME Stable
  PROVE  Spec => [](IInv /\ SInv)
<1>1. Init => IInv /\ SInv
  BY InitInv, InitStable
<1>2. IInv /\ SInv /\ [Next]_vars => (IInv /\ SInv)'
  BY NextInv, NextStable
<1>. QED
  BY <1>1, <1>2, PTL DEF Spec

-----------------------------------------------------------------------------
LEMMA StableAgree ==
  ASSUME Stable, IInv, SInv
  PROVE  LogsAgree
<1>. SUFFICES ASSUME NEW p \in Masters, NEW q \in Masters, NEW id \in Ids,
                     oplog[p][id] # NoOp, oplog[q][id] # NoOp
              PROVE  oplog[p][id] = oplog[q][id]
  BY DEF LogsAgree, Written
<1>. DEFINE len == NextId(oplog[Lead])
<1>1. id \in Int /\ len \in Int /\ NextId(oplog[p]) \in Int /\ NextId(oplog[q]) \in Int
  BY LengthType, LeadFacts, OplogAssumption DEF Ids
<1>2. id < NextId(oplog[p]) /\ id < NextId(oplog[q])
  BY DEF SInv, LogInv, NoGap
<1>3. CASE id < len
  BY <1>2, <1>3 DEF SInv, LogInv
<1>4. CASE ~(id < len)
  <2>1. NextId(oplog[p]) > len /\ NextId(oplog[q]) > len
    BY <1>1, <1>2, <1>4
  <2>2. /\ upload[Lead].at \in {"phase2", "put"} /\ NextId(oplog[p]) = len + 1
        /\ oplog[p][upload[Lead].op_id] = oplog[q][upload[Lead].op_id]
    BY <2>1 DEF SInv, LogInv
  <2>3. upload[Lead].op_id = len
    BY <2>2 DEF SInv, PhaseInv, InHand
  <2>4. id = len
    BY <1>1, <1>2, <1>4, <2>2
  <2>. QED
    BY <2>2, <2>3, <2>4
<1>. QED
  BY <1>3, <1>4

\* Under a leader that stays up no two masters hold different entries under one id,
\* however many requests are lost and however often the others crash.
THEOREM AgreementTheorem ==
  ASSUME Stable
  PROVE  Spec => []LogsAgree
BY StableAgree, StableInvariance, PTL

\* The last key of an oplog tells how long it is: no id before it is missing.
THEOREM NoGapsTheorem ==
  ASSUME Stable
  PROVE  Spec => []NoGaps
<1>1. ASSUME IInv, SInv PROVE NoGaps
  <2>. SUFFICES ASSUME NEW m \in Masters
                PROVE  Written(oplog[m]) = 0..(NextId(oplog[m]) - 1)
    BY DEF NoGaps
  <2>1. NextId(oplog[m]) \in 0..(MaxId + 1)
    BY <1>1, LengthType
  <2>2. \A id \in Ids : oplog[m][id] # NoOp <=> id < NextId(oplog[m])
    BY <1>1 DEF SInv, LogInv, NoGap
  <2>. QED
    BY <2>1, <2>2, OplogAssumption DEF Written, Ids
<1>. QED
  BY <1>1, StableInvariance, PTL

\* A master has at most one entry more than the leader, the one the leader is about
\* to put itself.
THEOREM AheadTheorem ==
  ASSUME Stable
  PROVE  Spec => []AheadOnlyInFlight
<1>1. ASSUME IInv, SInv PROVE AheadOnlyInFlight
  <2>. SUFFICES ASSUME NEW m \in Masters, NextId(oplog[m]) > NextId(oplog[Lead])
                PROVE  /\ upload[Lead].at \in {"phase2", "put"}
                       /\ NextId(oplog[m]) = upload[Lead].op_id + 1
                       /\ oplog[m][upload[Lead].op_id] = upload[Lead].op
    BY LeadFacts DEF AheadOnlyInFlight
  <2>. QED
    BY <1>1 DEF SInv, LogInv, PhaseInv, InHand
<1>. QED
  BY <1>1, StableInvariance, PTL

-----------------------------------------------------------------------------
(* The masters copy one log: the refinement of SharedLog.                  *)

\* The entry that some master has under an id.
Entry(logs, id) == IF \E m \in Masters : logs[m][id] # NoOp
                   THEN CHOOSE op \in Ops : \E m \in Masters : logs[m][id] = op
                   ELSE NoOp
Agree(logs) ==
    \A p, q \in Masters, id \in Ids : logs[p][id] # NoOp /\ logs[q][id] # NoOp => logs[p][id] = logs[q][id]

LEMMA EntryIs ==
  ASSUME NEW logs, logs \in [Masters -> Logs], Agree(logs), NEW id \in Ids,
         NEW m \in Masters, logs[m][id] # NoOp
  PROVE  Entry(logs, id) = logs[m][id]
<1>1. logs[m][id] \in Ops
  BY DEF Logs
<1>2. \A op \in Ops : (\E q \in Masters : logs[q][id] = op) => op = logs[m][id]
  BY OplogAssumption DEF Agree
<1>3. (CHOOSE op \in Ops : \E q \in Masters : logs[q][id] = op) = logs[m][id]
  BY <1>1, <1>2
<1>. QED
  BY <1>3 DEF Entry

LEMMA NoEntry ==
  ASSUME NEW logs, NEW id \in Ids, \A m \in Masters : logs[m][id] = NoOp
  PROVE  Entry(logs, id) = NoOp
BY DEF Entry

\* A master adds an entry at the end of its oplog, which chooses or copies it.
LEMMA AddIsChooseOrLearn ==
  ASSUME oplog \in [Masters -> Logs], oplog' \in [Masters -> Logs], Agree(oplog), Agree(oplog'),
         NEW i \in Masters, NEW op \in Ops, NoGap(oplog[i]), NextId(oplog[i]) \in Ids,
         oplog' = [oplog EXCEPT ![i][NextId(oplog[i])] = op], UNCHANGED acked
  PROVE  TheLog!Next
<1>. DEFINE n == NextId(oplog[i])
            len == [m \in Masters |-> NextId(oplog[m])]
<1>1. /\ oplog'[i] = [oplog[i] EXCEPT ![n] = op]
      /\ \A m \in Masters : m # i => oplog'[m] = oplog[m]
  OBVIOUS
<1>2. NextId(oplog'[i]) = n + 1
  <2>1. oplog[i] \in Logs
    OBVIOUS
  <2>2. \A e \in Ops : /\ NoGap([oplog[i] EXCEPT ![NextId(oplog[i])] = e])
                       /\ NextId([oplog[i] EXCEPT ![NextId(oplog[i])] = e]) = NextId(oplog[i]) + 1
    BY <2>1, AppendNext
  <2>. QED
    BY <1>1, <2>2
<1>3. len' = [len EXCEPT ![i] = @ + 1] /\ len[i] = n
  BY <1>1, <1>2
<1>4. oplog'[i][n] = op /\ oplog[i][n] = NoOp /\ op # NoOp
  BY <1>1, OplogAssumption, NextIdType DEF Logs, NoGap, Ids
<1>5. \A m \in Masters, id \in Ids : id # n \/ m # i => oplog'[m][id] = oplog[m][id]
  BY <1>1 DEF Logs
<1>6. Chosen = [id \in Ids |-> Entry(oplog, id)] /\ Chosen' = [id \in Ids |-> Entry(oplog', id)]
  BY DEF Chosen, Entry
<1>. HIDE DEF len
<1>7. ASSUME NEW id \in Ids, id # n
      PROVE  Entry(oplog', id) = Entry(oplog, id)
  <2>1. \A m \in Masters : oplog'[m][id] = oplog[m][id]
    BY <1>5, <1>7
  <2>2. CASE \E m \in Masters : oplog[m][id] # NoOp
    <3>1. PICK m \in Masters : oplog[m][id] # NoOp /\ oplog'[m][id] # NoOp
      BY <2>1, <2>2
    <3>2. Entry(oplog, id) = oplog[m][id]
      BY <3>1, EntryIs
    <3>3. Entry(oplog', id) = oplog'[m][id]
      BY <3>1, EntryIs
    <3>. QED
      BY <2>1, <3>2, <3>3
  <2>3. CASE \A m \in Masters : oplog[m][id] = NoOp
    <3>1. Entry(oplog, id) = NoOp
      BY <2>3, NoEntry
    <3>2. \A m \in Masters : oplog'[m][id] = NoOp
      BY <2>1, <2>3
    <3>3. Entry(oplog', id) = NoOp
      BY <3>2, NoEntry
    <3>. QED
      BY <3>1, <3>3
  <2>. QED
    BY <2>2, <2>3
<1>8. Entry(oplog', n) = op
  BY <1>4, EntryIs
<1>9. CASE Entry(oplog, n) = NoOp
  <2>1. Chosen' = [Chosen EXCEPT ![n] = op]
    BY <1>6, <1>7, <1>8
  <2>2. Chosen[n] = NoOp
    BY <1>6, <1>9
  <2>3. TheLog!Choose(i, op)
    BY <1>3, <2>1, <2>2 DEF TheLog!Choose, len
  <2>. QED
    BY <2>3 DEF TheLog!Next
<1>10. CASE Entry(oplog, n) # NoOp
  <2>1. PICK m \in Masters : oplog[m][n] # NoOp
    BY <1>10, NoEntry
  <2>2. oplog'[m][n] = oplog[m][n]
    BY <1>4, <1>5, <2>1
  <2>3. Entry(oplog', n) = Entry(oplog, n)
    <3>1. Entry(oplog, n) = oplog[m][n]
      BY <2>1, EntryIs
    <3>2. Entry(oplog', n) = oplog'[m][n]
      BY <2>1, <2>2, EntryIs
    <3>. QED
      BY <2>2, <3>1, <3>2
  <2>4. Chosen' = Chosen
    BY <1>6, <1>7, <2>3
  <2>5. Chosen[n] # NoOp
    BY <1>6, <1>10
  <2>6. TheLog!Learn(i)
    BY <1>3, <2>4, <2>5 DEF TheLog!Learn, len
  <2>. QED
    BY <2>6 DEF TheLog!Next
<1>. QED
  BY <1>9, <1>10

\* What a step does to the oplogs and to the answers.
LEMMA Writes ==
  ASSUME Stable, IInv, SInv, [Next]_vars
  PROVE  \/ UNCHANGED <<oplog, acked>>
         \/ /\ UNCHANGED acked
            /\ \E i \in Masters, op \in Ops :
                 NextId(oplog[i]) \in Ids /\ oplog' = [oplog EXCEPT ![i][NextId(oplog[i])] = op]
         \/ /\ UNCHANGED oplog
            /\ acked' = acked \cup {[op_id |-> upload[Lead].op_id, op |-> upload[Lead].op]}
            /\ upload[Lead].op_id \in Ids /\ upload[Lead].op \in Ops
            /\ oplog[Lead][upload[Lead].op_id] = upload[Lead].op
<1>0. Quiet /\ CatchInv /\ Lead \in Masters /\ UploadOK(upload[Lead], Lead)
  BY LeadFacts DEF SInv, IInv, UploadInv
<1>1. CASE UNCHANGED vars
  BY <1>1 DEF vars, disk
<1>2. CASE Next
  <2>1. PICK m \in Masters :
          \/ \E op \in Ops : UploadStart(m, op)
          \/ UploadStep(m) \/ ConfirmStep(m)
          \/ Crash(m) \/ Restart(m) \/ RoleSettles(m) \/ RoleDoubted(m)
    BY <1>2 DEF Next
  <2>2. CASE \/ \E op \in Ops : UploadStart(m, op)
             \/ Crash(m) \/ Restart(m) \/ RoleSettles(m) \/ RoleDoubted(m)
    BY <2>2 DEF UploadStart, Crash, Restart, RoleSettles, RoleDoubted, disk
  <2>3. CASE UploadStep(m)
    <3>1. m = Lead
      BY <1>0, <2>3, LeadFacts DEF UploadStep, SpinRemoved, UploadRejected, TwoPhaseStart, NoAnswer, InCall,
                       PutOplog, PutUserdata, Quiet
    <3>2. CASE SpinRemoved(m) \/ UploadRejected(m) \/ TwoPhaseStart(m) \/ NoAnswer(m)
      BY <3>2 DEF SpinRemoved, UploadRejected, TwoPhaseStart, NoAnswer, disk
    <3>3. CASE PutOplog(m)
      <4>1. upload[Lead].at = "put" /\ upload[Lead].op \in Ops /\ upload[Lead].op_id \in Ids
        BY <1>0, <3>1, <3>3 DEF PutOplog, UploadOK, Uploads
      <4>2. upload[Lead].op_id = NextId(oplog[Lead])
        BY <4>1 DEF SInv, PhaseInv, InHand
      <4>3. oplog' = [oplog EXCEPT ![Lead][upload[Lead].op_id] = upload[Lead].op] /\ UNCHANGED acked
        BY <1>0, <3>1, <3>3, NoSpend DEF PutOplog
      <4>. QED
        BY <1>0, <4>1, <4>2, <4>3
    <3>4. CASE PutUserdata(m)
      <4>1. upload[Lead].at = "put_user" /\ upload[Lead].op \in Ops /\ upload[Lead].op_id \in Ids
        BY <1>0, <3>1, <3>4 DEF PutUserdata, UploadOK, Uploads
      <4>2. oplog[Lead][upload[Lead].op_id] = upload[Lead].op
        BY <4>1 DEF SInv, PhaseInv
      <4>3. /\ UNCHANGED oplog
            /\ acked' = acked \cup {[op_id |-> upload[Lead].op_id, op |-> upload[Lead].op]}
        BY <1>0, <3>1, <3>4, NoUndo DEF PutUserdata
      <4>. QED
        BY <4>1, <4>2, <4>3
    <3>. QED
      BY <2>3, <3>2, <3>3, <3>4 DEF UploadStep
  <2>4. CASE ConfirmStep(m)
    <3>1. ASSUME NEW q \in Masters, Commit(m, q)
          PROVE  \/ UNCHANGED <<oplog, acked>>
                 \/ /\ UNCHANGED acked /\ NextId(oplog[m]) \in Ids /\ upload[Lead].op \in Ops
                    /\ oplog' = [oplog EXCEPT ![m][NextId(oplog[m])] = upload[Lead].op]
      <4>. DEFINE n == NextId(oplog[Lead])
      <4>1. /\ m_state_data[m] = upload[Lead].op /\ upload[Lead].op_id = n /\ n \in Ids
            /\ NextId(oplog[m]) >= n
            /\ NextId(oplog[m]) > n => NextId(oplog[m]) = n + 1 /\ oplog[m][n] = upload[Lead].op
        BY <3>1, CommitFacts
      <4>2. oplog' = [oplog EXCEPT ![m][n] = upload[Lead].op] /\ UNCHANGED acked
        BY <1>0, <3>1, <4>1, CommitStable
      <4>3. upload[Lead].op \in Ops
        BY <1>0, <3>1, CommitStable DEF UploadOK
      <4>4. CASE NextId(oplog[m]) = n
        BY <4>1, <4>2, <4>3, <4>4
      <4>5. CASE NextId(oplog[m]) # n
        <5>1. oplog[m][n] = upload[Lead].op
          BY <4>1, <4>5, LengthType, LeadFacts
        <5>2. oplog' = oplog
          BY <4>1, <4>2, <5>1 DEF IInv, TypeOK, Logs
        <5>. QED
          BY <4>2, <5>2
      <4>. QED
        BY <4>4, <4>5
    <3>2. ASSUME ApplyOplog(m)
          PROVE  \E op \in Ops : /\ UNCHANGED acked /\ NextId(oplog[m]) \in Ids
                                 /\ oplog' = [oplog EXCEPT ![m][NextId(oplog[m])] = op]
      BY <1>0, <3>2, ApplyFacts, ApplyOplogStable
    <3>3. CASE CommitUserdata(m) \/ ApplyUserdata(m)
      BY <1>0, <3>3, CommitUserdataStable, ApplyUserdataStable
    <3>4. ASSUME NEW q \in Masters, Refuse(m, q) \/ Prepare(m, q) \/ CatchUp(m, q)
          PROVE  UNCHANGED <<oplog, acked>>
      BY <3>4 DEF Refuse, Prepare, CatchUp, disk
    <3>5. CASE Fetch(m) \/ FetchFails(m)
      BY <3>5 DEF Fetch, FetchFails, disk
    <3>. QED
      BY <2>4, <3>1, <3>2, <3>3, <3>4, <3>5 DEF ConfirmStep, AnswerCall
  <2>. QED
    BY <2>1, <2>2, <2>3, <2>4
<1>. QED
  BY <1>1, <1>2

\* Under a leader that stays up the masters implement the shared log: an entry once
\* chosen is never replaced, every oplog grows along it, and an upload is answered
\* only when its entry is chosen.
THEOREM RefinementTheorem ==
  ASSUME Stable
  PROVE  Spec => ImplementsSharedLog
<1>1. ASSUME Init PROVE TheLog!Init
  <2>1. \A m \in Masters : oplog[m] = EmptyLog
    BY <1>1 DEF Init, DataInit
  <2>2. NextId(EmptyLog) = 0
    BY EmptyLogType DEF NextId
  <2>3. Chosen = [id \in Ids |-> NoOp]
    BY <2>1 DEF Chosen, EmptyLog
  <2>. QED
    BY <1>1, <2>1, <2>2, <2>3 DEF TheLog!Init, Init, DataInit
<1>2. ASSUME IInv, IInv', SInv, LogsAgree, LogsAgree', [Next]_vars
      PROVE  [TheLog!Next]_(TheLog!vars)
  <2>0. /\ oplog \in [Masters -> Logs] /\ oplog' \in [Masters -> Logs] /\ Lead \in Masters
        /\ \A i \in Masters : NoGap(oplog[i])
    BY <1>2, LeadFacts DEF IInv, TypeOK, SInv, LogInv
  <2>1. Agree(oplog) /\ Agree(oplog')
    BY <1>2 DEF Agree, LogsAgree, Written
  <2>2. CASE UNCHANGED <<oplog, acked>>
    BY <2>2 DEF TheLog!vars, Chosen
  <2>3. ASSUME NEW i \in Masters, NEW op \in Ops, UNCHANGED acked, NextId(oplog[i]) \in Ids,
               oplog' = [oplog EXCEPT ![i][NextId(oplog[i])] = op]
        PROVE  TheLog!Next
    BY <2>0, <2>1, <2>3, AddIsChooseOrLearn
  <2>4. ASSUME UNCHANGED oplog, upload[Lead].op_id \in Ids, upload[Lead].op \in Ops,
               acked' = acked \cup {[op_id |-> upload[Lead].op_id, op |-> upload[Lead].op]},
               oplog[Lead][upload[Lead].op_id] = upload[Lead].op
        PROVE  TheLog!Next
    <3>. DEFINE id == upload[Lead].op_id
    <3>1. Entry(oplog, id) = oplog[Lead][id]
      <4>1. oplog[Lead][id] # NoOp
        BY <2>4, OplogAssumption
      <4>. QED
        BY <2>0, <2>1, <2>4, <4>1, EntryIs
    <3>2. Chosen = [j \in Ids |-> Entry(oplog, j)]
      BY DEF Chosen, Entry
    <3>3. Chosen[id] = upload[Lead].op /\ upload[Lead].op # NoOp
      BY <2>4, <3>1, <3>2, OplogAssumption
    <3>4. Chosen' = Chosen /\ [m \in Masters |-> NextId(oplog[m])]' = [m \in Masters |-> NextId(oplog[m])]
      BY <2>4 DEF Chosen
    <3>5. TheLog!Acknowledge(id)
      BY <2>4, <3>3, <3>4 DEF TheLog!Acknowledge
    <3>. QED
      BY <2>4, <3>5 DEF TheLog!Next
  <2>. QED
    BY <1>2, <2>2, <2>3, <2>4, Writes
<1>. QED
  BY <1>1, <1>2, StableInvariance, StableAgree, PTL DEF Spec, ImplementsSharedLog, TheLog!Spec

-----------------------------------------------------------------------------
(* The files: userdata at the leader keeps a file from being uploaded twice. *)

Matches(m) ==
    /\ userdata[m] \subseteq FilesOf(oplog[m])
    /\ m \notin Crashable => \A f \in FilesOf(oplog[m]) \ userdata[m] : BetweenPuts(m, f)

\* The files of the leader's oplog differ from one another and from the one in hand.
LeaderFiles ==
    /\ \A i, j \in Ids : oplog[Lead][i] # NoOp /\ oplog[Lead][j] # NoOp
                         /\ oplog[Lead][i].file = oplog[Lead][j].file => i = j
    /\ InHand => \A id \in Ids : oplog[Lead][id] # NoOp => oplog[Lead][id].file # upload[Lead].op.file
FileInv == LeaderFiles /\ \A m \in Masters : Matches(m)

\* A master's databases stay, and it is not between two puts or stays between them.
Keeps(m) ==
    /\ oplog'[m] = oplog[m] /\ userdata'[m] = userdata[m]
    /\ m \in Crashable \/ /\ upload[m].at = "put_user" => upload'[m] = upload[m]
                          /\ confirm[m].at \in {"put_user", "apply_user"} => confirm'[m] = confirm[m]

LEMMA MatchesKept ==
  ASSUME NEW m \in Masters, Matches(m), Keeps(m)
  PROVE  Matches(m)'
BY DEF Matches, Keeps, BetweenPuts

\* The first put of an entry.
LEMMA MatchesPut ==
  ASSUME NEW m \in Masters, Matches(m), oplog[m] \in Logs, NoGap(oplog[m]), NextId(oplog[m]) \in Ids,
         NEW op \in Ops, oplog'[m] = [oplog[m] EXCEPT ![NextId(oplog[m])] = op],
         userdata'[m] = userdata[m], \A f : ~BetweenPuts(m, f), BetweenPuts(m, op.file)'
  PROVE  Matches(m)'
<1>1. /\ oplog'[m][NextId(oplog[m])] = op /\ op # NoOp /\ oplog[m][NextId(oplog[m])] = NoOp
      /\ \A id \in Ids : id # NextId(oplog[m]) => oplog'[m][id] = oplog[m][id]
  BY OplogAssumption, NextIdType DEF Logs, NoGap, Ids
<1>2. FilesOf(oplog'[m]) = FilesOf(oplog[m]) \cup {op.file}
  BY <1>1 DEF FilesOf, Written
<1>. QED
  BY <1>2 DEF Matches

\* The second put.
LEMMA MatchesUserdata ==
  ASSUME NEW m \in Masters, Matches(m), NEW f \in FilesOf(oplog[m]), oplog'[m] = oplog[m],
         userdata'[m] = userdata[m] \cup {f}, \A g : BetweenPuts(m, g) => g = f
  PROVE  Matches(m)'
<1>1. userdata'[m] \subseteq FilesOf(oplog'[m])
  BY DEF Matches
<1>2. m \notin Crashable => FilesOf(oplog'[m]) \ userdata'[m] = {}
  BY DEF Matches
<1>. QED
  BY <1>1, <1>2 DEF Matches

\* What the upload thread does to the files.
LEMMA UploadFiles ==
  ASSUME Stable, IInv, SInv, FileInv, NEW m \in Masters,
         (\E op \in Ops : UploadStart(m, op)) \/ UploadStep(m)
  PROVE  \A q \in Masters : Matches(q)'
<1>0. Lead \in Masters /\ UploadOK(upload[Lead], Lead) /\ confirm[Lead].at = "idle"
  BY LeadFacts DEF SInv, Quiet, IInv, UploadInv
<1>1. ASSUME NEW op \in Ops, UploadStart(m, op) PROVE \A q \in Masters : Matches(q)'
  <2>1. \A q \in Masters : Keeps(q)
    BY <1>1 DEF UploadStart, Keeps, disk, IInv, TypeOK
  <2>. QED
    BY <2>1, MatchesKept DEF FileInv
<1>2. CASE UploadStep(m)
  <2>1. m = Lead
    BY <1>0, <1>2, LeadFacts DEF UploadStep, SpinRemoved, UploadRejected, TwoPhaseStart, NoAnswer, InCall,
                     PutOplog, PutUserdata, Quiet, SInv
  <2>2. CASE UploadRejected(m) \/ TwoPhaseStart(m) \/ NoAnswer(m)
    <3>1. \A q \in Masters : Keeps(q)
      BY <2>2, NoSpend DEF UploadRejected, TwoPhaseStart, NoAnswer, InCall, Keeps, disk, IInv, TypeOK, SInv
    <3>. QED
      BY <3>1, MatchesKept DEF FileInv
  <2>3. CASE PutOplog(m)
    <3>1. upload[Lead].at = "put" /\ upload[Lead].op \in Ops /\ upload[Lead].op_id \in Ids
      BY <1>0, <2>1, <2>3 DEF PutOplog, UploadOK, Uploads
    <3>2. upload[Lead].op_id = NextId(oplog[Lead])
      BY <3>1 DEF SInv, PhaseInv, InHand
    <3>3. /\ oplog' = [oplog EXCEPT ![Lead][upload[Lead].op_id] = upload[Lead].op]
          /\ upload' = [upload EXCEPT ![Lead].at = "put_user"] /\ UNCHANGED <<userdata, confirm>>
      BY <2>1, <2>3, NoSpend DEF PutOplog, SInv
    <3>4. oplog[Lead] \in Logs /\ NoGap(oplog[Lead])
      BY <1>0 DEF IInv, TypeOK, SInv, LogInv
    <3>5. oplog'[Lead] = [oplog[Lead] EXCEPT ![NextId(oplog[Lead])] = upload[Lead].op]
      BY <1>0, <3>2, <3>3 DEF IInv, TypeOK
    <3>6. upload'[Lead].at = "put_user" /\ upload'[Lead].op = upload[Lead].op
      BY <1>0, <3>3 DEF IInv, TypeOK, Uploads
    <3>7. \A f : ~BetweenPuts(Lead, f)
      BY <1>0, <3>1 DEF BetweenPuts
    <3>8. BetweenPuts(Lead, upload[Lead].op.file)'
      BY <3>6 DEF BetweenPuts
    <3>9. Matches(Lead)'
      BY <1>0, <3>1, <3>2, <3>3, <3>4, <3>5, <3>7, <3>8, MatchesPut DEF FileInv
    <3>10. \A q \in Masters : q # Lead => Keeps(q)
      BY <3>3 DEF Keeps, IInv, TypeOK
    <3>. QED
      BY <3>9, <3>10, MatchesKept DEF FileInv
  <2>4. CASE PutUserdata(m)
    <3>1. upload[Lead].at = "put_user" /\ upload[Lead].op \in Ops /\ upload[Lead].op_id \in Ids
      BY <1>0, <2>1, <2>4 DEF PutUserdata, UploadOK, Uploads
    <3>2. oplog[Lead][upload[Lead].op_id] = upload[Lead].op
      BY <3>1 DEF SInv, PhaseInv
    <3>3. /\ userdata' = [userdata EXCEPT ![Lead] = @ \cup {upload[Lead].op.file}]
          /\ upload' = [upload EXCEPT ![Lead] = UploadIdle] /\ UNCHANGED <<oplog, confirm>>
      BY <2>1, <2>4, NoUndo DEF PutUserdata, AddUserdata, SInv
    <3>4. upload[Lead].op.file \in FilesOf(oplog[Lead])
      BY <3>1, <3>2, OplogAssumption DEF FilesOf, Written
    <3>5. \A f : BetweenPuts(Lead, f) => f = upload[Lead].op.file
      BY <1>0 DEF BetweenPuts
    <3>6. userdata'[Lead] = userdata[Lead] \cup {upload[Lead].op.file} /\ oplog'[Lead] = oplog[Lead]
      BY <1>0, <3>3 DEF IInv, TypeOK
    <3>7. Matches(Lead)'
      BY <1>0, <3>4, <3>5, <3>6, MatchesUserdata DEF FileInv
    <3>8. \A q \in Masters : q # Lead => Keeps(q)
      BY <3>3 DEF Keeps, IInv, TypeOK
    <3>. QED
      BY <3>7, <3>8, MatchesKept DEF FileInv
  <2>. QED
    BY <1>2, <2>2, <2>3, <2>4, LeadFacts DEF UploadStep, SpinRemoved
<1>. QED
  BY <1>1, <1>2

\* A confirm thread works while the leader's upload thread waits.
LEMMA OthersKeep ==
  ASSUME Stable, IInv, Quiet, InCall(Lead), NEW i \in Masters, NEW q \in Masters,
         UNCHANGED upload \/ Returns(TRUE) \/ Returns(FALSE),
         oplog'[q] = oplog[q], userdata'[q] = userdata[q],
         confirm'[q] = confirm[q] \/ confirm[q].at \notin {"put_user", "apply_user"}
  PROVE  Keeps(q)
<1>1. q # Lead => upload'[q] = upload[q]
  BY LeadFacts DEF Returns, IInv, TypeOK
<1>2. upload[Lead].at # "put_user"
  BY DEF InCall
<1>. QED
  BY <1>1, <1>2 DEF Keeps

\* What a confirm thread does to the files.
LEMMA CommitFiles ==
  ASSUME Stable, IInv, SInv, FileInv, NEW i \in Masters, NEW m \in Masters, Commit(i, m)
  PROVE  \A q \in Masters : Matches(q)'
<1>0. upload[Lead].op \in Ops /\ Lead \in Masters
  <2>1. InCall(Lead)
    BY CallOfLead DEF Commit, SInv
  <2>. QED
    BY <2>1, LeadFacts DEF InCall, IInv, UploadInv, UploadOK
<1>. PICK op \in Ops : op = upload[Lead].op
  BY <1>0
<1>. DEFINE n == NextId(oplog[Lead])
            c == [ConfirmIdle EXCEPT !.at = "put_user", !.from = Lead, !.op_id = n, !.op = op]
<1>1. /\ i # Lead /\ m_state_data[i] = op /\ upload[Lead].op_id = n /\ n \in Ids
      /\ NextId(oplog[i]) >= n
  BY CommitFacts
<1>2. NextId(oplog[i]) > n => NextId(oplog[i]) = n + 1 /\ oplog[i][n] = op
  BY CommitFacts
<1>3. /\ oplog' = [oplog EXCEPT ![i][n] = op] /\ confirm' = [confirm EXCEPT ![i] = c]
      /\ UNCHANGED <<userdata, upload>>
  BY <1>1, CommitStable DEF SInv
<1>4. InCall(Lead) /\ Quiet /\ Called(i, m)
  BY CallOfLead DEF Commit, SInv
<1>5. confirm[i].at = "idle" /\ upload[i].at \in {"idle", "spin"}
  BY <1>1, <1>4 DEF Quiet, Called
<1>6. /\ oplog'[i] = [oplog[i] EXCEPT ![n] = op] /\ oplog[i] \in Logs /\ NoGap(oplog[i])
      /\ Matches(i)
  BY <1>3, InCallFacts, <1>4 DEF IInv, TypeOK, FileInv, SInv, LogInv
<1>7. c.at = "put_user" /\ c.op = op
  BY DEF ConfirmIdle
<1>8. confirm'[i] = c /\ \A q \in Masters : q # i => confirm'[q] = confirm[q]
  <2>. HIDE DEF c
  <2>. QED
    BY <1>3 DEF IInv, TypeOK
<1>9. n \in Int /\ NextId(oplog[i]) \in Int
  BY LengthType, <1>0
<1>. HIDE DEF c, n
<1>10. Matches(i)'
  <2>1. CASE NextId(oplog[i]) = n
    <3>1. \A f : ~BetweenPuts(i, f)
      BY <1>5 DEF BetweenPuts
    <3>2. BetweenPuts(i, op.file)'
      <4>1. confirm'[i].at = "put_user" /\ confirm'[i].op = op
        BY <1>7, <1>8
      <4>2. confirm'[i].at = "put_user" /\ confirm'[i].op.file = op.file
        BY <4>1
      <4>. QED
        BY <4>2 DEF BetweenPuts
    <3>3. NextId(oplog[i]) \in Ids /\ oplog'[i] = [oplog[i] EXCEPT ![NextId(oplog[i])] = op]
          /\ userdata'[i] = userdata[i]
      BY <1>1, <1>3, <1>6, <2>1
    <3>. QED
      BY <1>6, <1>9, <3>1, <3>2, <3>3, MatchesPut
  <2>2. CASE NextId(oplog[i]) # n
    <3>1. NextId(oplog[i]) > n
      BY <1>1, <1>9, <2>2
    <3>2. oplog'[i] = oplog[i]
      BY <1>1, <1>2, <1>6, <3>1 DEF Logs
    <3>. QED
      BY <1>3, <1>4, <1>5, <1>6, <3>2, OthersKeep, MatchesKept
  <2>. QED
    BY <2>1, <2>2
<1>11. ASSUME NEW q \in Masters, q # i PROVE Matches(q)'
  <2>1. oplog'[q] = oplog[q] /\ confirm'[q] = confirm[q]
    BY <1>3, <1>8, <1>11 DEF IInv, TypeOK
  <2>. QED
    BY <1>3, <1>4, <2>1, OthersKeep, MatchesKept DEF FileInv
<1>. QED
  BY <1>10, <1>11

\* The second put of a confirm thread, of an entry that is in its oplog.
LEMMA SecondPut ==
  ASSUME Stable, IInv, SInv, FileInv, NEW i \in Masters, InCall(Lead), i # Lead,
         UNCHANGED upload \/ Returns(TRUE), UNCHANGED oplog,
         NEW f \in FilesOf(oplog[i]), AddUserdata(i, f), \A g : BetweenPuts(i, g) => g = f,
         \A q \in Masters : q # i => confirm'[q] = confirm[q]
  PROVE  \A q \in Masters : Matches(q)'
<1>1. userdata'[i] = userdata[i] \cup {f} /\ \A q \in Masters : q # i => userdata'[q] = userdata[q]
  BY DEF AddUserdata, IInv, TypeOK
<1>2. Matches(i)'
  BY <1>1, MatchesUserdata DEF FileInv
<1>3. ASSUME NEW q \in Masters, q # i PROVE Matches(q)'
  BY <1>1, <1>3, OthersKeep, MatchesKept DEF FileInv, SInv
<1>. QED
  BY <1>2, <1>3

LEMMA CommitUserdataFiles ==
  ASSUME Stable, IInv, SInv, FileInv, NEW i \in Masters, CommitUserdata(i)
  PROVE  \A q \in Masters : Matches(q)'
<1>. DEFINE c == confirm[i]
<1>1. /\ c.at = "put_user" /\ AddUserdata(i, c.op.file) /\ Returns(TRUE) /\ UNCHANGED oplog
      /\ confirm' = [confirm EXCEPT ![i] = ConfirmIdle]
  BY CommitUserdataStable DEF SInv
<1>2. i # Lead /\ InCall(Lead)
  BY <1>1, AtWork DEF SInv
<1>3. c.op \in Ops /\ c.op_id \in Ids
  BY <1>1 DEF IInv, TypeOK, Confirms, ConfirmInv, ConfirmOK
<1>4. oplog[i][c.op_id] = c.op
  BY <1>1 DEF SInv, CatchInv
<1>5. c.op.file \in FilesOf(oplog[i])
  BY <1>3, <1>4, OplogAssumption DEF FilesOf, Written
<1>6. upload[i].at # "put_user"
  BY <1>2 DEF SInv, Quiet
<1>7. \A g : BetweenPuts(i, g) => g = c.op.file
  BY <1>1, <1>6 DEF BetweenPuts
<1>8. \A q \in Masters : q # i => confirm'[q] = confirm[q]
  BY <1>1 DEF IInv, TypeOK
<1>. QED
  BY <1>1, <1>2, <1>5, <1>7, <1>8, SecondPut

LEMMA ApplyUserdataFiles ==
  ASSUME Stable, IInv, SInv, FileInv, NEW i \in Masters, ApplyUserdata(i)
  PROVE  \A q \in Masters : Matches(q)'
<1>. DEFINE c == confirm[i]
            n == c.current
            first == c.page[FirstOf(c.page)]
<1>1. c.at = "apply_user" /\ AddUserdata(i, first.file) /\ UNCHANGED oplog
      /\ (UNCHANGED upload \/ Returns(TRUE))
  BY ApplyUserdataStable DEF SInv
<1>2. i # Lead /\ InCall(Lead)
  BY <1>1, AtWork DEF SInv, CatchingUp
<1>3. n < NextId(oplog[Lead]) /\ n \in Ids
  BY <1>1, CatchUpStable DEF CatchingUp
<1>4. NextId(oplog[i]) = n + 1 /\ c.page = Rest(oplog[Lead], n)
  BY <1>1 DEF SInv, CatchInv, CatchingUp
<1>5. Lead \in Masters /\ oplog[Lead] \in Logs /\ NoGap(oplog[Lead]) /\ oplog[i] \in Logs /\ NoGap(oplog[i])
  BY <1>2, InCallFacts
<1>6. first = oplog[Lead][n]
  <2>1. FirstOf(Rest(oplog[Lead], n)) = n
    BY <1>3, <1>5, RestOf
  <2>2. Rest(oplog[Lead], n)[n] = oplog[Lead][n]
    BY <1>3, <1>5, RestOf
  <2>. QED
    BY <1>4, <2>1, <2>2
<1>7. n < NextId(oplog[i])
  BY <1>3, <1>4, OplogAssumption DEF Ids
<1>8. oplog[i][n] = first /\ oplog[i][n] # NoOp
  BY <1>3, <1>5, <1>6, <1>7 DEF SInv, LogInv, NoGap
<1>9. first.file \in FilesOf(oplog[i])
  BY <1>3, <1>8 DEF FilesOf, Written
<1>10. upload[i].at # "put_user"
  BY <1>2 DEF SInv, Quiet
<1>11. \A g : BetweenPuts(i, g) => g = first.file
  BY <1>1, <1>10 DEF BetweenPuts
<1>12. \A q \in Masters : q # i => confirm'[q] = confirm[q]
  BY DEF ApplyUserdata, GiveUp, IInv, TypeOK
<1>. HIDE DEF first
<1>. QED
  BY <1>1, <1>2, <1>9, <1>11, <1>12, SecondPut

LEMMA ApplyOplogFiles ==
  ASSUME Stable, IInv, SInv, FileInv, NEW i \in Masters, ApplyOplog(i)
  PROVE  \A q \in Masters : Matches(q)'
<1>. DEFINE c == confirm[i]
            n == c.current
<1>. PICK op \in Ops : op = c.page[FirstOf(c.page)]
  BY ApplyFacts
<1>1. /\ c.at = "apply" /\ n \in Ids /\ UNCHANGED <<userdata, upload>>
      /\ oplog' = [oplog EXCEPT ![i][n] = op]
      /\ confirm' = [confirm EXCEPT ![i].at = "apply_user"]
  BY ApplyOplogStable DEF SInv
<1>2. i # Lead /\ n = NextId(oplog[i])
  BY ApplyFacts
<1>4. InCall(Lead) /\ Quiet
  BY <1>1, AtWork DEF SInv, CatchingUp
<1>5. oplog[i] \in Logs /\ NoGap(oplog[i])
  BY <1>4, InCallFacts
<1>6. oplog'[i] = [oplog[i] EXCEPT ![NextId(oplog[i])] = op] /\ NextId(oplog[i]) \in Ids
  BY <1>1, <1>2 DEF IInv, TypeOK
<1>7. \A f : ~BetweenPuts(i, f)
  BY <1>1, <1>2, <1>4 DEF BetweenPuts, Quiet
<1>8. confirm'[i].at = "apply_user" /\ confirm'[i].page = c.page
  BY <1>1 DEF IInv, TypeOK, Confirms
<1>9. BetweenPuts(i, op.file)'
  BY <1>8 DEF BetweenPuts
<1>10. Matches(i)'
  <2>1. Matches(i) /\ userdata'[i] = userdata[i]
    BY <1>1 DEF FileInv
  <2>. QED
    BY <1>5, <1>6, <1>7, <1>9, <2>1, MatchesPut
<1>11. ASSUME NEW q \in Masters, q # i PROVE Matches(q)'
  <2>1. oplog'[q] = oplog[q] /\ confirm'[q] = confirm[q]
    BY <1>1, <1>11 DEF IInv, TypeOK
  <2>. QED
    BY <1>1, <1>4, <2>1, OthersKeep, MatchesKept DEF FileInv
<1>. QED
  BY <1>10, <1>11

LEMMA ConfirmFiles ==
  ASSUME Stable, IInv, SInv, FileInv, NEW i \in Masters, ConfirmStep(i)
  PROVE  \A q \in Masters : Matches(q)'
<1>0. Quiet /\ CatchInv
  BY DEF SInv
<1>1. ASSUME NEW m \in Masters, Called(i, m), Refuse(i, m) \/ Prepare(i, m) \/ CatchUp(i, m)
      PROVE  \A q \in Masters : Matches(q)'
  <2>1. InCall(Lead) /\ confirm[i].at = "idle"
    BY <1>0, <1>1, CallOfLead
  <2>2. UNCHANGED upload \/ Returns(TRUE) \/ Returns(FALSE)
    BY <1>0, <1>1, RefuseStable, PrepareStable DEF CatchUp
  <2>3. UNCHANGED <<oplog, userdata>> /\ \A q \in Masters : q # i => confirm'[q] = confirm[q]
    BY <1>1 DEF Refuse, Prepare, CatchUp, disk, IInv, TypeOK
  <2>4. \A q \in Masters : Keeps(q)
    BY <1>0, <2>1, <2>2, <2>3, OthersKeep
  <2>. QED
    BY <2>4, MatchesKept DEF FileInv
<1>2. CASE Fetch(i)
  <2>1. confirm[i].at = "fetch" /\ UNCHANGED <<oplog, userdata, upload>>
        /\ \A q \in Masters : q # i => confirm'[q] = confirm[q]
    BY <1>2 DEF Fetch, disk, IInv, TypeOK
  <2>2. InCall(Lead)
    BY <1>0, <2>1, AtWork
  <2>3. \A q \in Masters : Keeps(q)
    BY <1>0, <2>1, <2>2, OthersKeep
  <2>. QED
    BY <2>3, MatchesKept DEF FileInv
<1>. QED
  BY <1>0, <1>1, <1>2, ConfirmCases, NoFetchFails, CommitFiles, CommitUserdataFiles, ApplyOplogFiles,
     ApplyUserdataFiles

\* A master that crashes is not held to what it was about to put.
LEMMA EnvironmentFiles ==
  ASSUME Stable, IInv, SInv, FileInv, NEW m \in Masters,
         Crash(m) \/ Restart(m) \/ RoleSettles(m) \/ RoleDoubted(m)
  PROVE  \A q \in Masters : Matches(q)'
<1>1. CASE Crash(m)
  <2>1. m \in Crashable /\ m # Lead /\ Lead \in Masters /\ UNCHANGED <<oplog, userdata>>
    BY <1>1, LeadFacts DEF Crash, disk
  <2>2. \A q \in Masters : confirm[q].from # m
    <3>1. m # 0
      BY RolesAssumption DEF Masters
    <3>. QED
      BY <2>1, <3>1 DEF SInv, Quiet, IInv, ConfirmInv, ConfirmOK
  <2>3. \A q \in Masters : q # m => confirm'[q] = confirm[q]
    BY <1>1, <2>2 DEF Crash
  <2>4. upload' = [q \in Masters |-> CASE q = m -> UploadIdle
                                       [] q # m /\ q = confirm[m].from -> Advance(upload[q], q, FALSE)
                                       [] OTHER -> upload[q]]
    BY <1>1 DEF Crash
  <2>5. ASSUME NEW q \in Masters, q # m, upload[q].at = "put_user"
        PROVE  upload'[q] = upload[q]
    <3>1. q # confirm[m].from
      BY <2>5, RolesAssumption DEF IInv, CallsMatch, InCall, Masters
    <3>. QED
      BY <2>4, <2>5, <3>1
  <2>6. \A q \in Masters : Keeps(q)
    BY <2>1, <2>3, <2>5 DEF Keeps
  <2>. QED
    BY <2>6, MatchesKept DEF FileInv
<1>2. CASE Restart(m) \/ RoleSettles(m) \/ RoleDoubted(m)
  <2>1. \A q \in Masters : Keeps(q)
    BY <1>2 DEF Restart, RoleSettles, RoleDoubted, disk, Keeps
  <2>. QED
    BY <2>1, MatchesKept DEF FileInv
<1>. QED
  BY <1>1, <1>2

\* The leader's oplog and its entry in hand stay, or the entry is given up.
LEMMA SameHand ==
  ASSUME LeaderFiles, oplog'[Lead] = oplog[Lead],
         InHand' => InHand /\ upload'[Lead].op = upload[Lead].op
  PROVE  LeaderFiles'
BY DEF LeaderFiles, InHand

LEMMA CallKeepsHand ==
  ASSUME Stable, IInv, InCall(Lead), NEW ok \in BOOLEAN,
         upload'[Lead] = Advance(upload[Lead], Lead, ok)
  PROVE  InHand' => InHand /\ upload'[Lead].op = upload[Lead].op
<1>1. UploadOK(upload[Lead], Lead) /\ upload[Lead].at \in {"phase1", "phase2"} /\ Lead \in Masters
  BY LeadFacts DEF InCall, IInv, UploadInv
<1>2. UploadIdle.at = "idle"
  BY DEF UploadIdle
<1>. QED
  BY <1>1, <1>2, AdvanceStable DEF InHand

LEMMA UploadKeepsFiles ==
  ASSUME Stable, IInv, SInv, FileInv, NEW m \in Masters,
         (\E op \in Ops : UploadStart(m, op)) \/ UploadStep(m)
  PROVE  LeaderFiles'
<1>0. Quiet /\ Lead \in Masters /\ UploadOK(upload[Lead], Lead) /\ LeaderFiles
      /\ UploadIdle.at = "idle" /\ confirm[Lead].at = "idle" /\ upload[Lead] \in Uploads
  BY LeadFacts DEF SInv, IInv, UploadInv, FileInv, UploadIdle, Quiet, TypeOK
<1>1. ASSUME NEW op \in Ops, UploadStart(m, op) PROVE LeaderFiles'
  <2>1. UNCHANGED oplog /\ (m = Lead => upload'[Lead].at \in {"asked", "spin"})
        /\ (m # Lead => upload'[Lead] = upload[Lead])
    BY <1>0, <1>1 DEF UploadStart, disk, IInv, TypeOK, UploadIdle
  <2>. QED
    BY <1>0, <2>1, SameHand DEF InHand
<1>2. CASE UploadStep(m)
  <2>1. m = Lead
    BY <1>0, <1>2, LeadFacts DEF UploadStep, SpinRemoved, UploadRejected, TwoPhaseStart, NoAnswer, InCall,
                     PutOplog, PutUserdata, Quiet
  <2>2. CASE UploadRejected(m) \/ PutUserdata(m)
    <3>1. UNCHANGED oplog /\ upload'[Lead].at = "idle"
      BY <1>0, <2>1, <2>2, NoUndo DEF UploadRejected, PutUserdata, disk, IInv, TypeOK
    <3>. QED
      BY <1>0, <3>1, SameHand DEF InHand
  <2>3. CASE NoAnswer(m)
    <3>1. InCall(Lead) /\ UNCHANGED oplog /\ upload'[Lead] = Advance(upload[Lead], Lead, FALSE)
      BY <1>0, <2>1, <2>3 DEF NoAnswer, disk, IInv, TypeOK
    <3>. QED
      BY <1>0, <3>1, CallKeepsHand, SameHand
  <2>4. CASE TwoPhaseStart(m)
    <3>1. upload[Lead].at = "asked" /\ upload[Lead].op.file \notin userdata[Lead] /\ UNCHANGED oplog
      BY <1>0, <2>1, <2>4, TwoPhaseStartStable DEF Exists, disk
    <3>2. upload'[Lead].op = upload[Lead].op
      <4>. DEFINE u == [upload[Lead] EXCEPT !.op_id = NextId(oplog[Lead]), !.tp_cnt = 1]
      <4>1. upload' = [upload EXCEPT ![Lead] = BeginPhase(u, Lead, "phase1", "put")]
        BY <1>0, <2>1, <2>4, TwoPhaseStartStable
      <4>2. u.op = upload[Lead].op
            /\ \A a, j : [u EXCEPT !.at = a].op = u.op /\ [u EXCEPT !.at = a, !.i = j].op = u.op
        BY <1>0 DEF Uploads
      <4>. HIDE DEF u
      <4>3. BeginPhase(u, Lead, "phase1", "put").op = u.op
        BY <4>2 DEF BeginPhase
      <4>. QED
        BY <1>0, <4>1, <4>2, <4>3 DEF IInv, TypeOK
    <3>3. FilesOf(oplog[Lead]) \subseteq userdata[Lead]
      BY <1>0, <3>1, LeadFacts DEF FileInv, Matches, BetweenPuts
    <3>4. \A id \in Ids : oplog[Lead][id] # NoOp => oplog[Lead][id].file # upload[Lead].op.file
      BY <3>1, <3>3 DEF FilesOf, Written
    <3>. QED
      BY <1>0, <3>1, <3>2, <3>4 DEF LeaderFiles
  <2>5. CASE PutOplog(m)
    <3>1. upload[Lead].at = "put" /\ upload[Lead].op_id \in Ids
      BY <1>0, <2>1, <2>5 DEF PutOplog, Uploads
    <3>2. /\ oplog' = [oplog EXCEPT ![Lead][upload[Lead].op_id] = upload[Lead].op]
          /\ upload' = [upload EXCEPT ![Lead].at = "put_user"]
      BY <1>0, <2>1, <2>5, NoSpend DEF PutOplog
    <3>3. upload'[Lead].at = "put_user"
      BY <1>0, <3>2 DEF IInv, TypeOK, Uploads
    <3>4. /\ oplog'[Lead][upload[Lead].op_id] = upload[Lead].op
          /\ \A id \in Ids : id # upload[Lead].op_id => oplog'[Lead][id] = oplog[Lead][id]
      BY <1>0, <3>1, <3>2 DEF IInv, TypeOK, Logs
    <3>5. \A id \in Ids : oplog[Lead][id] # NoOp => oplog[Lead][id].file # upload[Lead].op.file
      BY <1>0, <3>1 DEF LeaderFiles, InHand
    <3>6. \A i, j \in Ids : oplog'[Lead][i] # NoOp /\ oplog'[Lead][j] # NoOp
                            /\ oplog'[Lead][i].file = oplog'[Lead][j].file => i = j
      <4>. SUFFICES ASSUME NEW i \in Ids, NEW j \in Ids, oplog'[Lead][i] # NoOp, oplog'[Lead][j] # NoOp,
                           oplog'[Lead][i].file = oplog'[Lead][j].file
                    PROVE  i = j
        OBVIOUS
      <4>1. CASE i = upload[Lead].op_id \/ j = upload[Lead].op_id
        BY <3>4, <3>5, <4>1
      <4>2. CASE i # upload[Lead].op_id /\ j # upload[Lead].op_id
        <5>1. oplog'[Lead][i] = oplog[Lead][i] /\ oplog'[Lead][j] = oplog[Lead][j]
          BY <3>4, <4>2
        <5>. QED
          BY <1>0, <5>1 DEF LeaderFiles
      <4>. QED
        BY <4>1, <4>2
    <3>. QED
      BY <3>3, <3>6 DEF LeaderFiles, InHand
  <2>. QED
    BY <1>2, <2>2, <2>3, <2>4, <2>5, LeadFacts DEF UploadStep, SpinRemoved
<1>. QED
  BY <1>1, <1>2

LEMMA ConfirmKeepsFiles ==
  ASSUME Stable, IInv, SInv, FileInv, NEW i \in Masters, ConfirmStep(i)
  PROVE  LeaderFiles'
<1>0. Quiet /\ CatchInv /\ LeaderFiles /\ Lead \in Masters
  BY LeadFacts DEF SInv, FileInv
<1>1. InCall(Lead) /\ i # Lead
  BY <1>0, ConfirmCases, CallOfLead, AtWork
<1>2. oplog'[Lead] = oplog[Lead]
  <2>1. UNCHANGED oplog \/ \E id \in Ids : \E e : oplog' = [oplog EXCEPT ![i][id] = e]
    <3>1. ASSUME NEW m \in Masters, Refuse(i, m) \/ Prepare(i, m) \/ CatchUp(i, m)
          PROVE  UNCHANGED oplog
      BY <3>1 DEF Refuse, Prepare, CatchUp, disk
    <3>2. ASSUME NEW m \in Masters, Commit(i, m)
          PROVE  oplog' = [oplog EXCEPT ![i][upload[Lead].op_id] = m_state_data[i]] /\ upload[Lead].op_id \in Ids
      BY <1>0, <1>1, <3>2, CommitStable DEF IInv, TypeOK, Uploads
    <3>3. CASE CommitUserdata(i) \/ Fetch(i) \/ ApplyUserdata(i)
      BY <1>0, <3>3, CommitUserdataStable, ApplyUserdataStable DEF Fetch, disk
    <3>4. ASSUME ApplyOplog(i)
          PROVE  UNCHANGED oplog \/ \E id \in Ids : \E e : oplog' = [oplog EXCEPT ![i][id] = e]
      <4>1. /\ confirm[i].current \in Ids
            /\ oplog' = [oplog EXCEPT ![i][confirm[i].current] = confirm[i].page[FirstOf(confirm[i].page)]]
        BY <1>0, <3>4, ApplyOplogStable
      <4>. QED
        BY <4>1
    <3>. QED
      BY <1>0, <3>1, <3>2, <3>3, <3>4, NoFetchFails DEF ConfirmStep, AnswerCall
  <2>. QED
    BY <1>0, <1>1, <2>1 DEF IInv, TypeOK
<1>3. UNCHANGED upload \/ Returns(TRUE) \/ Returns(FALSE)
  <2>1. ASSUME NEW m \in Masters, Refuse(i, m) \/ Prepare(i, m) \/ CatchUp(i, m) \/ Commit(i, m)
        PROVE  UNCHANGED upload \/ Returns(TRUE) \/ Returns(FALSE)
    BY <1>0, <2>1, RefuseStable, PrepareStable, CommitStable DEF CatchUp
  <2>2. CASE CommitUserdata(i) \/ Fetch(i) \/ ApplyOplog(i)
    BY <1>0, <2>2, CommitUserdataStable, ApplyOplogStable DEF Fetch
  <2>3. CASE ApplyUserdata(i)
    BY <1>0, <2>3, ApplyUserdataStable
  <2>. QED
    BY <1>0, <2>1, <2>2, <2>3, NoFetchFails DEF ConfirmStep, AnswerCall
<1>4. InHand' => InHand /\ upload'[Lead].op = upload[Lead].op
  <2>1. CASE UNCHANGED upload
    BY <2>1 DEF InHand
  <2>2. ASSUME NEW ok \in BOOLEAN, Returns(ok)
        PROVE  upload'[Lead] = Advance(upload[Lead], Lead, ok)
    BY <1>0, <2>2 DEF Returns, IInv, TypeOK
  <2>. QED
    BY <1>1, <1>3, <2>1, <2>2, CallKeepsHand
<1>. QED
  BY <1>0, <1>2, <1>4, SameHand

LEMMA EnvironmentKeepsFiles ==
  ASSUME Stable, IInv, SInv, FileInv, NEW m \in Masters,
         Crash(m) \/ Restart(m) \/ RoleSettles(m) \/ RoleDoubted(m)
  PROVE  LeaderFiles'
<1>0. LeaderFiles /\ Lead \in Masters
  BY LeadFacts DEF FileInv
<1>1. CASE Crash(m)
  <2>1. m # Lead /\ UNCHANGED oplog
    BY <1>1, LeadFacts DEF Crash, disk
  <2>2. upload'[Lead] = IF Lead = confirm[m].from THEN Advance(upload[Lead], Lead, FALSE) ELSE upload[Lead]
    BY <1>0, <1>1, <2>1 DEF Crash
  <2>3. Lead = confirm[m].from => InCall(Lead)
    BY <1>0, RolesAssumption DEF IInv, CallsMatch, Masters
  <2>. QED
    BY <1>0, <2>1, <2>2, <2>3, CallKeepsHand, SameHand DEF InHand
<1>2. CASE Restart(m) \/ RoleSettles(m) \/ RoleDoubted(m)
  BY <1>0, <1>2, SameHand DEF Restart, RoleSettles, RoleDoubted, disk, InHand
<1>. QED
  BY <1>1, <1>2

LEMMA FileInvariance ==
  ASSUME Stable
  PROVE  Spec => [](IInv /\ SInv /\ FileInv)
<1>1. ASSUME Init PROVE FileInv
  <2>1. \A m \in Masters : oplog[m] = EmptyLog /\ userdata[m] = {} /\ upload[m].at = "idle"
    BY <1>1 DEF Init, DataInit, UploadIdle
  <2>2. \A m \in Masters : FilesOf(oplog[m]) = {}
    BY <2>1 DEF FilesOf, Written, EmptyLog
  <2>3. \A m \in Masters : Matches(m)
    BY <2>1, <2>2 DEF Matches
  <2>4. LeaderFiles
    <3>1. ~InHand /\ \A id \in Ids : oplog[Lead][id] = NoOp
      BY <2>1, LeadFacts DEF InHand, EmptyLog
    <3>. QED
      BY <3>1 DEF LeaderFiles
  <2>. QED
    BY <2>3, <2>4 DEF FileInv
<1>2. ASSUME IInv, SInv, FileInv, [Next]_vars PROVE FileInv'
  <2>1. CASE Next
    <3>1. PICK m \in Masters :
            \/ \E op \in Ops : UploadStart(m, op)
            \/ UploadStep(m) \/ ConfirmStep(m)
            \/ Crash(m) \/ Restart(m) \/ RoleSettles(m) \/ RoleDoubted(m)
      BY <2>1 DEF Next
    <3>2. CASE (\E op \in Ops : UploadStart(m, op)) \/ UploadStep(m)
      BY <1>2, <3>2, UploadFiles, UploadKeepsFiles DEF FileInv
    <3>3. CASE ConfirmStep(m)
      BY <1>2, <3>3, ConfirmFiles, ConfirmKeepsFiles DEF FileInv
    <3>4. CASE Crash(m) \/ Restart(m) \/ RoleSettles(m) \/ RoleDoubted(m)
      BY <1>2, <3>4, EnvironmentFiles, EnvironmentKeepsFiles DEF FileInv
    <3>. QED
      BY <3>1, <3>2, <3>3, <3>4
  <2>2. CASE UNCHANGED vars
    <3>1. LeaderFiles' /\ \A q \in Masters : Keeps(q)
      BY <1>2, <2>2, SameHand DEF FileInv, vars, disk, InHand, Keeps
    <3>. QED
      BY <1>2, <3>1, MatchesKept DEF FileInv
  <2>. QED
    BY <1>2, <2>1, <2>2
<1>3. Stable => (IInv /\ SInv /\ FileInv /\ [Next]_vars => (IInv /\ SInv /\ FileInv)')
  BY <1>2, NextInv, NextStable
<1>4. IInv /\ SInv /\ FileInv /\ [Next]_vars => (IInv /\ SInv /\ FileInv)'
  BY <1>3
<1>5. Init => IInv /\ SInv /\ FileInv
  BY <1>1, InitInv, InitStable
<1>. QED
  BY <1>4, <1>5, PTL DEF Spec

\* Under a leader that stays up, userdata is what the oplog says except between the
\* two puts of an entry, at every master that does not crash.
THEOREM UserdataTheorem ==
  ASSUME Stable
  PROVE  Spec => []UserdataMatches
<1>1. ASSUME FileInv PROVE UserdataMatches
  BY <1>1 DEF FileInv, Matches, UserdataMatches
<1>. QED
  BY <1>1, FileInvariance, PTL

\* Under a leader that stays up no oplog has a file twice: the check of userdata
\* before the two phases is in time, although the put that answers it comes last.
THEOREM FileOnceTheorem ==
  ASSUME Stable
  PROVE  Spec => []FileOnce
<1>1. ASSUME IInv, SInv, FileInv PROVE FileOnce
  <2>. SUFFICES ASSUME NEW m \in Masters, NEW i \in Ids, NEW j \in Ids,
                       oplog[m][i] # NoOp, oplog[m][j] # NoOp, oplog[m][i].file = oplog[m][j].file
                PROVE  i = j
    BY DEF FileOnce, Written
  <2>. DEFINE len == NextId(oplog[Lead])
  <2>1. /\ i \in Int /\ j \in Int /\ len \in Int /\ NextId(oplog[m]) \in Int
        /\ i < NextId(oplog[m]) /\ j < NextId(oplog[m]) /\ NoGap(oplog[Lead])
    BY <1>1, LengthType, LeadFacts, OplogAssumption DEF Ids, SInv, LogInv, NoGap
  <2>2. \A id \in Ids : id < NextId(oplog[m]) /\ id < len =>
                          oplog[Lead][id] = oplog[m][id] /\ oplog[Lead][id] # NoOp
    BY <1>1, <2>1 DEF SInv, LogInv, NoGap
  <2>3. \A id \in {i, j} : ~(id < len) =>
           /\ id = len /\ oplog[m][id] = upload[Lead].op /\ InHand
    <3>. SUFFICES ASSUME NEW id \in {i, j}, ~(id < len)
                  PROVE  id = len /\ oplog[m][id] = upload[Lead].op /\ InHand
      OBVIOUS
    <3>1. NextId(oplog[m]) > len
      BY <2>1
    <3>2. /\ upload[Lead].at \in {"phase2", "put"} /\ NextId(oplog[m]) = len + 1
          /\ oplog[m][upload[Lead].op_id] = upload[Lead].op
      BY <1>1, <3>1 DEF SInv, LogInv
    <3>3. InHand /\ upload[Lead].op_id = len
      BY <1>1, <3>2 DEF SInv, PhaseInv, InHand
    <3>. QED
      BY <2>1, <3>2, <3>3
  <2>4. CASE i < len /\ j < len
    BY <1>1, <2>1, <2>2, <2>4 DEF FileInv, LeaderFiles
  <2>5. CASE ~(i < len) /\ ~(j < len)
    BY <2>3, <2>5
  <2>6. CASE (i < len) # (j < len)
    BY <1>1, <2>1, <2>2, <2>3, <2>6 DEF FileInv, LeaderFiles
  <2>. QED
    BY <2>4, <2>5, <2>6
<1>. QED
  BY <1>1, FileInvariance, PTL

-----------------------------------------------------------------------------
(* The answers of phase 1.                                                 *)

\* Once a second answer is counted, another master than the leader has the entry.
CountedOn == \/ upload[Lead].at \in {"phase2", "put", "put_user"}
             \/ upload[Lead].at = "phase1" /\ upload[Lead].tp_cnt >= 2
Backed == \E i \in Masters : i # Lead /\ Holds(i, Lead)
Backing ==
    /\ budget["crash"] <= MaxCrash
    /\ N >= 2 /\ budget["crash"] = MaxCrash /\ CountedOn => Backed

\* Behind phase 1 there are two answers, or it goes on with those it has.
LEMMA AdvanceCounts ==
  ASSUME Stable, N >= 2, NEW m \in Masters, NEW u, UploadOK(u, m), u.at = "phase1",
         NEW ok \in BOOLEAN, NEW v, v = Advance(u, m, ok), v.at # "idle"
  PROVE  (v.tp_cnt = Count(u, ok) /\ v.at = "phase1") \/ Count(u, ok) >= 2
<1>. DEFINE w == [u EXCEPT !.tp_cnt = Count(u, ok)]
<1>1. w.at = "phase1" /\ w.tp_cnt = Count(u, ok) /\ Count(u, ok) \in Nat
      /\ \A j : [w EXCEPT !.i = j].tp_cnt = w.tp_cnt /\ [w EXCEPT !.i = j].at = w.at
  BY RolesAssumption DEF UploadOK, Uploads, Count
<1>. HIDE DEF w
<1>2. CASE After(m, u.i) # {}
  <2>1. v = [w EXCEPT !.i = Least(After(m, u.i))]
    BY <1>2 DEF Advance, w
  <2>. QED
    BY <1>1, <2>1
<1>3. CASE After(m, u.i) = {}
  <2>1. v = AfterCalls(w, m)
    BY <1>3 DEF Advance, w
  <2>2. ~(w.tp_cnt <= N \div 2)
    BY <1>1, <2>1 DEF AfterCalls, UploadIdle
  <2>3. N = 2 \/ N = 3
    BY RolesAssumption DEF Stable
  <2>4. 2 \div 2 = 1 /\ 3 \div 2 = 1
    OBVIOUS
  <2>. QED
    BY <1>1, <2>2, <2>3, <2>4
<1>. QED
  BY <1>2, <1>3

\* The end of a call: the same entry, and what is counted was counted before, or
\* phase 1 has just been answered "ok".
LEMMA CountedAfter ==
  ASSUME Stable, N >= 2, IInv, InCall(Lead), NEW ok \in BOOLEAN,
         upload'[Lead] = Advance(upload[Lead], Lead, ok), CountedOn'
  PROVE  /\ upload'[Lead].op = upload[Lead].op /\ upload'[Lead].op_id = upload[Lead].op_id
         /\ CountedOn \/ (ok /\ upload[Lead].at = "phase1")
<1>1. UploadOK(upload[Lead], Lead) /\ upload[Lead].at \in {"phase1", "phase2"} /\ Lead \in Masters
  BY LeadFacts DEF InCall, IInv, UploadInv
<1>2. upload'[Lead].at # "idle"
  BY DEF CountedOn
<1>3. upload'[Lead].op = upload[Lead].op /\ upload'[Lead].op_id = upload[Lead].op_id
  BY <1>1, <1>2, AdvanceStable DEF UploadIdle
<1>4. CASE upload[Lead].at = "phase1" /\ ~ok
  <2>1. Count(upload[Lead], ok) = upload[Lead].tp_cnt
    BY <1>4 DEF Count
  <2>2. upload[Lead].tp_cnt >= 2
    BY <1>1, <1>2, <1>4, <2>1, AdvanceCounts DEF CountedOn
  <2>. QED
    BY <1>3, <1>4, <2>2 DEF CountedOn
<1>. QED
  BY <1>1, <1>3, <1>4 DEF CountedOn

\* Whoever holds the entry holds it still.
LEMMA BackedKept ==
  ASSUME Backed, upload'[Lead].op = upload[Lead].op, upload'[Lead].op_id = upload[Lead].op_id,
         \A j \in Masters : j # Lead =>
            /\ \/ oplog'[j][upload[Lead].op_id] = oplog[j][upload[Lead].op_id]
               \/ oplog'[j][upload[Lead].op_id] = upload[Lead].op
            /\ m_state'[j] = m_state[j] /\ m_state_data'[j] = m_state_data[j]
            /\ m_state_id'[j] \in {m_state_id[j], upload[Lead].op_id}
  PROVE  Backed'
<1>1. PICK i \in Masters : i # Lead /\ Holds(i, Lead)
  BY DEF Backed
<1>2. Holds(i, Lead)'
  BY <1>1 DEF Holds, PreparedFor
<1>. QED
  BY <1>1, <1>2 DEF Backed

LEMMA UploadBacked ==
  ASSUME Stable, IInv, SInv, Backing, NEW m \in Masters,
         (\E op \in Ops : UploadStart(m, op)) \/ UploadStep(m)
  PROVE  Backing'
<1>0. Quiet /\ Lead \in Masters /\ UploadOK(upload[Lead], Lead) /\ upload[Lead] \in Uploads
      /\ UploadIdle.at = "idle"
  BY LeadFacts DEF SInv, IInv, UploadInv, TypeOK, UploadIdle
<1>1. ASSUME NEW op \in Ops, UploadStart(m, op) PROVE Backing'
  <2>1. /\ UNCHANGED <<oplog, prepared, budget>>
        /\ m = Lead => upload'[Lead].at \in {"asked", "spin"}
        /\ m # Lead => upload'[Lead] = upload[Lead]
    BY <1>0, <1>1 DEF UploadStart, disk, IInv, TypeOK, UploadIdle
  <2>. QED
    BY <2>1, BackedKept DEF Backing, CountedOn, prepared
<1>2. CASE UploadStep(m)
  <2>1. m = Lead
    BY <1>0, <1>2, LeadFacts DEF UploadStep, SpinRemoved, UploadRejected, TwoPhaseStart, NoAnswer, InCall,
                     PutOplog, PutUserdata, Quiet
  <2>2. CASE UploadRejected(m) \/ PutUserdata(m)
    <3>1. UNCHANGED budget /\ upload'[Lead].at = "idle"
      BY <1>0, <2>1, <2>2, NoUndo DEF UploadRejected, PutUserdata, disk, IInv, TypeOK
    <3>. QED
      BY <3>1 DEF Backing, CountedOn
  <2>3. CASE NoAnswer(m)
    <3>1. InCall(Lead) /\ UNCHANGED <<oplog, prepared>> /\ upload'[Lead] = Advance(upload[Lead], Lead, FALSE)
      BY <1>0, <2>1, <2>3 DEF NoAnswer, disk, IInv, TypeOK
    <3>2. budget'["crash"] = budget["crash"]
      BY <1>0, <2>3, NoSpend DEF NoAnswer, Spend, IInv, TypeOK, Budget
    <3>3. ASSUME N >= 2, budget["crash"] = MaxCrash, CountedOn' PROVE Backed'
      <4>1. /\ upload'[Lead].op = upload[Lead].op /\ upload'[Lead].op_id = upload[Lead].op_id
            /\ CountedOn
        BY <3>1, <3>3, CountedAfter
      <4>. QED
        BY <3>1, <3>3, <4>1, BackedKept DEF Backing, prepared
    <3>. QED
      BY <3>2, <3>3 DEF Backing
  <2>4. CASE TwoPhaseStart(m)
    <3>. DEFINE u == [upload[Lead] EXCEPT !.op_id = NextId(oplog[Lead]), !.tp_cnt = 1]
                v == [u EXCEPT !.at = "phase1", !.i = Least(After(Lead, 0))]
    <3>1. UNCHANGED budget /\ upload' = [upload EXCEPT ![Lead] = BeginPhase(u, Lead, "phase1", "put")]
      BY <1>0, <2>1, <2>4, TwoPhaseStartStable
    <3>2. v.at = "phase1" /\ v.tp_cnt = 1
      BY <1>0 DEF Uploads
    <3>3. ASSUME N >= 2 PROVE After(Lead, 0) # {}
      <4>1. 1 \in Masters /\ 2 \in Masters /\ 1 # 2
        BY <3>3, RolesAssumption DEF Masters
      <4>2. 1 \in After(Lead, 0) \/ 2 \in After(Lead, 0)
        BY <4>1 DEF After
      <4>. QED
        BY <4>2
    <3>. HIDE DEF u
    <3>4. ASSUME N >= 2 PROVE BeginPhase(u, Lead, "phase1", "put") = v
      BY <3>3, <3>4 DEF BeginPhase
    <3>. HIDE DEF v
    <3>5. ASSUME N >= 2 PROVE ~CountedOn'
      BY <1>0, <3>1, <3>2, <3>4, <3>5 DEF CountedOn, IInv, TypeOK
    <3>. QED
      BY <3>1, <3>5 DEF Backing
  <2>5. CASE PutOplog(m)
    <3>1. /\ upload[Lead].at = "put" /\ UNCHANGED <<prepared, budget>>
          /\ upload' = [upload EXCEPT ![Lead].at = "put_user"]
          /\ \A j \in Masters : j # Lead => oplog'[j] = oplog[j]
      BY <1>0, <2>1, <2>5, NoSpend DEF PutOplog, IInv, TypeOK
    <3>2. upload'[Lead].op = upload[Lead].op /\ upload'[Lead].op_id = upload[Lead].op_id
      BY <1>0, <3>1 DEF IInv, TypeOK, Uploads
    <3>. QED
      BY <3>1, <3>2, BackedKept DEF Backing, CountedOn, prepared
  <2>. QED
    BY <1>2, <2>2, <2>3, <2>4, <2>5, LeadFacts DEF UploadStep, SpinRemoved
<1>. QED
  BY <1>1, <1>2

LEMMA ConfirmBacked ==
  ASSUME Stable, IInv, SInv, Backing, NEW i \in Masters, ConfirmStep(i)
  PROVE  Backing'
<1>0. Quiet /\ CatchInv /\ Lead \in Masters
  BY LeadFacts DEF SInv
<1>1. InCall(Lead) /\ i # Lead
  BY <1>0, ConfirmCases, CallOfLead, AtWork
<1>2. \A ok \in BOOLEAN : Returns(ok) => UNCHANGED budget /\ upload'[Lead] = Advance(upload[Lead], Lead, ok)
  BY <1>0 DEF Returns, IInv, TypeOK
<1>3. upload[Lead].op_id = NextId(oplog[Lead]) /\ NextId(oplog[Lead]) \in Ids
  BY <1>1, InCallFacts
<1>a. ASSUME NEW m \in Masters, Refuse(i, m) PROVE Backing'
  <2>1. Returns(FALSE) /\ UNCHANGED <<oplog, prepared>>
    BY <1>0, <1>a, RefuseStable DEF disk
  <2>2. ASSUME N >= 2, CountedOn'
        PROVE  CountedOn /\ upload'[Lead].op = upload[Lead].op /\ upload'[Lead].op_id = upload[Lead].op_id
    BY <1>1, <1>2, <2>1, <2>2, CountedAfter
  <2>. QED
    BY <1>2, <2>1, <2>2, BackedKept DEF Backing, prepared
<1>b. ASSUME NEW m \in Masters, Prepare(i, m) PROVE Backing'
  <2>1. /\ Returns(TRUE)
        /\ m_state'[i] /\ m_state_id'[i] = upload[Lead].op_id /\ m_state_data'[i] = upload[Lead].op
    <3>1. /\ Returns(TRUE)
          /\ m_state' = [m_state EXCEPT ![i] = TRUE]
          /\ m_state_id' = [m_state_id EXCEPT ![i] = upload[Lead].op_id]
          /\ m_state_data' = [m_state_data EXCEPT ![i] = upload[Lead].op]
      BY <1>0, <1>b, PrepareStable
    <3>. QED
      BY <3>1 DEF IInv, TypeOK
  <2>2. ASSUME N >= 2, CountedOn'
        PROVE  upload'[Lead].op = upload[Lead].op /\ upload'[Lead].op_id = upload[Lead].op_id
    BY <1>1, <1>2, <2>1, <2>2, CountedAfter
  <2>3. ASSUME N >= 2, CountedOn' PROVE Holds(i, Lead)'
    BY <2>1, <2>2, <2>3 DEF Holds, PreparedFor
  <2>. QED
    BY <1>1, <1>2, <2>1, <2>3 DEF Backing, Backed
<1>c. ASSUME NEW m \in Masters, CatchUp(i, m) PROVE Backing'
  <2>1. /\ UNCHANGED <<oplog, m_state, m_state_data, upload, budget>>
        /\ \A j \in Masters : m_state_id'[j] \in {m_state_id[j], upload[Lead].op_id}
    BY <1>0, <1>c, CatchUpStarts DEF disk, IInv, TypeOK
  <2>. QED
    BY <2>1, BackedKept DEF Backing, CountedOn
<1>d. ASSUME NEW m \in Masters, Commit(i, m) PROVE Backing'
  <2>1. /\ UNCHANGED <<prepared, upload, budget>>
        /\ oplog' = [oplog EXCEPT ![i][upload[Lead].op_id] = m_state_data[i]]
    BY <1>0, <1>d, CommitStable
  <2>2. m_state_data[i] = upload[Lead].op
    BY <1>d, CommitFacts
  <2>3. \A j \in Masters : oplog'[j][upload[Lead].op_id] \in {oplog[j][upload[Lead].op_id], upload[Lead].op}
    BY <1>3, <2>1, <2>2 DEF IInv, TypeOK, Logs
  <2>. QED
    BY <2>1, <2>3, BackedKept DEF Backing, CountedOn, prepared
<1>e. CASE CommitUserdata(i)
  <2>1. confirm[i].at = "put_user" /\ Returns(TRUE) /\ UNCHANGED <<oplog, prepared>>
    BY <1>0, <1>e, CommitUserdataStable
  <2>2. upload[Lead].at # "phase1"
    BY <1>0, <2>1, AtWork DEF CatchingUp
  <2>3. ASSUME N >= 2, CountedOn'
        PROVE  CountedOn /\ upload'[Lead].op = upload[Lead].op /\ upload'[Lead].op_id = upload[Lead].op_id
    BY <1>1, <1>2, <2>1, <2>2, <2>3, CountedAfter
  <2>. QED
    BY <1>2, <2>1, <2>3, BackedKept DEF Backing, prepared
<1>f. CASE Fetch(i)
  BY <1>f, BackedKept DEF Fetch, Backing, CountedOn, disk, prepared
<1>g. CASE ApplyOplog(i)
  <2>1. /\ UNCHANGED <<prepared, upload, budget>> /\ confirm[i].at = "apply"
        /\ \E e : oplog' = [oplog EXCEPT ![i][confirm[i].current] = e]
    BY <1>0, <1>g, ApplyOplogStable
  <2>2. confirm[i].current \in Ids /\ confirm[i].current < NextId(oplog[Lead])
    BY <2>1, CatchUpStable DEF CatchingUp
  <2>3. confirm[i].current # upload[Lead].op_id
    BY <1>3, <2>2, OplogAssumption DEF Ids
  <2>4. \A j \in Masters : oplog'[j][upload[Lead].op_id] = oplog[j][upload[Lead].op_id]
    BY <1>3, <2>1, <2>2, <2>3 DEF IInv, TypeOK, Logs
  <2>. QED
    BY <2>1, <2>4, BackedKept DEF Backing, CountedOn, prepared
<1>h. CASE ApplyUserdata(i)
  <2>1. confirm[i].at = "apply_user" /\ UNCHANGED <<oplog, m_state_id>>
    BY <1>0, <1>h, ApplyUserdataStable
  <2>2. confirm[i].op = upload[Lead].op /\ m_state_id[i] = upload[Lead].op_id
    BY <1>3, <2>1, CatchUpStable DEF CatchingUp
  <2>3. CASE UNCHANGED <<m_state, m_state_data, upload, budget>>
    BY <2>1, <2>3, BackedKept DEF Backing, CountedOn
  <2>4. CASE /\ Returns(TRUE) /\ m_state' = [m_state EXCEPT ![i] = TRUE]
             /\ m_state_data' = [m_state_data EXCEPT ![i] = confirm[i].op]
    <3>1. m_state'[i] /\ m_state_id'[i] = upload[Lead].op_id /\ m_state_data'[i] = upload[Lead].op
      BY <2>1, <2>2, <2>4 DEF IInv, TypeOK
    <3>2. ASSUME N >= 2, CountedOn'
          PROVE  upload'[Lead].op = upload[Lead].op /\ upload'[Lead].op_id = upload[Lead].op_id
      BY <1>1, <1>2, <2>4, <3>2, CountedAfter
    <3>3. ASSUME N >= 2, CountedOn' PROVE Holds(i, Lead)'
      BY <3>1, <3>2, <3>3 DEF Holds, PreparedFor
    <3>. QED
      BY <1>1, <1>2, <2>4, <3>3 DEF Backing, Backed
  <2>. QED
    BY <1>0, <1>h, <2>3, <2>4, ApplyUserdataStable
<1>. QED
  BY <1>0, <1>a, <1>b, <1>c, <1>d, <1>e, <1>f, <1>g, <1>h, NoFetchFails DEF ConfirmStep, AnswerCall

LEMMA EnvironmentBacked ==
  ASSUME Stable, IInv, SInv, Backing, NEW m \in Masters,
         Crash(m) \/ Restart(m) \/ RoleSettles(m) \/ RoleDoubted(m)
  PROVE  Backing'
<1>1. CASE Crash(m)
  <2>1. budget["crash"] \in Nat /\ MaxCrash \in Nat /\ budget'["crash"] = budget["crash"] - 1
    BY <1>1, OplogAssumption DEF Crash, Spend, IInv, TypeOK, Budget
  <2>2. budget'["crash"] < MaxCrash
    BY <2>1 DEF Backing
  <2>. QED
    BY <2>1, <2>2 DEF Backing
<1>2. CASE RoleDoubted(m)
  BY <1>2, NoSpend DEF RoleDoubted, SInv
<1>3. CASE Restart(m) \/ RoleSettles(m)
  BY <1>3, BackedKept DEF Restart, RoleSettles, disk, prepared, Backing, CountedOn
<1>. QED
  BY <1>1, <1>2, <1>3

LEMMA BackingInvariance ==
  ASSUME Stable
  PROVE  Spec => [](IInv /\ SInv /\ Backing)
<1>1. ASSUME Init PROVE Backing
  <2>1. upload[Lead].at = "idle" /\ budget["crash"] = MaxCrash /\ MaxCrash \in Nat
    BY <1>1, LeadFacts, OplogAssumption DEF Init, DataInit, UploadIdle
  <2>. QED
    BY <2>1 DEF Backing, CountedOn
<1>2. ASSUME IInv, SInv, Backing, [Next]_vars PROVE Backing'
  <2>1. CASE Next
    BY <1>2, <2>1, UploadBacked, ConfirmBacked, EnvironmentBacked DEF Next
  <2>2. CASE UNCHANGED vars
    BY <1>2, <2>2, BackedKept DEF Backing, CountedOn, vars, disk, prepared
  <2>. QED
    BY <1>2, <2>1, <2>2
<1>3. Stable => (IInv /\ SInv /\ Backing /\ [Next]_vars => (IInv /\ SInv /\ Backing)')
  BY <1>2, NextInv, NextStable
<1>4. IInv /\ SInv /\ Backing /\ [Next]_vars => (IInv /\ SInv /\ Backing)'
  BY <1>3
<1>5. Init => IInv /\ SInv /\ Backing
  BY <1>1, InitInv, InitStable
<1>. QED
  BY <1>4, <1>5, PTL DEF Spec

\* Under a leader that stays up, and until a master crashes, a majority holds the
\* entry of every upload that is past phase 1, in the oplog or prepared: the answers
\* of phase 2 may be left unread.
THEOREM MajorityHoldsTheorem ==
  ASSUME Stable
  PROVE  Spec => []MajorityHolds
<1>1. ASSUME IInv, SInv, Backing PROVE MajorityHolds
  <2>. SUFFICES ASSUME NEW m \in Masters, upload[m].at \in {"phase2", "put", "put_user"},
                       budget["crash"] = MaxCrash
                PROVE  2 * Cardinality({i \in Masters : Holds(i, m)}) > N
    BY DEF MajorityHolds
  <2>. DEFINE H == {i \in Masters : Holds(i, m)}
  <2>1. m = Lead /\ CountedOn
    BY <1>1 DEF SInv, Quiet, CountedOn
  <2>2. IsFiniteSet(H) /\ Cardinality(H) \in Nat
    <3>1. IsFiniteSet(Masters)
      BY RolesAssumption, FS_Interval DEF Masters
    <3>2. H \subseteq Masters
      OBVIOUS
    <3>. QED
      BY <3>1, <3>2, FS_Subset, FS_CardinalityType
  <2>3. m \in H
    BY DEF Holds
  <2>4. N = 1 \/ N = 2 \/ N = 3
    BY RolesAssumption DEF Stable
  <2>5. CASE N = 1
    <3>1. {m} \subseteq H /\ Cardinality({m}) = 1
      BY <2>3, FS_Singleton
    <3>2. Cardinality(H) >= 1
      BY <2>2, <3>1, FS_Subset
    <3>. QED
      BY <2>2, <2>5, <3>2
  <2>6. CASE N = 2 \/ N = 3
    <3>1. PICK i \in H : i # m
      BY <1>1, <2>1, <2>6 DEF Backing, Backed
    <3>2. IsFiniteSet({m}) /\ Cardinality({m}) = 1
      BY FS_Singleton
    <3>3. Cardinality({m} \cup {i}) = 2
      BY <3>1, <3>2, FS_AddElement
    <3>4. Cardinality(H) >= 2
      <4>1. {m} \cup {i} \subseteq H
        BY <2>3, <3>1
      <4>. QED
        BY <2>2, <3>3, <4>1, FS_Subset
    <3>. QED
      BY <2>2, <2>6, <3>4
  <2>. QED
    BY <2>4, <2>5, <2>6
<1>. QED
  BY <1>1, BackingInvariance, PTL
=============================================================================
