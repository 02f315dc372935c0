------------------------- MODULE OplogReplicationProofs -------------------------
(***************************************************************************)
(* Theorems about OplogReplication: what the handlers of the masters keep  *)
(* to whatever fails, for any number of masters, files and faults.         *)
(***************************************************************************)
EXTENDS OplogReplication, LexIdsProofs

\* An upload thread that has a request has an entry, calls another master, and has
\* not counted more answers than there are masters before the one it calls.
UploadOK(u, m) ==
    /\ u \in Uploads
    /\ u.at # "idle" => u.op \in Ops
    /\ u.at \in {"phase1", "phase2"} => u.i \in Masters /\ u.i # m
    /\ u.at = "phase1" => u.tp_cnt <= IF m < u.i THEN u.i - 1 ELSE u.i

\* A confirm thread that has a request has an entry, and while it catches up a
\* master to fetch from and, between fetching, something of a page to put.
CatchingUp == {"fetch", "apply", "apply_user"}
ConfirmOK(c) ==
    /\ c \in Confirms
    /\ c.at = "idle" => c.from = 0
    /\ c.at # "idle" => c.op \in Ops
    /\ c.at \in CatchingUp => c.leader \in Masters
    /\ c.at \in {"apply", "apply_user"} => Written(c.page) # {}
    /\ c.at = "apply_user" => c.current \in Ids

UploadInv == \A m \in Masters :
    /\ UploadOK(upload[m], m)
    /\ ~alive[m] => upload[m].at = "idle"
ConfirmInv == \A i \in Masters :
    /\ ConfirmOK(confirm[i])
    /\ ~alive[i] => confirm[i].at = "idle"
    /\ confirm[i].at \in CatchingUp => m_state_id[i] \in Ids

\* A confirm thread answers the call it was given: its caller is a running
\* upload thread that waits for it, in the phase of this work.  So an upload
\* thread never counts an answer to a call it has given up.
CallsMatch == \A i \in Masters : LET m == confirm[i].from IN
    m # 0 => /\ alive[m] /\ InCall(m) /\ upload[m].i = i
             /\ confirm[i].at \in {"fetch", "apply", "apply_user"} <=> upload[m].at = "phase1"

IInv == TypeOK /\ UploadInv /\ ConfirmInv /\ CallsMatch /\ PreparedIsAnEntry

-----------------------------------------------------------------------------
(* The operators of the handlers.                                          *)

LEMMA Smallest ==
  ASSUME NEW S \in SUBSET Nat, S # {}
  PROVE  \E n \in S : \A k \in S : n <= k
<1>1. PICK n \in S : \A k \in S : ~(<<k, n>> \in OpToRel(<, Nat))
  BY NatLessThanWellFounded, WFMin, Zenon
<1>2. \A k \in S : ~(k < n)
  BY <1>1 DEF OpToRel
<1>3. \A k \in S : k \in Nat
  OBVIOUS
<1>. QED
  BY <1>2, <1>3

LEMMA Largest ==
  ASSUME NEW S \in SUBSET Ids, S # {}
  PROVE  \E n \in S : \A k \in S : k <= n
<1>. DEFINE Down == {n \in Nat : MaxId - n \in S}
<1>m. MaxId \in Nat /\ S \subseteq Nat
  BY OplogAssumption DEF Ids
<1>1. PICK a \in S : TRUE
  OBVIOUS
<1>2. MaxId - a \in Nat /\ MaxId - (MaxId - a) = a
  BY <1>m DEF Ids
<1>3. Down \in SUBSET Nat /\ Down # {}
  BY <1>1, <1>2, Zenon
<1>. HIDE DEF Down
<1>4. PICK d \in Down : \A k \in Down : d <= k
  BY <1>3, Smallest
<1>5. d \in Nat /\ MaxId - d \in S
  BY <1>4 DEF Down
<1>6. ASSUME NEW k \in S PROVE k <= MaxId - d
  <2>1. MaxId - k \in Nat /\ MaxId - (MaxId - k) = k
    BY <1>m DEF Ids
  <2>2. MaxId - k \in Down
    BY <2>1 DEF Down
  <2>. QED
    BY <1>4, <1>5, <1>m, <2>1, <2>2
<1>. QED
  BY <1>5, <1>6

LEMMA LeastType ==
  ASSUME NEW S \in SUBSET Masters, S # {}
  PROVE  Least(S) \in S
<1>1. S \in SUBSET Nat
  BY RolesAssumption DEF Masters
<1>. QED
  BY <1>1, Smallest DEF Least

LEMMA NextIdType ==
  ASSUME NEW log \in Logs
  PROVE  NextId(log) \in 0..(MaxId + 1)
<1>. USE OplogAssumption
<1>1. CASE Written(log) = {}
  BY <1>1 DEF NextId
<1>2. CASE Written(log) # {}
  <2>1. Written(log) \in SUBSET Ids
    BY DEF Written
  <2>2. (CHOOSE id \in Written(log) : \A j \in Written(log) : j <= id) \in Ids
    BY <1>2, <2>1, Largest
  <2>. QED
    BY <1>2, <2>2 DEF NextId, Ids
<1>. QED
  BY <1>1, <1>2

LEMMA FirstOfType ==
  ASSUME NEW page \in Logs, Written(page) # {}
  PROVE  FirstOf(page) \in Ids /\ page[FirstOf(page)] \in Ops
<1>1. Written(page) \in SUBSET Nat
  BY OplogAssumption DEF Written, Ids
<1>2. FirstOf(page) \in Written(page)
  BY <1>1, Smallest DEF FirstOf
<1>. QED
  BY <1>2 DEF Written, Logs

LEMMA PageType ==
  ASSUME NEW log \in Logs, NEW id
  PROVE  Page(log, id) \in Logs
BY DEF Page, Logs, EmptyLog

LEMMA EmptyLogType == EmptyLog \in Logs /\ Written(EmptyLog) = {}
BY DEF EmptyLog, Logs, Written

LEMMA NotEmpty ==
  ASSUME NEW page \in Logs, page # EmptyLog
  PROVE  Written(page) # {}
BY DEF Logs, EmptyLog, Written

LEMMA IdleOK ==
  /\ \A m \in Masters : UploadOK(UploadIdle, m)
  /\ ConfirmOK(ConfirmIdle)
BY EmptyLogType, RolesAssumption, OplogAssumption
   DEF UploadOK, UploadIdle, Uploads, ConfirmOK, ConfirmIdle, Confirms, CatchingUp, Ids

\* The first call of a phase goes to another master.
LEMMA BeginPhaseOK ==
  ASSUME NEW m \in Masters, NEW u \in Uploads, u.op \in Ops, u.tp_cnt <= 1,
         NEW at \in {"phase1", "phase2"}
  PROVE  UploadOK(BeginPhase(u, m, at, "put"), m)
<1>. USE RolesAssumption DEF Masters
<1>1. CASE After(m, 0) = {}
  BY <1>1 DEF BeginPhase, UploadOK, Uploads
<1>2. CASE After(m, 0) # {}
  <2>. DEFINE i == Least(After(m, 0))
  <2>1. i \in Masters /\ i # m
    BY <1>2, LeastType DEF After
  <2>. HIDE DEF i
  <2>2. u.tp_cnt \in 0..N /\ u.tp_cnt <= IF m < i THEN i - 1 ELSE i
    BY <2>1 DEF Uploads
  <2>v. [u EXCEPT !.at = at, !.i = i] \in Uploads
    <3>. i \in 0..N /\ at \in {"idle", "spin", "asked", "phase1", "phase2", "put", "put_user"}
      BY <2>1
    <3>. QED
      BY DEF Uploads
  <2>3. UploadOK([u EXCEPT !.at = at, !.i = i], m)
    <3>. DEFINE w == [u EXCEPT !.at = at, !.i = i]
    <3>1. w.at = at /\ w.i = i /\ w.op = u.op /\ w.tp_cnt = u.tp_cnt
      BY DEF Uploads
    <3>. HIDE DEF w
    <3>. QED
      BY <2>1, <2>2, <2>v, <3>1 DEF UploadOK, w
  <2>. QED
    BY <1>2, <2>3 DEF BeginPhase, i
<1>. QED
  BY <1>1, <1>2

LEMMA BeginPhaseTwoOK ==
  ASSUME NEW m \in Masters, NEW u \in Uploads, u.op \in Ops
  PROVE  UploadOK(BeginPhase(u, m, "phase2", "put"), m)
<1>. USE RolesAssumption DEF Masters
<1>1. CASE After(m, 0) = {}
  BY <1>1 DEF BeginPhase, UploadOK, Uploads
<1>2. CASE After(m, 0) # {}
  <2>. DEFINE i == Least(After(m, 0))
  <2>1. i \in Masters /\ i # m
    BY <1>2, LeastType DEF After
  <2>. HIDE DEF i
  <2>2. [u EXCEPT !.at = "phase2", !.i = i] \in Uploads
    <3>. i \in 0..N
      BY <2>1
    <3>. QED
      BY DEF Uploads
  <2>3. UploadOK([u EXCEPT !.at = "phase2", !.i = i], m)
    BY <2>1, <2>2 DEF UploadOK, Uploads
  <2>. QED
    BY <1>2, <2>3 DEF BeginPhase, i
<1>. QED
  BY <1>1, <1>2

\* A call is over, with whatever answer: the count stays within the masters.
LEMMA AdvanceOK ==
  ASSUME NEW m \in Masters, NEW u, UploadOK(u, m), u.at \in {"phase1", "phase2"},
         NEW ok \in BOOLEAN
  PROVE  UploadOK(Advance(u, m, ok), m)
<1>. USE RolesAssumption DEF Masters
<1>. DEFINE v == [u EXCEPT !.tp_cnt = Count(u, ok)]
<1>1. /\ u \in Uploads /\ u.op \in Ops /\ u.i \in Masters /\ u.i # m /\ u.tp_cnt \in 0..N
      /\ u.at = "phase1" => u.tp_cnt <= IF m < u.i THEN u.i - 1 ELSE u.i
  BY DEF UploadOK, Uploads
<1>2. /\ Count(u, ok) \in 0..N
      /\ u.at = "phase1" => Count(u, ok) <= IF m < u.i THEN u.i ELSE u.i + 1
  BY <1>1 DEF Count
<1>3. v \in Uploads /\ v.op \in Ops /\ v.at = u.at /\ v.i = u.i /\ v.tp_cnt = Count(u, ok)
  BY <1>1, <1>2 DEF Uploads
<1>. HIDE DEF v
<1>4. CASE After(m, u.i) = {}
  <2>1. UploadOK(AfterCalls(v, m), m)
    BY <1>3, BeginPhaseTwoOK, IdleOK DEF AfterCalls, UploadOK, Uploads
  <2>. QED
    BY <1>4, <2>1 DEF Advance, v
<1>5. CASE After(m, u.i) # {}
  <2>. DEFINE i == Least(After(m, u.i))
  <2>1. i \in Masters /\ i > u.i /\ i # m
    BY <1>5, LeastType DEF After
  <2>. HIDE DEF i
  <2>2. u.at = "phase1" => Count(u, ok) <= IF m < i THEN i - 1 ELSE i
    BY <1>1, <1>2, <2>1
  <2>3. UploadOK([v EXCEPT !.i = i], m)
    BY <1>1, <1>3, <2>1, <2>2 DEF UploadOK, Uploads
  <2>. QED
    BY <1>5, <2>3 DEF Advance, v, i
<1>. QED
  BY <1>4, <1>5

-----------------------------------------------------------------------------
(* Who waits for whom.                                                     *)

\* The caller of a confirm thread waits for this thread and for no other.
LEMMA CallerFacts ==
  ASSUME IInv, NEW i \in Masters, confirm[i].from # 0, NEW ok \in BOOLEAN
  PROVE  LET p == confirm[i].from IN
         /\ p \in Masters /\ p # i /\ alive[p] /\ InCall(p) /\ upload[p].i = i
         /\ UploadOK(Advance(upload[p], p, ok), p)
         /\ \A j \in Masters : confirm[j].from = p => j = i
<1>. DEFINE p == confirm[i].from
<1>1. p \in Masters /\ alive[p] /\ InCall(p) /\ upload[p].i = i
  <2>1. p \in 0..N
    BY DEF IInv, ConfirmInv, ConfirmOK, Confirms
  <2>. QED
    BY <2>1, RolesAssumption DEF IInv, CallsMatch, Masters
<1>2. UploadOK(upload[p], p) /\ upload[p].at \in {"phase1", "phase2"}
  BY <1>1 DEF IInv, UploadInv, InCall
<1>3. p # i
  BY <1>1, <1>2 DEF UploadOK
<1>4. \A j \in Masters : confirm[j].from = p => j = i
  BY <1>1, RolesAssumption DEF IInv, CallsMatch, Masters
<1>. QED
  BY <1>1, <1>2, <1>3, <1>4, AdvanceOK

\* Nobody works for an upload thread whose call waits to be taken.
LEMMA CalleeFacts ==
  ASSUME IInv, NEW i \in Masters, NEW m \in Masters, Called(i, m), NEW ok \in BOOLEAN
  PROVE  /\ m # i /\ upload[m].op \in Ops /\ upload[m].op_id \in Ids
         /\ UploadOK(Advance(upload[m], m, ok), m)
         /\ \A j \in Masters : confirm[j].from # m
<1>1. InCall(m) /\ upload[m].i = i /\ confirm[i].at = "idle" /\ UploadOK(upload[m], m)
  BY DEF Called, IInv, UploadInv
<1>2. confirm[i].from = 0
  BY <1>1 DEF IInv, ConfirmInv, ConfirmOK
<1>3. ASSUME NEW j \in Masters, confirm[j].from = m PROVE FALSE
  BY <1>1, <1>2, <1>3, RolesAssumption DEF IInv, CallsMatch, Masters
<1>. QED
  BY <1>1, <1>3, AdvanceOK DEF InCall, UploadOK, Uploads

-----------------------------------------------------------------------------
(* The kinds of steps.  DataType is TypeOK without the processes and their *)
(* threads, Kept what a step owes to the prepared entries.                 *)

DataType ==
    /\ m_status \in [Masters -> Statuses] /\ m_leader \in [Masters -> Masters]
    /\ oplog \in [Masters -> Logs]
    /\ userdata \in [Masters -> SUBSET Files]
    /\ m_state \in [Masters -> BOOLEAN]
    /\ m_state_id \in [Masters -> Ids \cup {-1}]
    /\ m_state_data \in [Masters -> Ops \cup {NoOp}]
    /\ acked \subseteq [op_id : Ids, op : Ops]
    /\ budget \in Budget
Kept ==
    /\ PreparedIsAnEntry
    /\ \A j \in Masters : confirm[j].at \in CatchingUp => m_state_id[j] \in Ids

LEMMA SpendType ==
  ASSUME budget \in Budget, NEW what \in {"roles", "call", "reply", "get", "crash", "db"},
         Spend(what)
  PROVE  budget' \in Budget
<1>1. budget[what] - 1 \in Nat /\ budget["any"] - 1 \in Nat
  BY DEF Spend, Budget
<1>. QED
  BY <1>1 DEF Spend, Budget

LEMMA PayType ==
  ASSUME NEW n \in 0..2, NEW r \in 0..1, Pay(n, r), budget \in Budget
  PROVE  budget' \in Budget
<1>1. /\ budget["db"] \in Nat /\ budget["reply"] \in Nat /\ budget["any"] \in Nat
      /\ budget["db"] - n \in Nat /\ budget["reply"] - r \in Nat /\ budget["any"] - (n + r) \in Nat
  BY DEF Pay, Budget
<1>. QED
  BY <1>1 DEF Pay, Budget

\* Whatever becomes of the read, the id is one that could come next.
LEMMA IdsReadType ==
  ASSUME NEW log \in Logs, NEW id \in IdsRead(log)
  PROVE  id \in 0..(MaxId + 1) /\ Misreads(log, id) \in 0..1
BY NextIdType, OplogAssumption DEF IdsRead, Misreads

\* Whatever becomes of the undo, an oplog stays one.
LEMMA UndoType ==
  ASSUME NEW m \in Masters, NEW id \in Ids, Undo(m, id),
         oplog \in [Masters -> Logs], budget \in Budget
  PROVE  oplog' \in [Masters -> Logs] /\ budget' \in Budget
<1>1. budget' \in Budget
  BY PayType DEF Undo
<1>2. [oplog[m] EXCEPT ![id] = NoOp] \in Logs
  BY DEF Logs
<1>3. oplog' = oplog \/ oplog' = [oplog EXCEPT ![m] = [oplog[m] EXCEPT ![id] = NoOp]]
  BY DEF Undo
<1>. QED
  BY <1>1, <1>2, <1>3

\* An upload thread moves while nobody works for it.
LEMMA UploadMoves ==
  ASSUME IInv, NEW m \in Masters, NEW v, UploadOK(v, m),
         \A j \in Masters : confirm[j].from # m, alive[m],
         upload' = [upload EXCEPT ![m] = v], UNCHANGED <<alive, confirm>>,
         DataType', Kept'
  PROVE  IInv'
<1>1. TypeOK'
  BY DEF IInv, TypeOK, DataType, UploadOK
<1>2. UploadInv'
  BY DEF IInv, TypeOK, UploadInv
<1>3. ConfirmInv'
  BY DEF IInv, ConfirmInv, Kept
<1>4. CallsMatch'
  BY DEF IInv, TypeOK, CallsMatch, InCall
<1>. QED
  BY <1>1, <1>2, <1>3, <1>4 DEF IInv, Kept

\* A confirm thread goes on with what it does.
LEMMA ConfirmMoves ==
  ASSUME IInv, NEW i \in Masters, confirm[i].at # "idle", NEW c, ConfirmOK(c),
         c.from = confirm[i].from, c.at \in CatchingUp <=> confirm[i].at \in CatchingUp,
         confirm' = [confirm EXCEPT ![i] = c], UNCHANGED <<alive, upload>>,
         DataType', Kept'
  PROVE  IInv'
<1>1. TypeOK'
  BY DEF IInv, TypeOK, DataType, ConfirmOK
<1>2. UploadInv'
  BY DEF IInv, UploadInv
<1>3. ConfirmInv'
  BY DEF IInv, TypeOK, ConfirmInv, Kept
<1>4. CallsMatch'
  BY DEF IInv, TypeOK, CallsMatch, InCall, CatchingUp
<1>. QED
  BY <1>1, <1>2, <1>3, <1>4 DEF IInv, Kept

\* A confirm thread takes a call.
LEMMA ConfirmTakes ==
  ASSUME IInv, NEW i \in Masters, NEW m \in Masters, Called(i, m), NEW c, ConfirmOK(c),
         c.from = m, c.at \in CatchingUp <=> upload[m].at = "phase1",
         confirm' = [confirm EXCEPT ![i] = c], UNCHANGED <<alive, upload>>,
         DataType', Kept'
  PROVE  IInv'
<1>1. TypeOK'
  BY DEF IInv, TypeOK, DataType, ConfirmOK
<1>2. UploadInv'
  BY DEF IInv, UploadInv
<1>3. ConfirmInv'
  BY DEF IInv, TypeOK, ConfirmInv, Kept, Called
<1>4. alive[m]
  BY DEF IInv, UploadInv, Called, InCall
<1>5. CallsMatch'
  BY <1>4 DEF IInv, TypeOK, CallsMatch, InCall, Called, CatchingUp
<1>. QED
  BY <1>1, <1>2, <1>3, <1>5 DEF IInv, Kept

\* A confirm thread has done, and its caller, if it still has one, gets an answer.
LEMMA ConfirmEnds ==
  ASSUME IInv, NEW i \in Masters, NEW ok \in BOOLEAN,
         confirm' = [confirm EXCEPT ![i] = ConfirmIdle], UNCHANGED alive,
         IF confirm[i].from = 0 THEN UNCHANGED upload ELSE Resume(confirm[i].from, ok),
         DataType', Kept'
  PROVE  IInv'
<1>. DEFINE p == confirm[i].from
<1>0. p # 0 => /\ p \in Masters /\ alive[p] /\ UploadOK(Advance(upload[p], p, ok), p)
               /\ upload' = [upload EXCEPT ![p] = Advance(upload[p], p, ok)]
               /\ \A j \in Masters : confirm[j].from = p => j = i
  BY CallerFacts DEF Resume
<1>z. p = 0 => UNCHANGED upload
  OBVIOUS
<1>c. p = confirm[i].from
  OBVIOUS
<1>. HIDE DEF p
<1>1. upload' \in [Masters -> Uploads] /\ UploadInv'
  <2>1. CASE p = 0
    BY <1>z, <2>1 DEF IInv, TypeOK, UploadInv
  <2>2. CASE p # 0
    BY <1>0, <2>2 DEF IInv, TypeOK, UploadInv, UploadOK
  <2>. QED
    BY <2>1, <2>2
<1>2. TypeOK'
  BY <1>1, IdleOK DEF IInv, TypeOK, DataType, ConfirmOK
<1>3. ConfirmInv'
  BY IdleOK DEF IInv, TypeOK, ConfirmInv, Kept, ConfirmIdle
<1>4. CallsMatch'
  <2>. SUFFICES ASSUME NEW j \in Masters, NEW q, q = confirm'[j].from, q # 0
                PROVE  /\ alive'[q] /\ upload'[q].at \in {"phase1", "phase2"} /\ upload'[q].i = j
                       /\ confirm'[j].at \in {"fetch", "apply", "apply_user"} <=> upload'[q].at = "phase1"
    BY DEF CallsMatch, InCall
  <2>1. j # i /\ confirm'[j] = confirm[j]
    BY DEF IInv, TypeOK, ConfirmIdle
  <2>2. q # p /\ q \in Masters
    <3>1. q \in 0..N
      BY <2>1 DEF IInv, ConfirmInv, ConfirmOK, Confirms
    <3>2. q # p
      BY <1>0, <2>1
    <3>. QED
      BY <3>1, <3>2, RolesAssumption DEF Masters
  <2>3. upload'[q] = upload[q]
    BY <1>0, <1>z, <2>2 DEF IInv, TypeOK
  <2>. QED
    BY <2>1, <2>3 DEF IInv, CallsMatch, InCall
<1>. QED
  BY <1>1, <1>2, <1>3, <1>4 DEF IInv, Kept

-----------------------------------------------------------------------------
(* The upload thread.                                                      *)

\* Nobody works for a thread that is not in a call.
LEMMA NotCalling ==
  ASSUME IInv, NEW m \in Masters, ~InCall(m)
  PROVE  \A j \in Masters : confirm[j].from # m
BY RolesAssumption DEF IInv, CallsMatch, Masters

LEMMA FirstEntry ==
  ASSUME NEW u \in Uploads, NEW n \in Ids
  PROVE  LET w == [u EXCEPT !.op_id = n, !.tp_cnt = 1] IN w \in Uploads /\ w.op = u.op /\ w.tp_cnt = 1
<1>1. PICK t \in 0..N : t = 1
  BY RolesAssumption
<1>. DEFINE w == [u EXCEPT !.op_id = n, !.tp_cnt = t]
<1>2. w \in Uploads /\ w.op = u.op /\ w.tp_cnt = t
  BY DEF Uploads
<1>. QED
  BY <1>1, <1>2

LEMMA UploadStartInv ==
  ASSUME IInv, NEW m \in Masters, NEW op \in Ops, UploadStart(m, op)
  PROVE  IInv'
<1>. DEFINE v == [UploadIdle EXCEPT !.op = op,
                                    !.at = IF m_status[m] = Leader THEN "asked" ELSE "spin"]
<1>1. UploadOK(v, m)
  <2>. DEFINE at == IF m_status[m] = Leader THEN "asked" ELSE "spin"
  <2>1. UploadIdle \in Uploads
    BY IdleOK DEF UploadOK
  <2>2. at \in {"asked", "spin"}
    OBVIOUS
  <2>3. v = [[UploadIdle EXCEPT !.op = op] EXCEPT !.at = at]
    OBVIOUS
  <2>. HIDE DEF at, v
  <2>4. v \in Uploads /\ v.op = op /\ v.at = at
    BY <2>1, <2>2, <2>3 DEF Uploads
  <2>. QED
    BY <2>2, <2>4 DEF UploadOK
<1>2. \A j \in Masters : confirm[j].from # m
  BY NotCalling DEF UploadStart, InCall
<1>3. DataType' /\ Kept'
  BY DEF UploadStart, IInv, TypeOK, DataType, Kept, ConfirmInv, PreparedIsAnEntry, roles, disk, prepared
<1>4. alive[m] /\ upload' = [upload EXCEPT ![m] = v] /\ UNCHANGED <<alive, confirm>>
  BY DEF UploadStart
<1>. HIDE DEF v
<1>. QED
  BY <1>1, <1>2, <1>3, <1>4, UploadMoves

LEMMA UploadLocalInv ==
  ASSUME IInv, NEW m \in Masters, SpinRemoved(m) \/ UploadRejected(m) \/ TwoPhaseStart(m)
  PROVE  IInv'
<1>0. budget' \in Budget
  <2>1. ASSUME TwoPhaseStart(m)
        PROVE  budget' \in Budget
    <3>1. PICK next \in IdsRead(oplog[m]) :
            Pay((IF Exists(m) THEN 1 ELSE 0) + Misreads(oplog[m], next), 0)
      BY <2>1 DEF TwoPhaseStart
    <3>2. Misreads(oplog[m], next) \in 0..1
      BY IdsReadType DEF IInv, TypeOK
    <3>3. (IF Exists(m) THEN 1 ELSE 0) + Misreads(oplog[m], next) \in 0..2
      BY <3>2
    <3>. QED
      BY <3>1, <3>3, PayType DEF IInv, TypeOK
  <2>. QED
    BY <2>1 DEF SpinRemoved, UploadRejected, IInv, TypeOK
<1>k. UNCHANGED <<m_status, m_leader, oplog, userdata, m_state, m_state_id, m_state_data, confirm, acked>>
  BY DEF SpinRemoved, UploadRejected, TwoPhaseStart, roles, disk, prepared
<1>1. DataType' /\ Kept'
  <2>1. DataType'
    BY <1>0, <1>k DEF IInv, TypeOK, DataType
  <2>2. Kept'
    BY <1>k DEF IInv, ConfirmInv, Kept, PreparedIsAnEntry
  <2>. QED
    BY <2>1, <2>2
<1>2. /\ UploadOK(upload[m], m) /\ upload[m].at \in {"spin", "asked"}
      /\ alive[m] /\ \A j \in Masters : confirm[j].from # m
  BY NotCalling DEF SpinRemoved, UploadRejected, TwoPhaseStart, InCall, IInv, UploadInv
<1>3. UNCHANGED <<alive, confirm>>
  BY DEF SpinRemoved, UploadRejected, TwoPhaseStart
<1>4. CASE SpinRemoved(m)
  <2>1. UploadOK([upload[m] EXCEPT !.at = "asked"], m)
    BY <1>2 DEF UploadOK, Uploads
  <2>2. upload' = [upload EXCEPT ![m] = [upload[m] EXCEPT !.at = "asked"]]
    BY <1>4 DEF SpinRemoved
  <2>. QED
    BY <1>1, <1>2, <1>3, <2>1, <2>2, UploadMoves
<1>5. CASE UploadRejected(m)
  BY <1>1, <1>2, <1>3, <1>5, IdleOK, UploadMoves DEF UploadRejected
<1>6. CASE TwoPhaseStart(m)
  <2>0. PICK n \in Ids :
          upload' = [upload EXCEPT ![m] = BeginPhase([upload[m] EXCEPT !.op_id = n, !.tp_cnt = 1],
                                                     m, "phase1", "put")]
    BY <1>6 DEF TwoPhaseStart
  <2>. DEFINE u == [upload[m] EXCEPT !.op_id = n, !.tp_cnt = 1]
  <2>1. u \in Uploads /\ u.op \in Ops /\ u.tp_cnt <= 1
    <3>1. upload[m] \in Uploads /\ upload[m].op \in Ops
      BY <1>2 DEF UploadOK
    <3>2. u \in Uploads /\ u.op = upload[m].op /\ u.tp_cnt = 1
      BY <3>1, FirstEntry
    <3>. QED
      BY <3>1, <3>2
  <2>2. upload' = [upload EXCEPT ![m] = BeginPhase(u, m, "phase1", "put")]
    BY <2>0
  <2>. HIDE DEF u
  <2>3. UploadOK(BeginPhase(u, m, "phase1", "put"), m)
    BY <2>1, BeginPhaseOK
  <2>. QED
    BY <1>1, <1>2, <1>3, <2>2, <2>3, UploadMoves
<1>. QED
  BY <1>4, <1>5, <1>6

LEMMA PutInv ==
  ASSUME IInv, NEW m \in Masters, PutOplog(m) \/ PutUserdata(m)
  PROVE  IInv'
<1>1. /\ UploadOK(upload[m], m) /\ upload[m].at \in {"put", "put_user"}
      /\ alive[m] /\ \A j \in Masters : confirm[j].from # m
  BY NotCalling DEF PutOplog, PutUserdata, InCall, IInv, UploadInv
<1>2. upload[m].op \in Ops /\ upload[m].op.file \in Files /\ upload[m].op_id \in Ids
  BY <1>1 DEF UploadOK, Uploads, Ops
<1>3. budget' \in Budget
  BY <1>2, SpendType, UndoType DEF PutOplog, PutUserdata, IInv, TypeOK
<1>4. oplog' \in [Masters -> Logs]
  <2>1. oplog \in [Masters -> Logs]
    BY DEF IInv, TypeOK
  <2>2. \/ UNCHANGED oplog
        \/ \E e \in Ops \cup {NoOp} : oplog' = [oplog EXCEPT ![m][upload[m].op_id] = e]
    BY <1>2 DEF PutOplog, PutUserdata, Undo
  <2>3. ASSUME NEW e \in Ops \cup {NoOp}, oplog' = [oplog EXCEPT ![m][upload[m].op_id] = e]
        PROVE  oplog' \in [Masters -> Logs]
    <3>1. [oplog[m] EXCEPT ![upload[m].op_id] = e] \in Logs
      BY <1>2, <2>1 DEF Logs
    <3>2. oplog' = [oplog EXCEPT ![m] = [oplog[m] EXCEPT ![upload[m].op_id] = e]]
      BY <2>3
    <3>. QED
      BY <2>1, <3>1, <3>2
  <2>4. CASE UNCHANGED oplog
    BY <2>1, <2>4
  <2>. QED
    BY <2>2, <2>3, <2>4
<1>5. /\ userdata' \in [Masters -> SUBSET Files]
      /\ acked' \subseteq [op_id : Ids, op : Ops]
  BY <1>2 DEF PutOplog, PutUserdata, AddUserdata, IInv, TypeOK
<1>6. UNCHANGED <<roles, prepared, alive, confirm>>
  BY DEF PutOplog, PutUserdata
<1>7. DataType' /\ Kept'
  BY <1>3, <1>4, <1>5, <1>6 DEF IInv, TypeOK, DataType, Kept, ConfirmInv, PreparedIsAnEntry, roles, prepared
<1>8. upload' = [upload EXCEPT ![m] = UploadIdle] \/ upload' = [upload EXCEPT ![m] = [upload[m] EXCEPT !.at = "put_user"]]
  BY DEF PutOplog, PutUserdata
<1>9. UploadOK([upload[m] EXCEPT !.at = "put_user"], m) /\ UploadOK(UploadIdle, m)
  BY <1>1, IdleOK DEF UploadOK, Uploads
<1>. QED
  BY <1>1, <1>6, <1>7, <1>8, <1>9, UploadMoves

LEMMA NoAnswerInv ==
  ASSUME IInv, NEW m \in Masters, NoAnswer(m)
  PROVE  IInv'
<1>. DEFINE i == upload[m].i
            v == Advance(upload[m], m, FALSE)
<1>1. /\ UploadOK(upload[m], m) /\ upload[m].at \in {"phase1", "phase2"} /\ alive[m]
      /\ i \in Masters /\ upload' = [upload EXCEPT ![m] = v]
  BY DEF NoAnswer, InCall, IInv, UploadInv, UploadOK
<1>2. UploadOK(v, m)
  BY <1>1, AdvanceOK
<1>3. budget' \in Budget
  BY SpendType DEF NoAnswer, IInv, TypeOK
<1>4. UNCHANGED <<roles, disk, prepared, acked, alive>>
  BY DEF NoAnswer
<1>5. DataType'
  BY <1>3, <1>4 DEF IInv, TypeOK, DataType, roles, disk, prepared
<1>o. \A j \in Masters : confirm[j].from = m => j = i
  BY RolesAssumption DEF IInv, CallsMatch, Masters
<1>6. CASE confirm[i].from # m
  <2>1. UNCHANGED confirm
    BY <1>6 DEF NoAnswer
  <2>2. Kept'
    BY <1>4, <2>1 DEF IInv, Kept, ConfirmInv, PreparedIsAnEntry, prepared
  <2>. QED
    BY <1>1, <1>2, <1>4, <1>5, <1>6, <1>o, <2>1, <2>2, UploadMoves
<1>7. CASE confirm[i].from = m
  <2>. DEFINE c == [confirm[i] EXCEPT !.from = 0]
  <2>1. confirm[i].at # "idle" /\ alive[i]
    BY <1>1, <1>7, RolesAssumption DEF IInv, ConfirmInv, ConfirmOK, Masters
  <2>2. confirm' = [confirm EXCEPT ![i] = c]
    BY <1>7, <2>1 DEF NoAnswer, HangUp
  <2>3. ConfirmOK(c) /\ c.at = confirm[i].at /\ c.from = 0
    BY <1>1, <2>1, RolesAssumption DEF IInv, ConfirmInv, ConfirmOK, Confirms
  <2>. HIDE DEF c
  <2>. HIDE DEF v, i
  <2>4. Kept' /\ ConfirmInv'
    BY <1>1, <1>4, <2>1, <2>2, <2>3 DEF IInv, TypeOK, Kept, ConfirmInv, PreparedIsAnEntry, prepared
  <2>5. TypeOK'
    BY <1>1, <1>2, <1>4, <1>5, <2>2, <2>3 DEF IInv, TypeOK, DataType, ConfirmOK, UploadOK
  <2>6. UploadInv'
    BY <1>1, <1>2, <1>4 DEF IInv, TypeOK, UploadInv
  <2>7. CallsMatch'
    BY <1>1, <1>4, <1>o, <2>2, <2>3 DEF IInv, TypeOK, CallsMatch, InCall
  <2>. QED
    BY <2>4, <2>5, <2>6, <2>7 DEF IInv, Kept
<1>. QED
  BY <1>6, <1>7

-----------------------------------------------------------------------------
(* The confirm thread.                                                     *)

\* A call that is answered at once leaves the confirm thread idle.
LEMMA AnsweredAtOnce ==
  ASSUME IInv, NEW i \in Masters, NEW m \in Masters, Called(i, m), NEW ok \in BOOLEAN,
         Resume(m, ok), UNCHANGED <<alive, confirm>>, DataType', Kept'
  PROVE  IInv'
<1>1. alive[m]
  BY DEF Called, InCall, IInv, UploadInv
<1>2. /\ UploadOK(Advance(upload[m], m, ok), m)
      /\ \A j \in Masters : confirm[j].from # m
  BY CalleeFacts
<1>. QED
  BY <1>1, <1>2, UploadMoves DEF Resume

\* What is answered, the caller gets or takes for a failure.
LEMMA AnswerFacts ==
  ASSUME NEW p \in 0..N, NEW ok \in BOOLEAN, NEW n \in 0..1, Answer(p, ok, n), budget \in Budget
  PROVE  /\ budget' \in Budget
         /\ p # 0 => Resume(p, ok) \/ Resume(p, FALSE)
         /\ p = 0 => UNCHANGED upload
<1>1. Pay(n, 0) \/ Pay(n, 1)
  BY DEF Answer
<1>2. n \in 0..2 /\ 0 \in 0..1 /\ 1 \in 0..1
  OBVIOUS
<1>3. budget' \in Budget
  BY <1>1, <1>2, PayType
<1>. QED
  BY <1>3 DEF Answer

LEMMA RefuseInv ==
  ASSUME IInv, NEW i \in Masters, NEW m \in Masters, Refuse(i, m)
  PROVE  IInv'
<1>a. m \in 0..N /\ m # 0
  BY RolesAssumption DEF Masters
<1>0. budget \in Budget /\ Answer(m, FALSE, 0)
  BY DEF Refuse, IInv, TypeOK
<1>1. Resume(m, FALSE) /\ budget' \in Budget
  BY <1>a, <1>0, 0 \in 0..1, AnswerFacts
<1>2. DataType' /\ Kept'
  BY <1>1 DEF Refuse, IInv, TypeOK, DataType, Kept, ConfirmInv, PreparedIsAnEntry, roles, disk, prepared
<1>. QED
  BY <1>1, <1>2, AnsweredAtOnce DEF Refuse

LEMMA PrepareInv ==
  ASSUME IInv, NEW i \in Masters, NEW m \in Masters, Prepare(i, m)
  PROVE  IInv'
<1>a. m \in 0..N /\ m # 0
  BY RolesAssumption DEF Masters
<1>b. PICK n \in 0..1 : Answer(m, TRUE, n)
  BY IdsReadType DEF Prepare, IInv, TypeOK
<1>0. budget \in Budget
  BY DEF IInv, TypeOK
<1>1. budget' \in Budget /\ (Resume(m, TRUE) \/ Resume(m, FALSE))
  BY <1>a, <1>b, <1>0, AnswerFacts
<1>2. upload[m].op \in Ops /\ upload[m].op_id \in Ids
  BY CalleeFacts DEF Prepare
<1>3. DataType'
  BY <1>1, <1>2 DEF Prepare, IInv, TypeOK, DataType, roles, disk
<1>4. Kept'
  BY <1>2 DEF Prepare, IInv, TypeOK, Kept, ConfirmInv, PreparedIsAnEntry
<1>. QED
  BY <1>1, <1>3, <1>4, AnsweredAtOnce DEF Prepare

LEMMA CatchUpInv ==
  ASSUME IInv, NEW i \in Masters, NEW m \in Masters, CatchUp(i, m)
  PROVE  IInv'
<1>0. PICK next \in IdsRead(oplog[i]) : CatchUp(i, m)!(next)
  BY DEF CatchUp
<1>. DEFINE c == [at |-> "fetch", from |-> m, op |-> upload[m].op,
                  op_id |-> upload[m].op_id, leader |-> m_leader[i],
                  last_id |-> next, current |-> next, page |-> EmptyLog]
<1>1. upload[m].op \in Ops /\ upload[m].op_id \in Ids /\ m_leader[i] \in Masters
  BY CalleeFacts DEF CatchUp, IInv, TypeOK
<1>2. next \in 0..(MaxId + 1) /\ Misreads(oplog[i], next) \in 0..1
  BY IdsReadType DEF IInv, TypeOK
<1>b. budget' \in Budget
  BY <1>0, <1>2, PayType DEF IInv, TypeOK
<1>3. confirm' = [confirm EXCEPT ![i] = c]
  BY <1>0
<1>4. ConfirmOK(c) /\ c.from = m /\ c.at \in CatchingUp
  BY <1>1, <1>2, EmptyLogType, RolesAssumption DEF ConfirmOK, Confirms, CatchingUp, Masters
<1>. HIDE DEF c
<1>5. DataType'
  BY <1>1, <1>b DEF CatchUp, IInv, TypeOK, DataType, roles, disk
<1>6. Kept'
  BY <1>1, <1>3 DEF CatchUp, IInv, TypeOK, Kept, ConfirmInv, PreparedIsAnEntry
<1>. QED
  BY <1>3, <1>4, <1>5, <1>6, ConfirmTakes DEF CatchUp

LEMMA CommitInv ==
  ASSUME IInv, NEW i \in Masters, NEW m \in Masters, Commit(i, m)
  PROVE  IInv'
<1>. DEFINE e == m_state_data[i]
            c == [ConfirmIdle EXCEPT !.at = "put_user", !.from = m,
                                     !.op_id = upload[m].op_id, !.op = e]
<1>1. upload[m].op_id \in Ids /\ e \in Ops /\ upload[m].at = "phase2" /\ Called(i, m)
  BY CalleeFacts DEF Commit, PreparedFor, IInv, PreparedIsAnEntry
<1>2. UNCHANGED <<roles, alive, userdata, prepared, acked>>
  BY DEF Commit
<1>3. budget' \in Budget
  BY SpendType DEF Commit, IInv, TypeOK
<1>4. oplog' = oplog \/ oplog' = [oplog EXCEPT ![i][upload[m].op_id] = e]
  BY DEF Commit
<1>5. oplog' \in [Masters -> Logs]
  <2>1. [oplog EXCEPT ![i][upload[m].op_id] = e] \in [Masters -> Logs]
    BY <1>1 DEF IInv, TypeOK, Logs
  <2>. QED
    BY <1>4, <2>1 DEF IInv, TypeOK
<1>6. DataType'
  BY <1>2, <1>3, <1>5 DEF IInv, TypeOK, DataType, roles, prepared
<1>7. ConfirmOK(c) /\ c.from = m /\ c.at = "put_user"
  <2>1. ConfirmIdle \in Confirms
    BY IdleOK DEF ConfirmOK
  <2>2. m \in 0..N
    BY RolesAssumption DEF Masters
  <2>. HIDE DEF e
  <2>3. c \in Confirms /\ c.from = m /\ c.at = "put_user" /\ c.op = e
    BY <1>1, <2>1, <2>2 DEF Confirms
  <2>. QED
    BY <1>1, <2>3 DEF ConfirmOK, CatchingUp
<1>8. CASE confirm' = [confirm EXCEPT ![i] = c] /\ UNCHANGED upload
  <2>. HIDE DEF c
  <2>1. Kept'
    BY <1>2, <1>7, <1>8 DEF IInv, TypeOK, Kept, ConfirmInv, PreparedIsAnEntry, prepared, CatchingUp
  <2>. QED
    BY <1>1, <1>2, <1>6, <1>7, <1>8, <2>1, ConfirmTakes DEF CatchingUp
<1>9. CASE Resume(m, FALSE) /\ UNCHANGED confirm
  <2>1. Kept'
    BY <1>2, <1>9 DEF IInv, Kept, ConfirmInv, PreparedIsAnEntry, prepared
  <2>. QED
    BY <1>1, <1>2, <1>6, <1>9, <2>1, AnsweredAtOnce
<1>. QED
  BY <1>8, <1>9 DEF Commit

LEMMA CommitUserdataInv ==
  ASSUME IInv, NEW i \in Masters, CommitUserdata(i)
  PROVE  IInv'
<1>1. /\ confirm[i] \in Confirms /\ confirm[i].at = "put_user" /\ confirm[i].op \in Ops
      /\ confirm[i].from \in 0..N
  BY DEF CommitUserdata, IInv, ConfirmInv, ConfirmOK, Confirms
<1>2. confirm[i].op.file \in Files /\ confirm[i].op_id \in Ids
  BY <1>1 DEF Confirms, Ops
<1>3. UNCHANGED <<roles, alive, prepared, acked>> /\ confirm' = [confirm EXCEPT ![i] = ConfirmIdle]
  BY DEF CommitUserdata
<1>4. /\ budget' \in Budget
      /\ \E ok \in BOOLEAN : IF confirm[i].from = 0 THEN UNCHANGED upload ELSE Resume(confirm[i].from, ok)
  <2>1. CASE Answer(confirm[i].from, TRUE, 0)
    BY <1>1, <2>1, 0 \in 0..1, AnswerFacts DEF IInv, TypeOK
  <2>2. CASE Undo(i, confirm[i].op_id) /\ IF confirm[i].from = 0 THEN UNCHANGED upload
                                                             ELSE Resume(confirm[i].from, FALSE)
    BY <1>2, <2>2, UndoType DEF IInv, TypeOK
  <2>. QED
    BY <2>1, <2>2 DEF CommitUserdata
<1>5. oplog' \in [Masters -> Logs]
  BY <1>2, UndoType DEF CommitUserdata, IInv, TypeOK
<1>6. userdata' \in [Masters -> SUBSET Files]
  <2>1. userdata' = userdata \/ userdata' = [userdata EXCEPT ![i] = @ \cup {confirm[i].op.file}]
    BY DEF CommitUserdata, AddUserdata
  <2>. QED
    BY <1>2, <2>1 DEF IInv, TypeOK
<1>7. DataType' /\ Kept'
  BY <1>3, <1>4, <1>5, <1>6
     DEF IInv, TypeOK, DataType, Kept, ConfirmInv, PreparedIsAnEntry, roles, prepared, ConfirmIdle, CatchingUp
<1>. QED
  BY <1>3, <1>4, <1>7, ConfirmEnds

-----------------------------------------------------------------------------
(* update_oplog.                                                           *)

\* What a thread that catches up has in hand.
LEMMA CatchUpFacts ==
  ASSUME IInv, NEW i \in Masters, confirm[i].at \in CatchingUp
  PROVE  /\ confirm[i] \in Confirms /\ ConfirmOK(confirm[i]) /\ confirm[i].op \in Ops
         /\ confirm[i].leader \in Masters /\ m_state_id[i] \in Ids
         /\ confirm[i].page \in Logs
         /\ confirm[i].at # "fetch" =>
              /\ FirstOf(confirm[i].page) \in Ids
              /\ confirm[i].page[FirstOf(confirm[i].page)] \in Ops
<1>1. /\ confirm[i] \in Confirms /\ ConfirmOK(confirm[i]) /\ confirm[i].op \in Ops
      /\ confirm[i].leader \in Masters /\ m_state_id[i] \in Ids
      /\ confirm[i].at # "fetch" => Written(confirm[i].page) # {}
  BY DEF IInv, ConfirmInv, ConfirmOK, CatchingUp
<1>2. confirm[i].page \in Logs
  BY <1>1 DEF Confirms
<1>. QED
  BY <1>1, <1>2, FirstOfType

\* The thread gives up, in whatever state it leaves the databases.
LEMMA GiveUpInv ==
  ASSUME IInv, NEW i \in Masters, GiveUp(i), UNCHANGED <<alive, prepared>>, DataType'
  PROVE  IInv'
<1>1. Kept'
  BY DEF GiveUp, IInv, TypeOK, Kept, ConfirmInv, PreparedIsAnEntry, prepared, ConfirmIdle, CatchingUp
<1>. QED
  BY <1>1, ConfirmEnds DEF GiveUp

LEMMA FetchInv ==
  ASSUME IInv, NEW i \in Masters, Fetch(i)
  PROVE  IInv'
<1>. DEFINE page == Page(oplog[confirm[i].leader], confirm[i].last_id)
            at == IF page = EmptyLog THEN "fetch" ELSE "apply"
            c == [confirm[i] EXCEPT !.page = page, !.at = at]
<1>1. confirm[i].at = "fetch" /\ confirm' = [confirm EXCEPT ![i] = c]
  <2>1. confirm[i].at = "fetch" /\ confirm' = [confirm EXCEPT ![i].page = page, ![i].at = at]
    BY DEF Fetch
  <2>2. confirm \in [Masters -> Confirms]
    BY DEF IInv, TypeOK
  <2>. HIDE DEF page, at
  <2>. QED
    BY <2>1, <2>2
<1>2. ConfirmOK(confirm[i]) /\ confirm[i].leader \in Masters
  BY <1>1, CatchUpFacts DEF CatchingUp
<1>3. page \in Logs
  BY <1>2, PageType DEF IInv, TypeOK
<1>4. at \in {"fetch", "apply"} /\ (at = "apply" => Written(page) # {})
  BY <1>3, NotEmpty
<1>. HIDE DEF page, at
<1>5. c \in Confirms /\ c.at = at /\ c.page = page /\ c.op = confirm[i].op
      /\ c.leader = confirm[i].leader /\ c.from = confirm[i].from
  BY <1>2, <1>3, <1>4 DEF ConfirmOK, Confirms
<1>. HIDE DEF c
<1>6. ConfirmOK(c)
  BY <1>1, <1>2, <1>4, <1>5 DEF ConfirmOK, CatchingUp
<1>7. DataType' /\ UNCHANGED <<alive, prepared, upload>>
  BY DEF Fetch, IInv, TypeOK, DataType, roles, disk, prepared
<1>8. Kept'
  BY <1>1, <1>7 DEF IInv, TypeOK, Kept, ConfirmInv, PreparedIsAnEntry, prepared, CatchingUp
<1>. QED
  BY <1>1, <1>4, <1>5, <1>6, <1>7, <1>8, ConfirmMoves DEF CatchingUp

LEMMA FetchFailsInv ==
  ASSUME IInv, NEW i \in Masters, FetchFails(i)
  PROVE  IInv'
<1>1. budget' \in Budget
  BY SpendType DEF FetchFails, IInv, TypeOK
<1>2. DataType'
  BY <1>1 DEF FetchFails, IInv, TypeOK, DataType, roles, disk, prepared
<1>. QED
  BY <1>2, GiveUpInv DEF FetchFails

LEMMA ApplyOplogInv ==
  ASSUME IInv, NEW i \in Masters, ApplyOplog(i)
  PROVE  IInv'
<1>. DEFINE e == confirm[i].page[FirstOf(confirm[i].page)]
            n == confirm[i].current
            c == [confirm[i] EXCEPT !.at = "apply_user"]
<1>1. confirm[i].at = "apply" /\ n \in Ids /\ UNCHANGED <<roles, alive, userdata, prepared, acked>>
  BY DEF ApplyOplog
<1>2. ConfirmOK(confirm[i]) /\ e \in Ops
  BY <1>1, CatchUpFacts DEF CatchingUp
<1>3. budget' \in Budget
  BY SpendType DEF ApplyOplog, IInv, TypeOK
<1>4. oplog' = oplog \/ oplog' = [oplog EXCEPT ![i][n] = e]
  BY DEF ApplyOplog
<1>. HIDE DEF e
<1>5. oplog' \in [Masters -> Logs]
  <2>1. [oplog EXCEPT ![i][n] = e] \in [Masters -> Logs]
    BY <1>1, <1>2 DEF IInv, TypeOK, Logs
  <2>. QED
    BY <1>4, <2>1 DEF IInv, TypeOK
<1>6. DataType'
  BY <1>1, <1>3, <1>5 DEF IInv, TypeOK, DataType, roles, prepared
<1>7. CASE GiveUp(i)
  BY <1>1, <1>6, <1>7, GiveUpInv
<1>8. CASE confirm' = [confirm EXCEPT ![i].at = "apply_user"] /\ UNCHANGED upload
  <2>1. confirm' = [confirm EXCEPT ![i] = c]
    BY <1>8 DEF IInv, TypeOK
  <2>2. c.at = "apply_user" /\ c.from = confirm[i].from /\ ConfirmOK(c)
    BY <1>1, <1>2 DEF ConfirmOK, Confirms, CatchingUp
  <2>. HIDE DEF c
  <2>3. Kept'
    BY <1>1, <2>1 DEF IInv, TypeOK, Kept, ConfirmInv, PreparedIsAnEntry, prepared, CatchingUp
  <2>. QED
    BY <1>1, <1>6, <1>8, <2>1, <2>2, <2>3, ConfirmMoves DEF CatchingUp
<1>. QED
  BY <1>7, <1>8 DEF ApplyOplog

LEMMA ApplyUserdataInv ==
  ASSUME IInv, NEW i \in Masters, ApplyUserdata(i)
  PROVE  IInv'
<1>. DEFINE c == confirm[i]
            first == FirstOf(c.page)
            file == c.page[first].file
            rest == [c.page EXCEPT ![first] = NoOp]
            at == IF rest = EmptyLog THEN "fetch" ELSE "apply"
            d == [c EXCEPT !.current = c.current + 1, !.page = rest, !.at = at]
<1>1. c.at = "apply_user" /\ UNCHANGED <<roles, alive, m_state_id, acked>>
  BY DEF ApplyUserdata
<1>2. /\ c \in Confirms /\ ConfirmOK(c) /\ c.op \in Ops /\ m_state_id[i] \in Ids
      /\ first \in Ids /\ c.page \in Logs /\ c.page[first] \in Ops
      /\ c.from \in 0..N /\ c.current \in Ids
  BY <1>1, CatchUpFacts DEF CatchingUp, ConfirmOK, Confirms
<1>3. file \in Files /\ rest \in Logs
  BY <1>2 DEF Ops, Logs
<1>4. rest # EmptyLog => Written(rest) # {}
  BY <1>3, NotEmpty
<1>5. CASE /\ AddUserdata(i, file) /\ UNCHANGED oplog
           /\ m_state' = [m_state EXCEPT ![i] = TRUE]
           /\ m_state_data' = [m_state_data EXCEPT ![i] = c.op]
           /\ confirm' = [confirm EXCEPT ![i] = ConfirmIdle]
           /\ Answer(c.from, TRUE, 0)
  <2>1. /\ budget' \in Budget
        /\ \E ok \in BOOLEAN : IF c.from = 0 THEN UNCHANGED upload ELSE Resume(c.from, ok)
    BY <1>2, <1>5, 0 \in 0..1, AnswerFacts DEF IInv, TypeOK
  <2>2. userdata' \in [Masters -> SUBSET Files]
    BY <1>3, <1>5 DEF AddUserdata, IInv, TypeOK
  <2>3. DataType'
    BY <1>1, <1>2, <1>5, <2>1, <2>2 DEF IInv, TypeOK, DataType, roles
  <2>4. Kept'
    BY <1>1, <1>2, <1>5 DEF IInv, TypeOK, Kept, ConfirmInv, PreparedIsAnEntry, ConfirmIdle, CatchingUp
  <2>. QED
    BY <1>1, <1>5, <2>1, <2>3, <2>4, ConfirmEnds
<1>6. CASE /\ AddUserdata(i, file) /\ confirm' = [confirm EXCEPT ![i] = d]
           /\ UNCHANGED <<oplog, m_state, m_state_data, upload, budget>>
  <2>1. userdata' \in [Masters -> SUBSET Files]
    BY <1>3, <1>6 DEF AddUserdata, IInv, TypeOK
  <2>2. DataType'
    BY <1>1, <1>6, <2>1 DEF IInv, TypeOK, DataType, roles
  <2>3. c.current + 1 \in 0..(MaxId + 1) /\ at \in {"fetch", "apply"} /\ (at = "apply" => Written(rest) # {})
    BY <1>2, <1>4, OplogAssumption DEF Ids
  <2>. HIDE DEF rest, at
  <2>4. d \in Confirms /\ d.at = at /\ d.page = rest /\ d.op = c.op /\ d.leader = c.leader /\ d.from = c.from
    BY <1>2, <1>3, <2>3 DEF Confirms
  <2>. HIDE DEF d
  <2>5. ConfirmOK(d)
    BY <1>1, <1>2, <2>3, <2>4 DEF ConfirmOK, CatchingUp
  <2>6. Kept'
    BY <1>1, <1>2, <1>6 DEF IInv, TypeOK, Kept, ConfirmInv, PreparedIsAnEntry, CatchingUp
  <2>. QED
    BY <1>1, <1>6, <2>2, <2>3, <2>4, <2>5, <2>6, ConfirmMoves DEF CatchingUp
<1>7. CASE /\ Undo(i, c.current) /\ GiveUp(i)
           /\ UNCHANGED <<userdata, m_state, m_state_data>>
  <2>1. oplog' \in [Masters -> Logs] /\ budget' \in Budget
    BY <1>2, <1>7, UndoType DEF IInv, TypeOK
  <2>3. DataType'
    BY <1>1, <1>7, <2>1 DEF IInv, TypeOK, DataType, roles
  <2>. QED
    BY <1>1, <1>7, <2>3, GiveUpInv DEF prepared
<1>8. \/ /\ AddUserdata(i, file)
         /\ IF rest = EmptyLog /\ AtTarget(c)
            THEN /\ m_state' = [m_state EXCEPT ![i] = TRUE]
                 /\ m_state_data' = [m_state_data EXCEPT ![i] = c.op]
                 /\ confirm' = [confirm EXCEPT ![i] = ConfirmIdle]
                 /\ Answer(c.from, TRUE, 0)
            ELSE /\ confirm' = [confirm EXCEPT ![i] = d]
                 /\ UNCHANGED <<m_state, m_state_data, upload, budget>>
         /\ UNCHANGED oplog
      \/ /\ Undo(i, c.current) /\ GiveUp(i)
         /\ UNCHANGED <<userdata, m_state, m_state_data>>
  BY DEF ApplyUserdata
<1>. HIDE DEF d, rest, file
<1>. QED
  BY <1>5, <1>6, <1>7, <1>8

-----------------------------------------------------------------------------
(* The processes and the roles.                                            *)

LEMMA CrashInv ==
  ASSUME IInv, NEW m \in Masters, Crash(m)
  PROVE  IInv'
<1>. DEFINE p == confirm[m].from
<1>1. /\ alive' = [alive EXCEPT ![m] = FALSE] /\ UNCHANGED <<disk, acked>>
      /\ m_state' = [m_state EXCEPT ![m] = FALSE]
      /\ m_state_id' = [m_state_id EXCEPT ![m] = -1]
      /\ m_state_data' = [m_state_data EXCEPT ![m] = NoOp]
      /\ m_status' = [m_status EXCEPT ![m] = Consensus]
      /\ m_leader' = [m_leader EXCEPT ![m] = m]
  BY DEF Crash, Forget, NameItself
<1>2. upload' = [q \in Masters |-> CASE q = m -> UploadIdle
                                     [] q # m /\ q = p -> Advance(upload[q], q, FALSE)
                                     [] OTHER -> upload[q]]
  BY DEF Crash
<1>3. confirm' = [q \in Masters |-> CASE q = m -> ConfirmIdle
                                      [] q # m /\ confirm[q].from = m -> [confirm[q] EXCEPT !.from = 0]
                                      [] OTHER -> confirm[q]]
  BY DEF Crash
<1>4. budget' \in Budget
  BY SpendType DEF Crash, IInv, TypeOK
<1>5. DataType'
  BY <1>1, <1>4 DEF IInv, TypeOK, DataType, disk, Statuses
<1>6. p # 0 => /\ p \in Masters /\ p # m /\ alive[p] /\ UploadOK(Advance(upload[p], p, FALSE), p)
               /\ \A j \in Masters : confirm[j].from = p => j = m
  BY CallerFacts
<1>7. ASSUME NEW q \in Masters
      PROVE  /\ UploadOK(upload'[q], q) /\ (~alive'[q] => upload'[q].at = "idle")
             /\ q # m /\ q # p => upload'[q] = upload[q]
  <2>1. UploadOK(UploadIdle, q) /\ UploadIdle.at = "idle"
    BY IdleOK DEF UploadIdle
  <2>2. UploadOK(upload[q], q) /\ (~alive[q] => upload[q].at = "idle")
    BY DEF IInv, UploadInv
  <2>3. alive'[q] = IF q = m THEN FALSE ELSE alive[q]
    BY <1>1 DEF IInv, TypeOK
  <2>4. q = p => p # 0
    BY RolesAssumption DEF Masters
  <2>. HIDE DEF p
  <2>. QED
    BY <1>2, <1>6, <2>1, <2>2, <2>3, <2>4
<1>8. ASSUME NEW q \in Masters
      PROVE  /\ ConfirmOK(confirm'[q]) /\ confirm'[q].from # m
             /\ q = m => confirm'[q] = ConfirmIdle
             /\ q # m => confirm'[q].at = confirm[q].at
             /\ q # m /\ confirm'[q].from # 0 => confirm'[q].from = confirm[q].from
  <2>1. m # 0 /\ 0 \in 0..N
    BY RolesAssumption DEF Masters
  <2>2. CASE q = m
    <3>1. confirm'[q] = ConfirmIdle
      BY <1>3, <2>2
    <3>. QED
      BY <2>1, <2>2, <3>1, IdleOK DEF ConfirmIdle
  <2>3. CASE q # m /\ confirm[q].from = m
    <3>. DEFINE c == [confirm[q] EXCEPT !.from = 0]
    <3>1. confirm'[q] = c
      BY <1>3, <2>3
    <3>2. ConfirmOK(c) /\ c.from = 0 /\ c.at = confirm[q].at
      BY <2>1 DEF IInv, ConfirmInv, ConfirmOK, Confirms
    <3>. HIDE DEF c
    <3>. QED
      BY <2>1, <2>3, <3>1, <3>2
  <2>4. CASE q # m /\ confirm[q].from # m
    <3>1. confirm'[q] = confirm[q]
      BY <1>3, <2>4
    <3>. QED
      BY <2>4, <3>1 DEF IInv, ConfirmInv
  <2>. QED
    BY <2>2, <2>3, <2>4
<1>9. Kept' /\ ConfirmInv'
  <2>1. PreparedIsAnEntry'
    BY <1>1 DEF IInv, TypeOK, PreparedIsAnEntry
  <2>2. ConfirmIdle.at = "idle" /\ "idle" \notin CatchingUp
    BY DEF ConfirmIdle, CatchingUp
  <2>3. \A q \in Masters : q # m => m_state_id'[q] = m_state_id[q] /\ alive'[q] = alive[q]
    BY <1>1 DEF IInv, TypeOK
  <2>. QED
    BY <1>8, <2>1, <2>2, <2>3 DEF IInv, Kept, ConfirmInv
<1>10. TypeOK' /\ UploadInv'
  <2>1. upload' \in [Masters -> Uploads] /\ confirm' \in [Masters -> Confirms]
    BY <1>2, <1>3, <1>7, <1>8 DEF UploadOK, ConfirmOK
  <2>2. alive' \in [Masters -> BOOLEAN]
    BY <1>1 DEF IInv, TypeOK
  <2>. QED
    BY <1>5, <1>7, <2>1, <2>2 DEF TypeOK, DataType, UploadInv
<1>11. CallsMatch'
  <2>. SUFFICES ASSUME NEW j \in Masters, NEW q, q = confirm'[j].from, q # 0
                PROVE  /\ alive'[q] /\ upload'[q].at \in {"phase1", "phase2"} /\ upload'[q].i = j
                       /\ confirm'[j].at \in {"fetch", "apply", "apply_user"} <=> upload'[q].at = "phase1"
    BY DEF CallsMatch, InCall
  <2>1. j # m /\ q # m /\ q = confirm[j].from /\ confirm'[j].at = confirm[j].at
    BY <1>8 DEF ConfirmIdle
  <2>2. q \in Masters
    <3>1. q \in 0..N
      BY <2>1 DEF IInv, ConfirmInv, ConfirmOK, Confirms
    <3>. QED
      BY <3>1, RolesAssumption DEF Masters
  <2>3. q # p
    BY <1>6, <2>1
  <2>4. upload'[q] = upload[q] /\ alive'[q] = alive[q]
    BY <1>1, <1>7, <2>1, <2>2, <2>3 DEF IInv, TypeOK
  <2>. QED
    BY <2>1, <2>4 DEF IInv, CallsMatch, InCall
<1>. QED
  BY <1>9, <1>10, <1>11 DEF IInv, Kept

\* A restart, and what the sentinel does.
LEMMA EnvironmentInv ==
  ASSUME IInv, NEW m \in Masters, Restart(m) \/ RoleSettles(m) \/ RoleDoubted(m)
  PROVE  IInv'
<1>1. budget' \in Budget
  BY SpendType DEF Restart, RoleSettles, RoleDoubted, IInv, TypeOK
<1>2. m_status' \in [Masters -> Statuses] /\ m_leader' \in [Masters -> Masters]
  BY OplogAssumption
     DEF Restart, RoleSettles, RoleDoubted, Settle, Reconsider, NameItself, Statuses, roles, IInv, TypeOK
<1>3. /\ UNCHANGED <<disk, prepared, upload, confirm, acked>>
      /\ alive' = alive \/ alive' = [alive EXCEPT ![m] = TRUE]
  BY DEF Restart, RoleSettles, RoleDoubted
<1>4. DataType' /\ Kept'
  BY <1>1, <1>2, <1>3 DEF IInv, TypeOK, DataType, Kept, ConfirmInv, PreparedIsAnEntry, disk, prepared
<1>5. TypeOK' /\ UploadInv'
  BY <1>3, <1>4 DEF IInv, TypeOK, DataType, UploadInv
<1>6. \A q \in Masters : alive[q] => alive'[q]
  BY <1>3 DEF IInv, TypeOK
<1>7. ConfirmInv'
  BY <1>3, <1>6 DEF IInv, ConfirmInv, prepared
<1>8. CallsMatch'
  <2>1. \A j \in Masters : confirm[j].from # 0 => confirm[j].from \in Masters
    BY CallerFacts
  <2>. QED
    BY <1>3, <1>6, <2>1 DEF IInv, CallsMatch, InCall
<1>. QED
  BY <1>4, <1>5, <1>7, <1>8 DEF IInv, Kept

-----------------------------------------------------------------------------
LEMMA InitInv == Init => IInv
<1>. SUFFICES ASSUME Init PROVE IInv
  OBVIOUS
<1>1. /\ \A m \in Masters : upload[m] = UploadIdle /\ confirm[m] = ConfirmIdle /\ m_state[m] = FALSE
      /\ upload = [m \in Masters |-> UploadIdle] /\ confirm = [m \in Masters |-> ConfirmIdle]
  BY DEF Init, DataInit
<1>2. UploadInv /\ ConfirmInv /\ CallsMatch /\ PreparedIsAnEntry
  BY <1>1, IdleOK DEF UploadInv, ConfirmInv, CallsMatch, PreparedIsAnEntry, UploadIdle, ConfirmIdle, CatchingUp
<1>3. upload \in [Masters -> Uploads] /\ confirm \in [Masters -> Confirms]
  BY <1>1, IdleOK DEF UploadOK, ConfirmOK
<1>4. DataType /\ alive \in [Masters -> BOOLEAN]
  BY EmptyLogType, OplogAssumption DEF Init, RolesInit, DataInit, DataType, Budget, Statuses
<1>. QED
  BY <1>2, <1>3, <1>4 DEF IInv, TypeOK, DataType

LEMMA NextInv == IInv /\ [Next]_vars => IInv'
<1>. SUFFICES ASSUME IInv, [Next]_vars PROVE IInv'
  OBVIOUS
<1>1. CASE Next
  <2>1. PICK m \in Masters :
          \/ \E op \in Ops : UploadStart(m, op)
          \/ UploadStep(m) \/ ConfirmStep(m)
          \/ Crash(m) \/ Restart(m) \/ RoleSettles(m) \/ RoleDoubted(m)
    BY <1>1 DEF Next
  <2>2. CASE \E op \in Ops : UploadStart(m, op)
    BY <2>2, UploadStartInv
  <2>3. CASE UploadStep(m)
    BY <2>3, UploadLocalInv, NoAnswerInv, PutInv DEF UploadStep
  <2>4. CASE ConfirmStep(m)
    <3>1. CASE AnswerCall(m)
      BY <3>1, RefuseInv, PrepareInv, CatchUpInv, CommitInv DEF AnswerCall
    <3>2. CASE ~AnswerCall(m)
      BY <2>4, <3>2, CommitUserdataInv, FetchInv, FetchFailsInv, ApplyOplogInv, ApplyUserdataInv DEF ConfirmStep
    <3>. QED
      BY <3>1, <3>2
  <2>5. CASE Crash(m) \/ Restart(m) \/ RoleSettles(m) \/ RoleDoubted(m)
    BY <2>5, CrashInv, EnvironmentInv
  <2>. QED
    BY <2>1, <2>2, <2>3, <2>4, <2>5
<1>2. CASE UNCHANGED vars
  BY <1>2 DEF vars, roles, disk, prepared, IInv, TypeOK, UploadInv, ConfirmInv, CallsMatch, InCall, PreparedIsAnEntry
<1>. QED
  BY <1>1, <1>2

LEMMA Invariance == Spec => []IInv
BY InitInv, NextInv, PTL DEF Spec

-----------------------------------------------------------------------------
\* The two threads of every master and the databases keep their types, whatever
\* the sentinels do, whatever is lost and whoever crashes.
THEOREM OplogTypeCorrect == Spec => []TypeOK
<1>1. IInv => TypeOK
  BY DEF IInv
<1>. QED
  BY <1>1, Invariance, PTL

\* Phase 2 never writes the empty message that m_state_data is at first.
THEOREM PreparedTheorem == Spec => []PreparedIsAnEntry
<1>1. IInv => PreparedIsAnEntry
  BY DEF IInv
<1>. QED
  BY <1>1, Invariance, PTL
-----------------------------------------------------------------------------
(* The numbers of the entries and their ids.                               *)

\* The definition of BytesOf has a solution: the ids counted up to the bound.
LEMMA BytesOfCounts == Counted(BytesOf, MaxId)
<1>. DEFINE G(f) == [id \in Ids |-> IF id = 0 THEN GetZero ELSE AddOne(f[id - 1])]
<1>1. MaxId \in Nat /\ Ids = 0..MaxId
  BY OplogAssumption DEF Ids
<1>2. PICK B : Counted(B, MaxId)
  BY <1>1, CountedExists
<1>3. B = G(B)
  <2>1. B \in [Ids -> Id]
    BY <1>1, <1>2 DEF Counted
  <2>2. ASSUME NEW id \in Ids
        PROVE  B[id] = IF id = 0 THEN GetZero ELSE AddOne(B[id - 1])
    <3>1. CASE id = 0
      BY <1>2, <3>1 DEF Counted
    <3>2. CASE id # 0
      <4>1. id - 1 \in 0..MaxId /\ id - 1 < MaxId /\ (id - 1) + 1 = id
        BY <1>1, <3>2
      <4>2. B[(id - 1) + 1] = AddOne(B[id - 1])
        BY <1>2, <4>1 DEF Counted
      <4>. QED
        BY <3>2, <4>1, <4>2
    <3>. QED
      BY <3>1, <3>2
  <2>. QED
    BY <2>1, <2>2
<1>4. BytesOf = G(BytesOf)
  <2>1. BytesOf = CHOOSE f : f = G(f)
    BY DEF BytesOf
  <2>. HIDE DEF G
  <2>. QED
    BY <1>3, <2>1
<1>5. \A id \in Ids : BytesOf[id] = IF id = 0 THEN GetZero ELSE AddOne(BytesOf[id - 1])
  BY <1>4
<1>6. \A k \in 0..MaxId : k < MaxId => BytesOf[k + 1] = AddOne(BytesOf[k])
  <2>. SUFFICES ASSUME NEW k \in 0..MaxId, k < MaxId PROVE BytesOf[k + 1] = AddOne(BytesOf[k])
    OBVIOUS
  <2>1. k + 1 \in Ids /\ k + 1 # 0 /\ (k + 1) - 1 = k
    BY <1>1
  <2>. QED
    BY <1>5, <2>1
<1>7. BytesOf[0] = GetZero
  BY <1>1, <1>5
<1>8. \A k \in 0..MaxId : BytesOf[k] \in Id
  <2>. DEFINE S == {k \in 0..MaxId : BytesOf[k] \in Id}
  <2>1. 0 \in S
    BY <1>1, <1>7, ZeroAndLast
  <2>2. \A k \in 0..MaxId : k \in S /\ k < MaxId => k + 1 \in S
    BY <1>1, <1>6, AddOneIsId
  <2>3. 0..MaxId \subseteq S
    <3>. HIDE DEF S
    <3>. QED
      BY <1>1, <2>1, <2>2, CountingUp
  <2>. QED
    BY <2>3
<1>9. BytesOf \in [0..MaxId -> Id]
  <2>1. BytesOf = [id \in Ids |-> BytesOf[id]]
    BY <1>4
  <2>. QED
    BY <1>1, <1>8, <2>1
<1>. QED
  BY <1>6, <1>7, <1>9 DEF Counted

\* Where char is signed, the order of the keys in every oplog is the order in which
\* the entries were added, for as many entries as there are ids: fetch_last_key and
\* the pages of GetOplog may count on it.
THEOREM IdsKeepOrderTheorem ==
  ASSUME CharSigned, MaxId < Cardinality(Id)
  PROVE  Spec => []IdsKeepOrder
<1>1. IdsKeepOrder
  <2>1. MaxId \in Nat /\ Counted(BytesOf, MaxId)
    BY BytesOfCounts, OplogAssumption
  <2>2. \A i, j \in 0..MaxId : i < j => Before(BytesOf[i], BytesOf[j])
    BY <2>1, CountingKeepsOrder
  <2>. QED
    BY <2>2 DEF IdsKeepOrder, Written, Ids
<1>. QED
  BY <1>1, PTL
=============================================================================
