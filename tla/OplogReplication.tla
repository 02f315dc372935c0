--------------------------- MODULE OplogReplication ---------------------------
(***************************************************************************)
(* The two-phase replication of the oplog among the KyrinBox masters.      *)
(*                                                                         *)
(* A master runs one thread per port: the upload thread                    *)
(* (UploadFileRequestHandler) coordinates, the confirm thread              *)
(* (ConfirmOplogRequestHandler) takes part and catches up, the GetOplog    *)
(* threads serve pages of the oplog.  A call between masters blocks its    *)
(* caller until the callee answers or the connection breaks; nothing times *)
(* out.  The role of a master comes from its sentinel (MasterRoles).       *)
(***************************************************************************)
EXTENDS MasterRoles, FiniteSets, LexIds

CONSTANTS Files,        \* keys of userdata: account+file_name
          Hosts,        \* placements the gossip answers with
          NoOp,         \* no log entry
          PageSize,     \* k_server_max_get_oplog_size
          Eligible,     \* masters that a ballot may elect
          Crashable,    \* masters that may crash
          LoopRemoved,  \* the build removes the wait for the end of a ballot
          MaxId,        \* bound: the largest op id
          MaxRoles,     \* bound: role changes other than settling
          MaxLostCall,  \* bound: /ConfirmOplog requests lost
          MaxLostReply, \* bound: /ConfirmOplog replies lost
          MaxLostGet,   \* bound: /GetOplog calls lost
          MaxCrash,     \* bound: crashes
          MaxDbFail,    \* bound: failing puts, removes and reads of a database
          MaxFaults     \* bound: all of the above together

Ops == [file : Files, hosts : Hosts]

ASSUME OplogAssumption ==
    /\ NoOp \notin Ops
    /\ PageSize \in Nat \ {0} /\ MaxId \in Nat
    /\ LoopRemoved \in BOOLEAN
    /\ Eligible \subseteq Masters /\ Crashable \subseteq Masters
    /\ {MaxRoles, MaxLostCall, MaxLostReply, MaxLostGet, MaxCrash, MaxDbFail,
        MaxFaults} \subseteq Nat

Ids == 0..MaxId
Logs == [Ids -> Ops \cup {NoOp}]
EmptyLog == [id \in Ids |-> NoOp]

VARIABLES
    alive,          \* the process runs
    oplog,          \* leveldb oplog: id -> entry, on disk
    userdata,       \* leveldb userdata: the files known, on disk
    m_state,        \* ConfirmOplogRequestHandler: an entry was accepted once
    m_state_id,     \*   the id of the last phase 1 message
    m_state_data,   \*   the entry accepted last
    upload,         \* upload thread
    confirm,        \* confirm thread
    acked,          \* answers 200 of the upload threads: [master, id, op]
    budget          \* what the bounds leave

disk == <<oplog, userdata>>
prepared == <<m_state, m_state_id, m_state_data>>
vars == <<roles, alive, disk, prepared, upload, confirm, acked, budget>>

-----------------------------------------------------------------------------
(* Logs.                                                                   *)

Written(log) == {id \in Ids : log[id] # NoOp}

\* fetch_last_key and add_one, or get_zero when the database is empty.
NextId(log) == IF Written(log) = {} THEN 0
               ELSE 1 + CHOOSE id \in Written(log) : \A j \in Written(log) : j <= id

\* What fetch_last_key makes of it: the first id, too, when the read fails.
IdsRead(log) == {NextId(log), 0}
Misreads(log, id) == IF id = NextId(log) THEN 0 ELSE 1

\* The keys an iterator sees from an id on.
KeysAfter(log, id) == {k \in Written(log) : k > id}
KeysFrom(log, id) == {k \in Written(log) : k >= id}

\* The reply of GetOplogRequestHandler to an id: nothing when the id does not
\* exist, else at most PageSize entries from it on.
Page(log, id) ==
    IF id \notin Written(log) THEN EmptyLog
    ELSE [j \in Ids |->
            IF /\ j \in KeysFrom(log, id)
               /\ Cardinality({k \in KeysFrom(log, id) : k <= j}) <= PageSize
            THEN log[j] ELSE NoOp]

FirstOf(page) == CHOOSE id \in Written(page) : \A j \in Written(page) : id <= j

-----------------------------------------------------------------------------
(* The threads.                                                            *)

UploadIdle == [at |-> "idle", op |-> NoOp, op_id |-> 0, i |-> 0, tp_cnt |-> 0]
ConfirmIdle == [at |-> "idle", from |-> 0, op |-> NoOp, op_id |-> 0,
                leader |-> 0, last_id |-> 0, current |-> 0, page |-> EmptyLog]

\* The masters a coordinator still has to call after i.
After(m, i) == {j \in Masters : j > i /\ j # m}
Least(S) == CHOOSE j \in S : \A k \in S : j <= k

\* The first call of a phase, or what follows the phase if there is no one to call.
BeginPhase(u, m, at, after) ==
    IF After(m, 0) = {} THEN [u EXCEPT !.at = after]
    ELSE [u EXCEPT !.at = at, !.i = Least(After(m, 0))]

\* tp_cnt counts the answers "ok" of phase 1.
CountBoth(u, ok) == IF ok THEN u.tp_cnt + 1 ELSE u.tp_cnt
CountAny(u, ok) == IF u.at = "phase1" THEN u.tp_cnt + 1 ELSE u.tp_cnt
Count(u, ok) == IF u.at = "phase1" /\ ok THEN u.tp_cnt + 1 ELSE u.tp_cnt

\* After the last call: from phase 1 to the rejection or to phase 2, from
\* phase 2 to the local put.
NoLocalPut(u, m) ==
    IF u.at = "phase2" \/ u.tp_cnt <= N \div 2 THEN UploadIdle
    ELSE BeginPhase(u, m, "phase2", "put")
AfterCalls(u, m) ==
    IF u.at = "phase2" THEN [u EXCEPT !.at = "put"]
    ELSE IF u.tp_cnt <= N \div 2 THEN UploadIdle
    ELSE BeginPhase(u, m, "phase2", "put")

\* The upload thread after a call of a phase.
Advance(u, m, ok) ==
    LET v == [u EXCEPT !.tp_cnt = Count(u, ok)] IN
    IF After(m, u.i) = {} THEN AfterCalls(v, m)
    ELSE [v EXCEPT !.i = Least(After(m, u.i))]

InCall(m) == upload[m].at \in {"phase1", "phase2"}

Spend(what) == /\ budget[what] > 0 /\ budget["any"] > 0
               /\ budget' = [budget EXCEPT ![what] = @ - 1, !["any"] = @ - 1]

\* In one step n calls of a database fail and r replies are lost.
Pay(n, r) ==
    /\ budget["db"] >= n /\ budget["reply"] >= r /\ budget["any"] >= n + r
    /\ budget' = [budget EXCEPT !["db"] = @ - n, !["reply"] = @ - r, !["any"] = @ - (n + r)]

DataInit ==
    /\ alive = [m \in Masters |-> TRUE]
    /\ oplog = [m \in Masters |-> EmptyLog]
    /\ userdata = [m \in Masters |-> {}]
    /\ m_state = [m \in Masters |-> FALSE]
    /\ m_state_id = [m \in Masters |-> -1]
    /\ m_state_data = [m \in Masters |-> NoOp]
    /\ upload = [m \in Masters |-> UploadIdle]
    /\ confirm = [m \in Masters |-> ConfirmIdle]
    /\ acked = {}
    /\ budget = [roles |-> MaxRoles, call |-> MaxLostCall, reply |-> MaxLostReply,
                 get |-> MaxLostGet, crash |-> MaxCrash, db |-> MaxDbFail,
                 any |-> MaxFaults]

Init == RolesInit /\ DataInit

-----------------------------------------------------------------------------
(* Tests and steps of the handlers that have a name below.                 *)

\* m_userdata_db->exist of the file of an upload.
NeverExists(m) == FALSE
Exists(m) == upload[m].op.file \in userdata[m]

\* Phase 1 finds the oplog of i to end just before the entry.
AssumedUpToDate(i, m, next) == TRUE
UpToDate(i, m, next) == next = upload[m].op_id

\* Phase 2 finds the entry prepared at i.
PreparedAny(i, m) == m_state[i]
PreparedFor(i, m) == m_state[i] /\ m_state_id[i] = upload[m].op_id

\* update_oplog has come to the target with the entry it has just put.
AtTarget(c) == c.current + 1 = c.op_id

\* The put into userdata that follows the put into the oplog.
NoUserdata(m, file) == UNCHANGED userdata
AddUserdata(m, file) == userdata' = [userdata EXCEPT ![m] = @ \cup {file}]

\* That put has failed: the entry is removed from the oplog again, and nobody looks
\* whether it was.
Undo(m, id) ==
    \/ Pay(1, 0) /\ oplog' = [oplog EXCEPT ![m][id] = NoOp]
    \/ Pay(2, 0) /\ UNCHANGED oplog

\* The connection from m to i is gone; what i works on for m has no caller.
HangUp(i, m) == [confirm EXCEPT ![i].from = 0]

\* The members of the confirm handler in a new process.
ForgetData(m) ==
    /\ UNCHANGED m_state
    /\ m_state_id' = [m_state_id EXCEPT ![m] = -1]
    /\ m_state_data' = [m_state_data EXCEPT ![m] = NoOp]
Forget(m) ==
    /\ m_state' = [m_state EXCEPT ![m] = FALSE]
    /\ m_state_id' = [m_state_id EXCEPT ![m] = -1]
    /\ m_state_data' = [m_state_data EXCEPT ![m] = NoOp]

-----------------------------------------------------------------------------
(* The upload thread: UploadFileRequestHandler::handle_request.            *)

\* A request reaches a master that does not follow.  The status is read once,
\* so in Consensus the thread spins on its local copy for ever.
UploadStart(m, op) ==
    /\ alive[m] /\ upload[m].at = "idle"
    /\ m_status[m] # Follower
    /\ upload' = [upload EXCEPT ![m] =
                    [UploadIdle EXCEPT !.op = op,
                                       !.at = IF m_status[m] = Leader THEN "asked" ELSE "spin"]]
    /\ UNCHANGED <<roles, alive, disk, prepared, confirm, acked, budget>>

\* A loop without side effects may be removed by the compiler (the build has
\* -O2): the thread then goes on as a leader would.
SpinRemoved(m) ==
    /\ LoopRemoved /\ upload[m].at = "spin"
    /\ upload' = [upload EXCEPT ![m].at = "asked"]
    /\ UNCHANGED <<roles, alive, disk, prepared, confirm, acked, budget>>

\* The call to the gossip is over.  The upload is rejected when the gossip does
\* not know three chunk servers alive, which nothing here decides, or when the
\* file is there already, see TwoPhaseStart.
UploadRejected(m) ==
    /\ upload[m].at = "asked"
    /\ upload' = [upload EXCEPT ![m] = UploadIdle]
    /\ UNCHANGED <<roles, alive, disk, prepared, confirm, acked, budget>>

\* The file must be new, or the read of userdata fails, and the op id is the one
\* after the last of the master's own oplog.  The status is not read again.
TwoPhaseStart(m) == \E next \in IdsRead(oplog[m]) :
    LET u == [upload[m] EXCEPT !.op_id = next, !.tp_cnt = 1] IN
    /\ upload[m].at = "asked"
    /\ next \in Ids
    /\ Pay((IF Exists(m) THEN 1 ELSE 0) + Misreads(oplog[m], next), 0)
    /\ upload' = [upload EXCEPT ![m] = BeginPhase(u, m, "phase1", "put")]
    /\ UNCHANGED <<roles, alive, disk, prepared, confirm, acked>>

\* make_request_post fails: the callee is down, or the request is lost, or the
\* connection breaks while the callee still works on it.
NoAnswer(m) ==
    LET i == upload[m].i IN
    /\ InCall(m)
    /\ \/ ~alive[i] /\ UNCHANGED <<confirm, budget>>
       \/ alive[i] /\ confirm[i].from # m /\ Spend("call") /\ UNCHANGED confirm
       \/ confirm[i].from = m /\ Spend("reply") /\ confirm' = HangUp(i, m)
    /\ upload' = [upload EXCEPT ![m] = Advance(@, m, FALSE)]
    /\ UNCHANGED <<roles, alive, disk, prepared, acked>>

\* The local puts come after phase 2, whatever phase 2 was answered.
PutOplog(m) ==
    LET u == upload[m] IN
    /\ u.at = "put"
    /\ \/ /\ oplog' = [oplog EXCEPT ![m][u.op_id] = u.op]
          /\ upload' = [upload EXCEPT ![m].at = "put_user"]
          /\ UNCHANGED budget
       \/ /\ Spend("db")
          /\ upload' = [upload EXCEPT ![m] = UploadIdle]
          /\ UNCHANGED oplog
    /\ UNCHANGED <<roles, alive, userdata, prepared, confirm, acked>>

PutUserdata(m) ==
    LET u == upload[m] IN
    /\ u.at = "put_user"
    /\ \/ /\ AddUserdata(m, u.op.file)
          /\ acked' = acked \cup {[op_id |-> u.op_id, op |-> u.op]}
          /\ UNCHANGED <<oplog, budget>>
       \/ Undo(m, u.op_id) /\ UNCHANGED <<userdata, acked>>
    /\ upload' = [upload EXCEPT ![m] = UploadIdle]
    /\ UNCHANGED <<roles, alive, prepared, confirm>>

-----------------------------------------------------------------------------
(* The confirm thread: ConfirmOplogRequestHandler::handle_request, one     *)
(* request at a time.                                                      *)

\* The caller gets an answer; only the body "ok" counts, whatever the status.
Resume(p, ok) ==
    upload' = [upload EXCEPT ![p] = Advance(@, p, ok)]

\* The same, after n calls of a database that failed, and the answer may be lost.
Answer(p, ok, n) ==
    \/ p # 0 /\ Resume(p, ok) /\ Pay(n, 0)
    \/ p # 0 /\ ok /\ Resume(p, FALSE) /\ Pay(n, 1)
    \/ p = 0 /\ UNCHANGED upload /\ Pay(n, 0)

\* Thread i is free and m calls it.
Called(i, m) == /\ alive[i] /\ confirm[i].at = "idle"
                /\ InCall(m) /\ upload[m].i = i

\* "System error" from a leader, and phase 2 of an entry that is not prepared.
Refuse(i, m) ==
    /\ Called(i, m)
    /\ \/ m_status[i] = Leader
       \/ upload[m].at = "phase2" /\ ~PreparedFor(i, m)
    /\ Answer(m, FALSE, 0)
    /\ UNCHANGED <<roles, alive, disk, prepared, confirm, acked>>

\* Phase 1, and the oplog of i ends just before the entry.
Prepare(i, m) == \E next \in IdsRead(oplog[i]) :
    /\ Called(i, m) /\ m_status[i] # Leader /\ upload[m].at = "phase1"
    /\ UpToDate(i, m, next)
    /\ m_state' = [m_state EXCEPT ![i] = TRUE]
    /\ m_state_id' = [m_state_id EXCEPT ![i] = upload[m].op_id]
    /\ m_state_data' = [m_state_data EXCEPT ![i] = upload[m].op]
    /\ Answer(m, TRUE, Misreads(oplog[i], next))
    /\ UNCHANGED <<roles, alive, disk, confirm, acked>>

\* Phase 1, and the oplog of i ends elsewhere: m_state_id is overwritten before
\* anything is fetched, from the master that the sentinel of i names.
CatchUp(i, m) == \E next \in IdsRead(oplog[i]) :
    /\ Called(i, m) /\ m_status[i] # Leader /\ upload[m].at = "phase1"
    /\ ~UpToDate(i, m, next)
    /\ Pay(Misreads(oplog[i], next), 0)
    /\ m_state_id' = [m_state_id EXCEPT ![i] = upload[m].op_id]
    /\ confirm' = [confirm EXCEPT ![i] =
                     [at |-> "fetch", from |-> m, op |-> upload[m].op,
                      op_id |-> upload[m].op_id, leader |-> m_leader[i],
                      last_id |-> next, current |-> next, page |-> EmptyLog]]
    /\ UNCHANGED <<roles, alive, disk, m_state, m_state_data, upload, acked>>

\* Phase 2 of the entry prepared: the data of the last successful phase 1 goes
\* to the id of this message.
Commit(i, m) ==
    /\ Called(i, m) /\ m_status[i] # Leader /\ upload[m].at = "phase2"
    /\ PreparedFor(i, m)
    /\ \/ /\ oplog' = [oplog EXCEPT ![i][upload[m].op_id] = m_state_data[i]]
          /\ confirm' = [confirm EXCEPT ![i] =
                           [ConfirmIdle EXCEPT !.at = "put_user", !.from = m,
                                               !.op_id = upload[m].op_id,
                                               !.op = m_state_data[i]]]
          /\ UNCHANGED <<upload, budget>>
       \/ /\ Spend("db") /\ Resume(m, FALSE)
          /\ UNCHANGED <<oplog, confirm>>
    /\ UNCHANGED <<roles, alive, userdata, prepared, acked>>

CommitUserdata(i) ==
    LET c == confirm[i] IN
    /\ c.at = "put_user"
    /\ \/ /\ AddUserdata(i, c.op.file)
          /\ Answer(c.from, TRUE, 0)
          /\ UNCHANGED oplog
       \/ /\ Undo(i, c.op_id)
          /\ IF c.from = 0 THEN UNCHANGED upload ELSE Resume(c.from, FALSE)
          /\ UNCHANGED userdata
    /\ confirm' = [confirm EXCEPT ![i] = ConfirmIdle]
    /\ UNCHANGED <<roles, alive, prepared, acked>>

-----------------------------------------------------------------------------
(* update_oplog.                                                           *)

\* "no ok": m_state and m_state_data stay what they were.
GiveUp(i) ==
    /\ IF confirm[i].from = 0 THEN UNCHANGED upload ELSE Resume(confirm[i].from, FALSE)
    /\ confirm' = [confirm EXCEPT ![i] = ConfirmIdle]

\* Each page is asked for from last_id, not from where the last page ended.  A
\* reply 400 holds no entry and the loop asks again.
Fetch(i) ==
    LET c == confirm[i]
        page == Page(oplog[c.leader], c.last_id)
    IN  /\ c.at = "fetch" /\ alive[c.leader]
        /\ confirm' = [confirm EXCEPT ![i].page = page,
                                      ![i].at = IF page = EmptyLog THEN "fetch" ELSE "apply"]
        /\ UNCHANGED <<roles, alive, disk, prepared, upload, acked, budget>>

FetchFails(i) ==
    /\ confirm[i].at = "fetch"
    /\ \/ ~alive[confirm[i].leader] /\ UNCHANGED budget
       \/ alive[confirm[i].leader] /\ Spend("get")
    /\ GiveUp(i)
    /\ UNCHANGED <<roles, alive, disk, prepared, acked>>

\* The next entry of the page goes to the current id.
ApplyOplog(i) ==
    LET c == confirm[i] IN
    /\ c.at = "apply" /\ c.current \in Ids
    /\ \/ /\ oplog' = [oplog EXCEPT ![i][c.current] = c.page[FirstOf(c.page)]]
          /\ confirm' = [confirm EXCEPT ![i].at = "apply_user"]
          /\ UNCHANGED <<upload, budget>>
       \/ /\ Spend("db") /\ GiveUp(i)
          /\ UNCHANGED oplog
    /\ UNCHANGED <<roles, alive, userdata, prepared, acked>>

\* Its userdata follows.  At the end of the page the loop ends if it has come
\* to the target, and then the entry of phase 1 is prepared.
ApplyUserdata(i) ==
    LET c == confirm[i]
        file == c.page[FirstOf(c.page)].file
        rest == [c.page EXCEPT ![FirstOf(c.page)] = NoOp]
        done == rest = EmptyLog /\ AtTarget(c)
    IN
    /\ c.at = "apply_user"
    /\ \/ /\ AddUserdata(i, file)
          /\ IF done
             THEN /\ m_state' = [m_state EXCEPT ![i] = TRUE]
                  /\ m_state_data' = [m_state_data EXCEPT ![i] = c.op]
                  /\ confirm' = [confirm EXCEPT ![i] = ConfirmIdle]
                  /\ Answer(c.from, TRUE, 0)
             ELSE /\ confirm' = [confirm EXCEPT ![i] =
                                   [c EXCEPT !.current = c.current + 1, !.page = rest,
                                             !.at = IF rest = EmptyLog THEN "fetch" ELSE "apply"]]
                  /\ UNCHANGED <<m_state, m_state_data, upload, budget>>
          /\ UNCHANGED oplog
       \/ /\ Undo(i, c.current) /\ GiveUp(i)
          /\ UNCHANGED <<userdata, m_state, m_state_data>>
    /\ UNCHANGED <<roles, alive, m_state_id, acked>>

-----------------------------------------------------------------------------
(* The environment of the two threads.                                     *)

\* The databases stay; m_state and the threads are gone, the calls that the
\* confirm thread was handling break, and the sentinel starts from nothing.
Crash(m) ==
    LET p == confirm[m].from IN
    /\ m \in Crashable /\ alive[m] /\ Spend("crash")
    /\ alive' = [alive EXCEPT ![m] = FALSE]
    /\ Forget(m)
    /\ upload' = [q \in Masters |-> CASE q = m -> UploadIdle
                                      [] q # m /\ q = p -> Advance(upload[q], q, FALSE)
                                      [] OTHER -> upload[q]]
    /\ confirm' = [q \in Masters |-> CASE q = m -> ConfirmIdle
                                       [] q # m /\ confirm[q].from = m -> [confirm[q] EXCEPT !.from = 0]
                                       [] OTHER -> confirm[q]]
    /\ NameItself(m)
    /\ UNCHANGED <<disk, acked>>

Restart(m) ==
    /\ ~alive[m]
    /\ alive' = [alive EXCEPT ![m] = TRUE]
    /\ UNCHANGED <<roles, disk, prepared, upload, confirm, acked, budget>>

\* The sentinel of m ends a ballot, or starts one.
RoleSettles(m) ==
    /\ alive[m]
    /\ \E l \in Eligible : Settle(m, l)
    /\ UNCHANGED <<alive, disk, prepared, upload, confirm, acked, budget>>

RoleDoubted(m) ==
    /\ alive[m] /\ Spend("roles")
    /\ Reconsider(m) \/ NameItself(m)
    /\ UNCHANGED <<alive, disk, prepared, upload, confirm, acked>>

-----------------------------------------------------------------------------
UploadStep(m) == \/ SpinRemoved(m) \/ UploadRejected(m) \/ TwoPhaseStart(m)
                 \/ NoAnswer(m) \/ PutOplog(m) \/ PutUserdata(m)

AnswerCall(i) == \E m \in Masters : Refuse(i, m) \/ Prepare(i, m) \/ CatchUp(i, m) \/ Commit(i, m)

ConfirmStep(i) == \/ AnswerCall(i) \/ CommitUserdata(i)
                  \/ Fetch(i) \/ FetchFails(i) \/ ApplyOplog(i) \/ ApplyUserdata(i)

Next == \E m \in Masters :
    \/ \E op \in Ops : UploadStart(m, op)
    \/ UploadStep(m) \/ ConfirmStep(m)
    \/ Crash(m) \/ Restart(m) \/ RoleSettles(m) \/ RoleDoubted(m)

Spec == Init /\ [][Next]_vars

\* The threads keep running, a master that is down is started again, and its
\* ballots come to an end.  Nothing obliges a call to be lost or a put to fail.
Fairness == \A m \in Masters :
    /\ WF_vars(UploadStep(m)) /\ WF_vars(ConfirmStep(m))
    /\ WF_vars(Restart(m)) /\ WF_vars(RoleSettles(m))

LiveSpec == Spec /\ Fairness

-----------------------------------------------------------------------------
Uploads == [at : {"idle", "spin", "asked", "phase1", "phase2", "put", "put_user"},
            op : Ops \cup {NoOp}, op_id : Ids, i : 0..N, tp_cnt : 0..N]
Confirms == [at : {"idle", "fetch", "apply", "apply_user", "put_user"},
             from : 0..N, op : Ops \cup {NoOp}, op_id : Ids, leader : 0..N,
             last_id : 0..(MaxId + 1), current : 0..(MaxId + 1), page : Logs]
Budget == [{"roles", "call", "reply", "get", "crash", "db", "any"} -> Nat]

TypeOK ==
    /\ m_status \in [Masters -> Statuses] /\ m_leader \in [Masters -> Masters]
    /\ alive \in [Masters -> BOOLEAN]
    /\ oplog \in [Masters -> Logs]
    /\ userdata \in [Masters -> SUBSET Files]
    /\ m_state \in [Masters -> BOOLEAN]
    /\ m_state_id \in [Masters -> Ids \cup {-1}]
    /\ m_state_data \in [Masters -> Ops \cup {NoOp}]
    /\ upload \in [Masters -> Uploads]
    /\ confirm \in [Masters -> Confirms]
    /\ acked \subseteq [op_id : Ids, op : Ops]
    /\ budget \in Budget

-----------------------------------------------------------------------------
(* Safety whatever fails.                                                  *)

\* What phase 2 writes is an entry that some phase 1 brought, never the empty
\* message m_state_data starts as, and m_state_id is then set too.
PreparedIsAnEntry ==
    \A i \in Masters : m_state[i] => m_state_data[i] \in Ops /\ m_state_id[i] \in Ids

-----------------------------------------------------------------------------
(* Safety under one leader that stays up, see the runs.                    *)

\* No two masters hold different entries under one id.
LogsAgree ==
    \A p, q \in Masters, id \in Ids :
        id \in Written(oplog[p]) \cap Written(oplog[q]) => oplog[p][id] = oplog[q][id]

\* The ids of an oplog have no gap: fetch_last_key tells how long it is.
NoGaps == \A m \in Masters : Written(oplog[m]) = 0..(NextId(oplog[m]) - 1)

\* fetch_last_key finds the entry added last, and GetOplog passes over the entries
\* in the order they were added: their ids, counted by add_one from zero, are in
\* the order of the bytes.
BytesOf[id \in Ids] == IF id = 0 THEN GetZero ELSE AddOne(BytesOf[id - 1])
IdsKeepOrder == \A m \in Masters : \A i, j \in Written(oplog[m]) :
                    i < j => Before(BytesOf[i], BytesOf[j])

\* No file is uploaded twice: the check of userdata at the leader is in time.
FileOnce == \A m \in Masters : \A i, j \in Written(oplog[m]) :
                oplog[m][i].file = oplog[m][j].file => i = j

\* A master is ahead of the leader only by the entry that the leader is about
\* to put after phase 2.
AheadOnlyInFlight ==
    \A l \in Eligible, m \in Masters : NextId(oplog[m]) > NextId(oplog[l]) =>
        /\ upload[l].at \in {"phase2", "put"}
        /\ NextId(oplog[m]) = upload[l].op_id + 1
        /\ oplog[m][upload[l].op_id] = upload[l].op

\* tp_cnt counts what phase 1 left: as long as no master has crashed, a majority holds
\* the entry of an upload that is past phase 1, in the oplog or prepared for phase 2,
\* so the masters may leave the answers of phase 2 unread.
Holds(i, m) ==
    \/ i = m \/ oplog[i][upload[m].op_id] = upload[m].op
    \/ PreparedFor(i, m) /\ m_state_data[i] = upload[m].op
MajorityHolds == \A m \in Masters :
    upload[m].at \in {"phase2", "put", "put_user"} /\ budget["crash"] = MaxCrash =>
        2 * Cardinality({i \in Masters : Holds(i, m)}) > N

\* userdata is what the oplog says, except between the two puts of an entry; a
\* crash in between leaves a master without the file for ever.
FilesOf(log) == {log[id].file : id \in Written(log)}
BetweenPuts(m, f) ==
    \/ upload[m].at = "put_user" /\ upload[m].op.file = f
    \/ confirm[m].at = "put_user" /\ confirm[m].op.file = f
    \/ confirm[m].at = "apply_user" /\ confirm[m].page[FirstOf(confirm[m].page)].file = f
UserdataMatches == \A m \in Masters :
    /\ userdata[m] \subseteq FilesOf(oplog[m])
    /\ m \notin Crashable => \A f \in FilesOf(oplog[m]) \ userdata[m] : BetweenPuts(m, f)

\* The masters copy one log and an acknowledged entry is in it.
Chosen == [id \in Ids |->
             IF \E m \in Masters : oplog[m][id] # NoOp
             THEN CHOOSE op \in Ops : \E m \in Masters : oplog[m][id] = op
             ELSE NoOp]
TheLog == INSTANCE SharedLog WITH
            Replicas <- Masters, Values <- Ops, None <- NoOp, log <- Chosen,
            len <- [m \in Masters |-> NextId(oplog[m])], acks <- acked
ImplementsSharedLog == TheLog!Spec

-----------------------------------------------------------------------------
(* Claims of the code and its tests that some runs refute.                 *)

\* GetOplogTest: no master's oplog has another upload under the id of one that
\* was answered with 200.
AckedNotContradicted ==
    \A a \in acked, m \in Masters : oplog[m][a.op_id] \in {NoOp, a.op}

\* test_GetOplog_Ten: one upload after the other is answered.
UploadsEnd == \A m \in Masters : upload[m].at = "asked" ~> upload[m].at = "idle"
=============================================================================
