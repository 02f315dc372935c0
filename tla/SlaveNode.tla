------------------------------ MODULE SlaveNode ------------------------------
(***************************************************************************)
(* A KyrinBox slave node: the oplog of the masters copied into redis.      *)
(*                                                                         *)
(* The sync thread (kyrin_slavenode_sync_func) asks a random master for    *)
(* the entries from current_id on and SETs their placements in redis; the  *)
(* download threads (DownloadFileRequestHandler) GET them.  The sync thread*)
(* has a redisContext, the download threads share another one.  A context  *)
(* that has failed is never connected again.  The masters are the log that *)
(* their replication is shown to implement (SharedLog, OplogReplication).  *)
(***************************************************************************)
EXTENDS Naturals, Sequences

CONSTANTS Replicas,   \* the masters
          Files,      \* keys: account+file_name
          Hosts,      \* placements: the UploadFileResponse of an upload
          None,       \* no placement, no entry
          Uploads,    \* the entries that uploads may make
          PageSize,   \* k_server_max_get_oplog_size
          Threads,    \* the download threads, server_run(4)
          MaxId,      \* bound: the largest op id
          MaxCrash,   \* bound: crashes of the slave node
          MaxStop,    \* bound: stops of redis
          MaxError    \* bound: error replies of redis, entries that do not serialise

Ops == [file : Files, hosts : Hosts]
Ids == 0..MaxId

ASSUME SlaveAssumption ==
    /\ None \notin Ops \cup Hosts /\ Uploads \subseteq Ops
    /\ PageSize \in Nat \ {0} /\ MaxId \in Nat
    /\ MaxCrash \in Nat /\ MaxStop \in Nat /\ MaxError \in Nat

VARIABLES
    log, len,       \* the masters, see SharedLog
    redis_up,       \* the redis server runs
    redis,          \* its data: key -> placement, kept when it stops
    pc,             \* sync thread
    current_id,     \* sync thread: the id it asks for next
    page,           \* sync thread: the entries of the response that are left
    sync_ok,        \* redis_context of the sync thread has not failed
    serves,         \* the download handler has its context and the server runs
    shared_ok,      \* m_redis_context of the download threads has not failed
    mixed,          \* two threads have been in a redisCommand on it at once
    download,       \* the download threads
    budget          \* what the bounds leave

masters == <<log, len>>
store == <<redis_up, redis>>
sync == <<pc, current_id, page, sync_ok>>
serving == <<serves, shared_ok, mixed, download>>
vars == <<masters, store, sync, serving, budget>>

Spend(what) == budget[what] > 0 /\ budget' = [budget EXCEPT ![what] = @ - 1]

TheMasters == INSTANCE SharedLog WITH Values <- Ops, acks <- {}

ThreadIdle == [at |-> "idle", file |-> None, answer |-> None, owed |-> FALSE, alone |-> TRUE]

Init ==
    /\ TheMasters!Init
    /\ redis_up = TRUE /\ redis = [f \in Files |-> None]
    /\ pc = "off" /\ current_id = 0 /\ page = <<>>
    /\ sync_ok = FALSE /\ serves = FALSE /\ shared_ok = FALSE /\ mixed = FALSE
    /\ download = [t \in Threads |-> ThreadIdle]
    /\ budget = [crash |-> MaxCrash, stop |-> MaxStop, error |-> MaxError]

-----------------------------------------------------------------------------
(* The masters.  An upload of a file that is there already is refused.     *)

Choose(r, op) ==
    /\ op.file \notin {log[id].file : id \in {j \in Ids : log[j] # None}}
    /\ TheMasters!Choose(r, op)
    /\ UNCHANGED <<store, sync, serving, budget>>

Learn(r) == TheMasters!Learn(r) /\ UNCHANGED <<store, sync, serving, budget>>

\* The reply of /GetOplog at r: the entries from an id on, none when r does not
\* have the id.
Least(a, b) == IF a <= b THEN a ELSE b
Page(r, id) ==
    IF id >= len[r] THEN <<>>
    ELSE [j \in 1..Least(PageSize, len[r] - id) |-> log[id + j - 1]]

-----------------------------------------------------------------------------
(* The processes.                                                          *)

\* main starts the sync thread and then makes the download server.
SlaveStart ==
    /\ pc = "off" /\ pc' = "connect"
    /\ UNCHANGED <<masters, store, current_id, page, sync_ok, serving, budget>>

\* Each of the two connects its own context, once.  Without redis the sync thread
\* ends and the server goes on.
SyncConnect ==
    /\ pc = "connect"
    /\ sync_ok' = redis_up /\ pc' = IF redis_up THEN "sleep" ELSE "ended"
    /\ UNCHANGED <<masters, store, current_id, page, serving, budget>>

HandlerConnect ==
    /\ pc # "off" /\ ~serves
    /\ serves' = TRUE /\ shared_ok' = redis_up
    /\ UNCHANGED <<masters, store, sync, mixed, download, budget>>

SlaveCrash ==
    /\ pc # "off" /\ Spend("crash")
    /\ pc' = "off" /\ current_id' = 0 /\ page' = <<>>
    /\ sync_ok' = FALSE /\ serves' = FALSE /\ shared_ok' = FALSE /\ mixed' = FALSE
    /\ download' = [t \in Threads |-> ThreadIdle]
    /\ UNCHANGED <<masters, store>>

\* The connections break: all later commands of these contexts get a NULL reply.
RedisStop ==
    /\ redis_up /\ Spend("stop")
    /\ redis_up' = FALSE /\ sync_ok' = FALSE /\ shared_ok' = FALSE
    /\ UNCHANGED <<masters, redis, pc, current_id, page, serves, mixed, download>>

RedisStart ==
    /\ ~redis_up
    /\ redis_up' = TRUE
    /\ UNCHANGED <<masters, redis, sync, serving, budget>>

-----------------------------------------------------------------------------
(* kyrin_slavenode_sync_func.                                              *)

\* One round: a random master.  A call that fails only makes the thread sleep
\* again, which changes nothing.
Ask(r) ==
    /\ pc = "sleep"
    /\ page' = Page(r, current_id)
    /\ pc' = IF page' = <<>> THEN "sleep" ELSE "apply"
    /\ UNCHANGED <<masters, store, current_id, sync_ok, serving, budget>>

\* On to the next entry, or to the next round.
NextEntry ==
    /\ current_id' = current_id + 1
    /\ page' = Tail(page)
    /\ pc' = IF page' = <<>> THEN "sleep" ELSE "apply"

\* The page is broken off; the entry is asked for again.
BreakBack == page' = <<>> /\ pc' = "sleep" /\ current_id' = current_id - 1
BreakPast == page' = <<>> /\ pc' = "sleep" /\ current_id' = current_id + 1
BreakAway == page' = <<>> /\ pc' = "ended" /\ UNCHANGED current_id
BreakOff == page' = <<>> /\ pc' = "sleep" /\ UNCHANGED current_id

\* SET of the placement.
Apply ==
    /\ pc = "apply" /\ sync_ok
    /\ redis' = [redis EXCEPT ![Head(page).file] = Head(page).hosts]
    /\ NextEntry
    /\ UNCHANGED <<masters, redis_up, sync_ok, serving, budget>>

\* The entry does not serialise, or redis replies with an error.
ApplyError ==
    /\ pc = "apply" /\ Spend("error")
    /\ BreakOff
    /\ UNCHANGED <<masters, store, sync_ok, serving>>

\* A NULL reply is not taken for an error.
ApplyNull ==
    /\ pc = "apply" /\ ~sync_ok
    /\ NextEntry
    /\ UNCHANGED <<masters, store, sync_ok, serving, budget>>

-----------------------------------------------------------------------------
(* DownloadFileRequestHandler::handle_request.  redisCommand writes GET to  *)
(* the buffer of the context, sends it and reads the first reply that comes. *)
(* Nothing keeps two threads apart in it: what they put on the wire, how     *)
(* often, and who reads which reply is open from then on, also for a later   *)
(* thread that is alone and finds replies left over, and some wait for ever. *)

Busy == {t \in Threads : download[t].at = "wait"}

\* The sync thread has passed an entry of f.
Passed(f) == \E id \in Ids : id < current_id /\ log[id] # None /\ log[id].file = f

Send(t, f) ==
    /\ serves /\ download[t].at = "idle"
    /\ download' = [download EXCEPT ![t] =
          [at |-> "wait", file |-> f, answer |-> IF shared_ok THEN redis[f] ELSE None,
           owed |-> sync_ok /\ Passed(f), alone |-> TRUE]]
    /\ mixed' = (mixed \/ Busy # {})
    /\ UNCHANGED <<masters, store, sync, serves, shared_ok, budget>>

\* The reply that t reads: its own, or none if the context has failed by then.
Answers(t) == IF mixed THEN {None} \cup {redis[f] : f \in Files}
              ELSE IF shared_ok THEN {download[t].answer}
              ELSE {None, download[t].answer}

\* "No such key" when the reply is NULL or nil.
Receive(t) ==
    /\ download[t].at = "wait"
    /\ \E a \in Answers(t) :
         download' = [download EXCEPT ![t].at = "done", ![t].answer = a,
                        ![t].owed = @ /\ shared_ok, ![t].alone = ~mixed]
    /\ UNCHANGED <<masters, store, sync, serves, shared_ok, mixed, budget>>

\* What the threads have left in the context does not parse.
Garble ==
    /\ mixed /\ shared_ok /\ Busy # {}
    /\ shared_ok' = FALSE
    /\ UNCHANGED <<masters, store, sync, serves, mixed, download, budget>>

\* The next request of the connection; the answer of the last one is forgotten.
Done(t) ==
    /\ download[t].at = "done"
    /\ download' = [download EXCEPT ![t] = ThreadIdle]
    /\ UNCHANGED <<masters, store, sync, serves, shared_ok, mixed, budget>>

-----------------------------------------------------------------------------
SyncStep == Apply \/ ApplyError \/ ApplyNull

Next == \/ \E r \in Replicas : Learn(r) \/ Ask(r) \/ \E op \in Uploads : Choose(r, op)
        \/ SlaveStart \/ SyncConnect \/ HandlerConnect \/ SlaveCrash
        \/ RedisStop \/ RedisStart \/ SyncStep \/ Garble
        \/ \E t \in Threads : Receive(t) \/ Done(t) \/ \E f \in Files : Send(t, f)

Spec == Init /\ [][Next]_vars

\* The thread goes on, the slave node is started again, and every master is
\* asked again and again.  Masters need not learn, nor redis come back.
Fairness == /\ WF_vars(SyncStep) /\ WF_vars(SlaveStart) /\ WF_vars(SyncConnect)
            /\ \A r \in Replicas : SF_vars(Ask(r))

LiveSpec == Spec /\ Fairness

-----------------------------------------------------------------------------
Downloads == [at : {"idle", "wait", "done"}, file : Files \cup {None},
              answer : Hosts \cup {None}, owed : BOOLEAN, alone : BOOLEAN]

TypeOK ==
    /\ log \in [Ids -> Ops \cup {None}] /\ len \in [Replicas -> 0..(MaxId + 1)]
    /\ redis_up \in BOOLEAN /\ redis \in [Files -> Hosts \cup {None}]
    /\ pc \in {"off", "connect", "ended", "sleep", "apply"}
    /\ current_id \in 0..(MaxId + 1)
    /\ page \in Seq(Ops) /\ Len(page) <= PageSize
    /\ sync_ok \in BOOLEAN /\ serves \in BOOLEAN /\ shared_ok \in BOOLEAN
    /\ mixed \in BOOLEAN
    /\ download \in [Threads -> Downloads]
    /\ budget \in [{"crash", "stop", "error"} -> Nat]

-----------------------------------------------------------------------------
(* Safety.                                                                 *)

\* The entries that the sync thread has passed are in redis, and so are the
\* ones a master still owes in order: current_id never gets ahead of redis
\* while the context works, whatever replica answers and whatever redis refuses.
NothingSkipped ==
    /\ sync_ok => \A id \in Ids : id < current_id =>
                     log[id] # None /\ redis[log[id].file] = log[id].hosts
    /\ \A j \in DOMAIN page : page[j] = log[current_id + j - 1]

\* While requests have come one at a time since the node was started, a download is
\* answered with the placement of its file, or with "No such key", and that not if
\* the sync thread had already passed the entry of the file and neither context had
\* failed.  Nothing is said of an answer once two threads have been in the context.
AnsweredRight ==
    \A t \in Threads : download[t].at = "done" /\ download[t].alone =>
        \/ download[t].answer = None /\ ~download[t].owed
        \/ \E id \in Ids : log[id] = [file |-> download[t].file, hosts |-> download[t].answer]

-----------------------------------------------------------------------------
(* Liveness, under LiveSpec.                                               *)

\* What a master has reaches redis, unless the context of the sync thread has
\* failed: then nothing but a restart of the slave node helps.
Placed(id) == log[id] # None /\ redis[log[id].file] = log[id].hosts
SlaveCatchesUp ==
    \A id \in Ids : log[id] # None ~> (Placed(id) \/ (pc \in {"sleep", "apply", "ended"} /\ ~sync_ok))
=============================================================================
