---------------------------- MODULE SlaveNodeProofs ----------------------------
(***************************************************************************)
(* Theorems about SlaveNode: the invariants that the run slave_node checks *)
(* hold for any number of masters, files and download threads.             *)
(***************************************************************************)
EXTENDS SlaveNode, SequenceTheorems, TLAPS

\* The masters hold prefixes of a log in which no file is twice.
LogInv ==
    /\ \A r \in Replicas, id \in Ids : id < len[r] => log[id] # None
    /\ \A i, j \in Ids : log[i] # None /\ log[j] # None /\ log[i].file = log[j].file => i = j

\* The page in hand is the piece of the log that begins at current_id, and what
\* lies before current_id has been chosen and, unless the context failed, SET.
SyncInv ==
    /\ current_id + Len(page) <= MaxId + 1
    /\ pc = "apply" <=> page # <<>>
    /\ pc \in {"off", "connect"} => current_id = 0
    /\ \A id \in Ids : id < current_id => log[id] # None
    /\ sync_ok => \A id \in Ids : id < current_id => redis[log[id].file] = log[id].hosts
    /\ \A j \in 1..Len(page) : page[j] = log[current_id + j - 1]

\* redis never holds a placement that is not in the log.
Right(f, h) == \E id \in Ids : log[id] # None /\ log[id] = [file |-> f, hosts |-> h]
RedisInv == \A f \in Files : redis[f] = None \/ Right(f, redis[f])

\* What redis has answered to a thread that waits, if the context lasts; and what
\* the threads have been given that were alone.
Fitting(d) == (d.answer = None /\ ~d.owed) \/ Right(d.file, d.answer)
WaitInv ==
    /\ ~serves => Busy = {}
    /\ \A t \in Busy : \/ download[t].answer = None /\ ~(download[t].owed /\ shared_ok)
                       \/ Right(download[t].file, download[t].answer)
AnswerInv ==
    \A t \in Threads : download[t].at = "done" /\ download[t].alone => Fitting(download[t])

IInv == TypeOK /\ LogInv /\ SyncInv /\ RedisInv /\ WaitInv /\ AnswerInv

-----------------------------------------------------------------------------
(* Facts about the operators.                                              *)

\* The page of a replica is a non-empty piece of its log, or empty.
LEMMA PageFacts ==
    ASSUME TypeOK, LogInv, NEW r \in Replicas
    PROVE  /\ Page(r, current_id) \in Seq(Ops) /\ Len(Page(r, current_id)) <= PageSize
           /\ current_id + Len(Page(r, current_id)) <= MaxId + 1
           /\ \A j \in 1..Len(Page(r, current_id)) :
                Page(r, current_id)[j] = log[current_id + j - 1]
<1> DEFINE n == Least(PageSize, len[r] - current_id)
<1> USE SlaveAssumption
<1>1. CASE current_id >= len[r]
  <2>1. Page(r, current_id) = <<>>
    BY <1>1 DEF Page
  <2> QED
    BY <2>1 DEF TypeOK
<1>2. CASE ~(current_id >= len[r])
  <2>1. /\ current_id \in Nat /\ len[r] \in Nat /\ len[r] <= MaxId + 1
        /\ current_id < len[r]
    BY <1>2 DEF TypeOK
  <2>2. n \in Nat /\ n <= PageSize /\ current_id + n <= len[r]
    BY <2>1 DEF Least
  <2>3. \A j \in 1..n : log[current_id + j - 1] \in Ops
    <3> SUFFICES ASSUME NEW j \in 1..n PROVE log[current_id + j - 1] \in Ops
      OBVIOUS
    <3>1. current_id + j - 1 \in Ids /\ current_id + j - 1 < len[r]
      BY <2>1, <2>2 DEF Ids
    <3> HIDE DEF n
    <3> QED
      BY <3>1 DEF LogInv, TypeOK
  <2>4. Page(r, current_id) = [j \in 1..n |-> log[current_id + j - 1]]
    BY <1>2 DEF Page
  <2> HIDE DEF n
  <2>5. Page(r, current_id) \in Seq(Ops) /\ Len(Page(r, current_id)) = n
    BY <2>2, <2>3, <2>4
  <2> QED
    BY <2>1, <2>2, <2>4, <2>5
<1> QED
  BY <1>1, <1>2

\* A page that is not empty begins with the entry that current_id names.
LEMMA HeadFacts ==
    ASSUME TypeOK, SyncInv, pc = "apply"
    PROVE  /\ page # <<>> /\ Head(page) \in Ops /\ Head(page) = log[current_id]
           /\ current_id \in Ids /\ log[current_id] # None
           /\ Tail(page) \in Seq(Ops) /\ Len(Tail(page)) = Len(page) - 1
           /\ \A j \in 1..Len(Tail(page)) : Tail(page)[j] = page[j + 1]
<1>1. page # <<>> /\ page \in Seq(Ops) /\ current_id \in 0..(MaxId + 1)
  BY DEF SyncInv, TypeOK
<1>2. /\ Head(page) \in Ops /\ Tail(page) \in Seq(Ops) /\ Len(Tail(page)) = Len(page) - 1
      /\ \A j \in 1..Len(Tail(page)) : Tail(page)[j] = page[j + 1]
  BY <1>1, HeadTailProperties
<1>3. Head(page) = page[1] /\ Len(page) \in Nat \ {0}
  BY <1>1
<1>4. page[1] = log[current_id + 1 - 1] /\ current_id + 1 - 1 = current_id
  BY <1>1, <1>3 DEF SyncInv
<1>5. current_id \in Ids
  BY <1>1, <1>3, SlaveAssumption DEF SyncInv, Ids
<1> QED
  BY <1>1, <1>2, <1>3, <1>4, <1>5, SlaveAssumption

\* The log only grows, so what was right stays right.
LEMMA RightStays ==
    ASSUME \A id \in Ids : log[id] # None => log'[id] = log[id], NEW f, NEW h, Right(f, h)
    PROVE  Right(f, h)'
  BY DEF Right

-----------------------------------------------------------------------------
(* One step, conjunct by conjunct.                                         *)

\* Spending keeps the budget a budget.
LEMMA SpendType ==
    ASSUME budget \in [{"crash", "stop", "error"} -> Nat],
           NEW what \in {"crash", "stop", "error"}, Spend(what)
    PROVE  budget' \in [{"crash", "stop", "error"} -> Nat]
  BY DEF Spend

LEMMA TypeStep ==
    ASSUME IInv, [Next]_vars
    PROVE  TypeOK'
<1> USE SlaveAssumption
<1>0. TypeOK /\ LogInv /\ SyncInv
  BY DEF IInv
<1>a. <<>> \in Seq(Ops) /\ Len(<<>>) <= PageSize
  OBVIOUS
<1>1. ASSUME NEW r \in Replicas, NEW op \in Uploads, Choose(r, op) PROVE TypeOK'
  BY <1>0, <1>1 DEF Choose, TheMasters!Choose, TypeOK, Ids, store, sync, serving
<1>2. ASSUME NEW r \in Replicas, Learn(r) PROVE TypeOK'
  BY <1>0, <1>2 DEF Learn, TheMasters!Learn, TypeOK, Ids, store, sync, serving
<1>3. CASE SlaveStart \/ SyncConnect \/ HandlerConnect
  <2>1. /\ pc' \in {"off", "connect", "ended", "sleep", "apply"}
        /\ sync_ok' \in BOOLEAN /\ serves' \in BOOLEAN /\ shared_ok' \in BOOLEAN
        /\ UNCHANGED <<masters, store, current_id, page, mixed, download, budget>>
    BY <1>0, <1>3 DEF SlaveStart, SyncConnect, HandlerConnect, TypeOK, serving, sync
  <2>. QED
    BY <1>0, <2>1 DEF TypeOK, masters, store
<1>4. CASE SlaveCrash
  <2>1. ThreadIdle \in Downloads
    BY DEF ThreadIdle, Downloads
  <2>2. budget' \in [{"crash", "stop", "error"} -> Nat]
    BY <1>0, <1>4, SpendType DEF SlaveCrash, TypeOK
  <2>3. download' \in [Threads -> Downloads]
    BY <1>4, <2>1 DEF SlaveCrash
  <2>4. /\ pc' = "off" /\ current_id' = 0 /\ page' = <<>>
        /\ sync_ok' = FALSE /\ serves' = FALSE /\ shared_ok' = FALSE /\ mixed' = FALSE
        /\ UNCHANGED <<masters, store>>
    BY <1>4 DEF SlaveCrash
  <2>5. /\ log' \in [Ids -> Ops \cup {None}] /\ len' \in [Replicas -> 0..(MaxId + 1)]
        /\ redis_up' \in BOOLEAN /\ redis' \in [Files -> Hosts \cup {None}]
    BY <1>0, <2>4 DEF TypeOK, masters, store
  <2>6. current_id' \in 0..(MaxId + 1)
    BY <2>4
  <2> QED
    BY <2>2, <2>3, <2>4, <2>5, <2>6, <1>a DEF TypeOK
<1>5. CASE RedisStop
  <2>1. budget' \in [{"crash", "stop", "error"} -> Nat]
    BY <1>0, <1>5, SpendType DEF RedisStop, TypeOK
  <2> QED
    BY <1>0, <1>5, <2>1 DEF RedisStop, TypeOK, masters
<1>6. CASE RedisStart
  BY <1>0, <1>6 DEF RedisStart, TypeOK, masters, sync, serving
<1>7. ASSUME NEW r \in Replicas, Ask(r) PROVE TypeOK'
  BY <1>0, <1>7, PageFacts DEF Ask, TypeOK, masters, store, serving
<1>8. CASE Apply
  <2>1. /\ Head(page) \in Ops /\ Tail(page) \in Seq(Ops) /\ Len(Tail(page)) = Len(page) - 1
        /\ current_id \in Ids
    BY <1>0, <1>8, HeadFacts DEF Apply
  <2>2. Head(page).hosts \in Hosts /\ Head(page).file \in Files
    BY <2>1 DEF Ops
  <2>3. current_id' \in 0..(MaxId + 1) /\ Len(page) \in Nat
    BY <1>0, <1>8, <2>1 DEF Apply, NextEntry, Ids, TypeOK
  <2>4. redis' \in [Files -> Hosts \cup {None}]
    BY <1>0, <1>8, <2>2 DEF Apply, TypeOK
  <2>5. page' \in Seq(Ops) /\ Len(page') <= PageSize
    BY <1>0, <1>8, <2>1, <2>3, SlaveAssumption DEF Apply, NextEntry, TypeOK
  <2>6. pc' \in {"off", "connect", "ended", "sleep", "apply"}
    BY <1>8 DEF Apply, NextEntry
  <2> QED
    BY <1>0, <1>8, <2>3, <2>4, <2>5, <2>6 DEF Apply, TypeOK, masters, serving
<1>9. CASE ApplyError
  <2>1. budget' \in [{"crash", "stop", "error"} -> Nat]
    BY <1>0, <1>9, SpendType DEF ApplyError, TypeOK
  <2> QED
    BY <1>0, <1>9, <2>1 DEF ApplyError, BreakOff, TypeOK, masters, store, serving
<1>10. CASE ApplyNull
  <2>1. /\ Tail(page) \in Seq(Ops) /\ Len(Tail(page)) = Len(page) - 1
        /\ current_id \in Ids
    BY <1>0, <1>10, HeadFacts DEF ApplyNull
  <2>2. current_id' \in 0..(MaxId + 1) /\ Len(page) \in Nat
    BY <1>0, <1>10, <2>1 DEF ApplyNull, NextEntry, Ids, TypeOK
  <2> QED
    BY <1>0, <1>10, <2>1, <2>2 DEF ApplyNull, NextEntry, TypeOK, masters, store, serving
<1>11. ASSUME NEW t \in Threads, NEW f \in Files, Send(t, f) PROVE TypeOK'
  <2>. DEFINE d == [at |-> "wait", file |-> f, answer |-> IF shared_ok THEN redis[f] ELSE None,
                    owed |-> sync_ok /\ Passed(f), alone |-> TRUE]
  <2>1. d \in Downloads
    <3>1. (IF shared_ok THEN redis[f] ELSE None) \in Hosts \cup {None}
      BY <1>0 DEF TypeOK
    <3>2. (sync_ok /\ Passed(f)) \in BOOLEAN
      BY DEF Passed
    <3>. QED
      BY <3>1, <3>2 DEF Downloads
  <2>2. download' = [download EXCEPT ![t] = d] /\ mixed' = (mixed \/ Busy # {})
    BY <1>11 DEF Send
  <2>. HIDE DEF d
  <2>3. download' \in [Threads -> Downloads] /\ mixed' \in BOOLEAN
    BY <1>0, <2>1, <2>2 DEF TypeOK
  <2>. QED
    BY <1>0, <1>11, <2>3 DEF Send, TypeOK, masters, store, sync
<1>12. ASSUME NEW t \in Threads, Receive(t) PROVE TypeOK'
  <2>1. PICK a \in Answers(t) :
          download' = [download EXCEPT ![t].at = "done", ![t].answer = a,
                         ![t].owed = @ /\ shared_ok, ![t].alone = ~mixed]
    BY <1>12 DEF Receive
  <2>2. download[t] \in Downloads /\ a \in Hosts \cup {None}
    <3>1. download[t] \in Downloads /\ \A f \in Files : redis[f] \in Hosts \cup {None}
      BY <1>0 DEF TypeOK
    <3>2. download[t].answer \in Hosts \cup {None}
      BY <3>1 DEF Downloads
    <3>3. CASE mixed
      BY <3>1, <3>3 DEF Answers
    <3>4. CASE ~mixed
      <4>1. a = None \/ a = download[t].answer
        <5>1. CASE shared_ok
          BY <3>4, <5>1 DEF Answers
        <5>2. CASE ~shared_ok
          BY <3>4, <5>2 DEF Answers
        <5>. QED
          BY <5>1, <5>2
      <4>. QED
        BY <3>1, <3>2, <4>1
    <3>. QED
      BY <3>1, <3>3, <3>4
  <2>3. (download[t].owed /\ shared_ok) \in BOOLEAN /\ (~mixed) \in BOOLEAN
    OBVIOUS
  <2>4. [download[t] EXCEPT !.at = "done", !.answer = a,
           !.owed = download[t].owed /\ shared_ok, !.alone = ~mixed] \in Downloads
    BY <2>2, <2>3 DEF Downloads
  <2>5. download' = [download EXCEPT ![t] = [download[t] EXCEPT !.at = "done", !.answer = a,
           !.owed = download[t].owed /\ shared_ok, !.alone = ~mixed]]
    BY <1>0, <2>1, <2>2 DEF TypeOK, Downloads
  <2>6. download' \in [Threads -> Downloads]
    BY <1>0, <2>4, <2>5 DEF TypeOK
  <2>. QED
    BY <1>0, <1>12, <2>6 DEF Receive, TypeOK, masters, store, sync
<1>13. ASSUME NEW t \in Threads, Done(t) PROVE TypeOK'
  <2>1. ThreadIdle \in Downloads
    BY DEF ThreadIdle, Downloads
  <2> QED
    BY <1>0, <1>13, <2>1 DEF Done, TypeOK, masters, store, sync
<1>15. CASE Garble
  BY <1>0, <1>15 DEF Garble, TypeOK, masters, store, sync
<1>14. CASE UNCHANGED vars
  BY <1>0, <1>14 DEF vars, TypeOK, masters, store, sync, serving
<1> QED
  BY <1>1, <1>2, <1>3, <1>4, <1>5, <1>6, <1>7, <1>8, <1>9, <1>10, <1>11, <1>12, <1>13, <1>14, <1>15
     DEF Next, SyncStep

\* Only the masters touch the log.
LEMMA LogStep ==
    ASSUME IInv, [Next]_vars
    PROVE  LogInv' /\ \A id \in Ids : log[id] # None => log'[id] = log[id]
<1> USE SlaveAssumption
<1>0. TypeOK /\ LogInv
  BY DEF IInv
<1>1. ASSUME NEW r \in Replicas, NEW op \in Uploads, Choose(r, op)
      PROVE LogInv' /\ \A id \in Ids : log[id] # None => log'[id] = log[id]
  <2>1. /\ len[r] \in Ids /\ log[len[r]] = None /\ op \in Ops /\ op # None
        /\ log' = [log EXCEPT ![len[r]] = op] /\ len' = [len EXCEPT ![r] = @ + 1]
        /\ \A id \in Ids : log[id] # None => log[id].file # op.file
    BY <1>0, <1>1 DEF Choose, TheMasters!Choose, TypeOK
  <2>2. \A id \in Ids : log'[id] = IF id = len[r] THEN op ELSE log[id]
    BY <1>0, <2>1 DEF TypeOK
  <2>3. \A q \in Replicas, id \in Ids : id < len'[q] => id < len[q] \/ id = len[r]
    BY <1>0, <2>1 DEF TypeOK, Ids
  <2>4. \A q \in Replicas, id \in Ids : id < len'[q] => log'[id] # None
    BY <1>0, <2>1, <2>2, <2>3 DEF LogInv
  <2>5. \A i, j \in Ids : log'[i] # None /\ log'[j] # None /\ log'[i].file = log'[j].file => i = j
    BY <1>0, <2>1, <2>2 DEF LogInv
  <2> QED
    BY <2>1, <2>2, <2>4, <2>5 DEF LogInv
<1>2. ASSUME NEW r \in Replicas, Learn(r)
      PROVE LogInv' /\ \A id \in Ids : log[id] # None => log'[id] = log[id]
  <2>1. /\ len[r] \in Ids /\ log[len[r]] # None /\ log' = log
        /\ len' = [len EXCEPT ![r] = @ + 1]
    BY <1>2 DEF Learn, TheMasters!Learn
  <2>2. \A q \in Replicas, id \in Ids : id < len'[q] => id < len[q] \/ id = len[r]
    BY <1>0, <2>1 DEF TypeOK, Ids
  <2> QED
    BY <1>0, <2>1, <2>2 DEF LogInv
<1>3. ASSUME UNCHANGED masters
      PROVE LogInv' /\ \A id \in Ids : log[id] # None => log'[id] = log[id]
  BY <1>0, <1>3 DEF LogInv, masters
<1>4. UNCHANGED masters \/ \E r \in Replicas : Learn(r) \/ \E op \in Uploads : Choose(r, op)
  BY DEF Next, vars, SyncStep, SlaveStart, SyncConnect, HandlerConnect, SlaveCrash, RedisStop,
         RedisStart, Ask, Apply, ApplyError, ApplyNull, Send, Receive, Garble, Done, masters
<1> QED
  BY <1>1, <1>2, <1>3, <1>4

\* What lies behind current_id is in redis, and the page goes on from there.
LEMMA SyncStepLemma ==
    ASSUME IInv, [Next]_vars
    PROVE  SyncInv'
<1> USE SlaveAssumption
<1>0. /\ TypeOK /\ LogInv /\ SyncInv
      /\ LogInv' /\ \A id \in Ids : log[id] # None => log'[id] = log[id]
  BY LogStep DEF IInv
<1>a. Len(<<>>) = 0 /\ current_id \in 0..(MaxId + 1) /\ Len(page) \in Nat /\ page \in Seq(Ops)
  BY <1>0 DEF TypeOK
<1>b. \A j \in 1..Len(page) : /\ current_id + j - 1 \in Ids
                              /\ log[current_id + j - 1] # None /\ page[j] = log[current_id + j - 1]
  <2> SUFFICES ASSUME NEW j \in 1..Len(page)
               PROVE /\ current_id + j - 1 \in Ids
                     /\ log[current_id + j - 1] # None /\ page[j] = log[current_id + j - 1]
    OBVIOUS
  <2>1. page[j] \in Ops /\ page[j] = log[current_id + j - 1]
    BY <1>0, <1>a DEF SyncInv
  <2>2. current_id + j - 1 \in Ids
    BY <1>0, <1>a DEF SyncInv, Ids
  <2> QED
    BY <2>1, <2>2
<1>1. ASSUME UNCHANGED <<pc, current_id, page, redis>>, sync_ok' => sync_ok PROVE SyncInv'
  <2>1. \A id \in Ids : id < current_id => log[id] # None /\ log'[id] = log[id]
    BY <1>0 DEF SyncInv
  <2>2. \A j \in 1..Len(page) : page[j] = log'[current_id + j - 1]
    BY <1>0, <1>b
  <2> QED
    BY <1>0, <1>1, <2>1, <2>2 DEF SyncInv
<1>2. ASSUME page' = <<>>, pc' # "apply", UNCHANGED log,
             pc' \in {"off", "connect"} => current_id' = 0,
             \/ current_id' = 0
             \/ UNCHANGED <<current_id, redis, sync_ok>>
      PROVE SyncInv'
  <2>1. current_id' + 0 <= MaxId + 1
    BY <1>2, <1>a
  <2> QED
    BY <1>0, <1>2, <1>a, <2>1 DEF SyncInv, Ids
<1>3. CASE SlaveStart \/ SyncConnect
  <2>1. page = <<>> /\ current_id \in Nat
    BY <1>0, <1>3 DEF SlaveStart, SyncConnect, SyncInv, TypeOK
  <2>2. page' = <<>> /\ pc' # "apply" /\ UNCHANGED <<log, current_id, redis>>
    BY <1>3, <2>1 DEF SlaveStart, SyncConnect, masters, store
  <2>3. current_id = 0
    BY <1>0, <1>3 DEF SlaveStart, SyncConnect, SyncInv
  <2> QED
    BY <1>2, <2>2, <2>3
<1>4. CASE SlaveCrash
  BY <1>2, <1>4 DEF SlaveCrash, masters
<1>5. ASSUME NEW r \in Replicas, Ask(r) PROVE SyncInv'
  <2>1. /\ page' = Page(r, current_id) /\ pc' = (IF page' = <<>> THEN "sleep" ELSE "apply")
        /\ UNCHANGED <<log, redis, current_id, sync_ok>>
    BY <1>5 DEF Ask, masters, store
  <2>2. /\ current_id + Len(page') <= MaxId + 1
        /\ \A j \in 1..Len(page') : page'[j] = log[current_id + j - 1]
    BY <1>0, <2>1, PageFacts
  <2> QED
    BY <1>0, <2>1, <2>2 DEF SyncInv
<1>6. ASSUME pc = "apply", NextEntry, UNCHANGED <<masters, sync_ok>>,
             sync_ok => redis' = [redis EXCEPT ![Head(page).file] = Head(page).hosts]
      PROVE SyncInv'
  <2>1. /\ page # <<>> /\ Head(page) \in Ops /\ Head(page) = log[current_id]
        /\ current_id \in Ids /\ log[current_id] # None
        /\ page' \in Seq(Ops) /\ Len(page') = Len(page) - 1
        /\ \A j \in 1..Len(page') : page'[j] = page[j + 1]
        /\ log' = log /\ sync_ok' = sync_ok
    BY <1>0, <1>6, HeadFacts DEF NextEntry, masters
  <2>2. current_id' = current_id + 1 /\ pc' = (IF page' = <<>> THEN "sleep" ELSE "apply")
    BY <1>6 DEF NextEntry
  <2>3. current_id' + Len(page') <= MaxId + 1
    BY <1>0, <1>a, <2>1, <2>2 DEF SyncInv
  <2>4. \A id \in Ids : id < current_id' => id < current_id \/ id = current_id
    BY <1>a, <2>2 DEF Ids
  <2>5. \A id \in Ids : id < current_id' => log'[id] # None
    BY <1>0, <2>1, <2>4 DEF SyncInv
  <2>6. ASSUME sync_ok, NEW id \in Ids, id < current_id'
        PROVE redis'[log[id].file] = log[id].hosts
    <3>1. log[id] # None /\ log[id] \in Ops
      BY <1>0, <2>1, <2>5, <2>6 DEF TypeOK
    <3>2. log[id].file \in DOMAIN redis /\ log[current_id].file \in DOMAIN redis
      BY <1>0, <2>1, <3>1 DEF TypeOK, Ops
    <3>3. CASE id = current_id
      BY <1>6, <2>1, <2>6, <3>2, <3>3
    <3>4. CASE id # current_id
      <4>1. log[id].file # log[current_id].file
        BY <1>0, <2>1, <3>1, <3>4 DEF LogInv
      <4>2. redis[log[id].file] = log[id].hosts
        BY <1>0, <2>4, <2>6, <3>4 DEF SyncInv
      <4> QED
        BY <1>6, <2>1, <2>6, <3>2, <4>1, <4>2
    <3> QED
      BY <3>3, <3>4
  <2>7. \A j \in 1..Len(page') : page'[j] = log'[current_id' + j - 1]
    <3> SUFFICES ASSUME NEW j \in 1..Len(page') PROVE page'[j] = log[current_id + 1 + j - 1]
      BY <2>1, <2>2
    <3>1. j + 1 \in 1..Len(page) /\ current_id + (j + 1) - 1 = current_id + 1 + j - 1
      BY <1>a, <2>1
    <3> QED
      BY <2>1, <3>1, <1>b
  <2> QED
    BY <2>1, <2>2, <2>3, <2>5, <2>6, <2>7 DEF SyncInv
<1>7. CASE Apply
  BY <1>6, <1>7 DEF Apply
<1>8. CASE ApplyError
  BY <1>2, <1>8 DEF ApplyError, BreakOff, masters, store
<1>9. CASE ApplyNull
  BY <1>6, <1>9 DEF ApplyNull
<1>10. ASSUME UNCHANGED <<pc, current_id, page, redis>>, sync_ok' => sync_ok PROVE SyncInv'
  BY <1>1, <1>10
<1>11. \/ UNCHANGED <<pc, current_id, page, redis>> /\ (sync_ok' => sync_ok)
       \/ SlaveStart \/ SyncConnect \/ SlaveCrash \/ Apply \/ ApplyError \/ ApplyNull
       \/ \E r \in Replicas : Ask(r)
  BY DEF Next, vars, SyncStep, Choose, Learn, HandlerConnect, RedisStop, RedisStart, Send, Receive,
         Garble, Done, sync, store
<1> QED
  BY <1>1, <1>3, <1>4, <1>5, <1>7, <1>8, <1>9, <1>11

\* redis gets its placements from the log.
LEMMA RedisStep ==
    ASSUME IInv, [Next]_vars
    PROVE  RedisInv'
<1>0. /\ TypeOK /\ SyncInv /\ RedisInv
      /\ \A id \in Ids : log[id] # None => log'[id] = log[id]
  BY LogStep DEF IInv
<1>1. CASE UNCHANGED redis
  BY <1>0, <1>1, RightStays DEF RedisInv
<1>2. CASE Apply
  <2>1. /\ Head(page) \in Ops /\ Head(page) = log[current_id]
        /\ current_id \in Ids /\ log[current_id] # None
        /\ redis' = [redis EXCEPT ![Head(page).file] = Head(page).hosts] /\ log' = log
    BY <1>0, <1>2, HeadFacts DEF Apply, masters
  <2>2. Head(page) = [file |-> Head(page).file, hosts |-> Head(page).hosts]
    BY <2>1 DEF Ops
  <2>3. Right(Head(page).file, Head(page).hosts)
    BY <2>1, <2>2 DEF Right
  <2>4. \A f \in Files : redis'[f] = redis[f] \/ (f = Head(page).file /\ redis'[f] = Head(page).hosts)
    BY <1>0, <2>1 DEF TypeOK
  <2> QED
    BY <1>0, <2>3, <2>4, RightStays DEF RedisInv
<1>3. Apply \/ UNCHANGED redis
  BY DEF Next, vars, SyncStep, SlaveStart, SyncConnect, HandlerConnect, SlaveCrash, RedisStop,
         RedisStart, Ask, Choose, Learn, ApplyError, ApplyNull, Send, Receive, Garble, Done, store
<1> QED
  BY <1>1, <1>2, <1>3

\* What waits for a thread is the placement of the file it asked for.
LEMMA WaitStep ==
    ASSUME IInv, [Next]_vars
    PROVE  WaitInv'
<1> USE SlaveAssumption
<1>0. /\ TypeOK /\ SyncInv /\ RedisInv /\ WaitInv
      /\ \A id \in Ids : log[id] # None => log'[id] = log[id]
  BY LogStep DEF IInv
<1>1. ASSUME Busy' \subseteq Busy, \A t \in Busy' : download'[t] = download[t],
             ~serves' => ~serves \/ Busy' = {}, Busy # {} => (shared_ok' => shared_ok)
      PROVE  WaitInv'
  <2>1. \A t \in Busy : /\ Right(download[t].file, download[t].answer) =>
                              Right(download[t].file, download[t].answer)'
                        \/ t \notin Busy'
    BY <1>0, <1>1 DEF Right
  <2>. QED
    BY <1>0, <1>1, <2>1 DEF WaitInv
<1>2. ASSUME NEW t \in Threads, NEW f \in Files, Send(t, f) PROVE WaitInv'
  <2>1. /\ serves /\ serves' /\ shared_ok' = shared_ok /\ redis' = redis /\ log' = log
        /\ \A u \in Threads \ {t} : download'[u] = download[u]
        /\ download'[t].file = f /\ download'[t].answer = (IF shared_ok THEN redis[f] ELSE None)
        /\ download'[t].owed = (sync_ok /\ Passed(f))
    BY <1>0, <1>2 DEF Send, store, masters, TypeOK
  <2>2. Busy' \subseteq Busy \cup {t}
    BY <2>1 DEF Busy
  <2>3. \A h : Right(f, h) => Right(f, h)'
    BY <2>1 DEF Right
  <2>4. ASSUME shared_ok, sync_ok, Passed(f) PROVE Right(f, redis[f])
    <3>1. PICK id \in Ids : id < current_id /\ log[id] # None /\ log[id].file = f
      BY <2>4 DEF Passed
    <3>2. redis[log[id].file] = log[id].hosts /\ log[id] \in Ops
      BY <1>0, <2>4, <3>1 DEF SyncInv, TypeOK
    <3>3. log[id] = [file |-> f, hosts |-> redis[f]]
      BY <3>1, <3>2 DEF Ops
    <3>. QED
      BY <3>1, <3>3 DEF Right
  <2>5. \/ download'[t].answer = None /\ ~(download'[t].owed /\ shared_ok')
        \/ Right(f, download'[t].answer)
    <3>1. redis[f] = None \/ Right(f, redis[f])
      BY <1>0 DEF RedisInv
    <3>2. CASE ~shared_ok
      BY <2>1, <3>2
    <3>3. CASE shared_ok /\ sync_ok /\ Passed(f)
      BY <2>1, <2>4, <3>3
    <3>4. CASE shared_ok /\ ~(sync_ok /\ Passed(f))
      BY <2>1, <3>1, <3>4
    <3>. QED
      BY <3>2, <3>3, <3>4
  <2>6. ASSUME NEW u \in Busy', u # t
        PROVE \/ download'[u].answer = None /\ ~(download'[u].owed /\ shared_ok')
              \/ Right(download'[u].file, download'[u].answer)
    <3>1. u \in Busy /\ download'[u] = download[u]
      BY <2>1, <2>2, <2>6 DEF Busy
    <3>. QED
      BY <1>0, <2>1, <3>1 DEF WaitInv
  <2>7. \A u \in Busy' : \/ download'[u].answer = None /\ ~(download'[u].owed /\ shared_ok')
                         \/ Right(download'[u].file, download'[u].answer)
    BY <2>1, <2>5, <2>6
  <2>. QED
    BY <2>1, <2>7 DEF WaitInv, Right
<1>3. ASSUME NEW t \in Threads, Receive(t) \/ Done(t) PROVE WaitInv'
  <2>1. /\ \A u \in Threads \ {t} : download'[u] = download[u]
        /\ download'[t].at # "wait" /\ UNCHANGED <<serves, shared_ok>>
    <3>1. CASE Receive(t)
      <4>1. PICK a \in Answers(t) :
              download' = [download EXCEPT ![t].at = "done", ![t].answer = a,
                             ![t].owed = @ /\ shared_ok, ![t].alone = ~mixed]
        BY <3>1 DEF Receive
      <4>2. download'[t].at = "done"
        BY <1>0, <4>1 DEF TypeOK, Downloads
      <4>. QED
        BY <1>0, <3>1, <4>1, <4>2 DEF Receive, TypeOK
    <3>2. CASE Done(t)
      BY <1>0, <3>2 DEF Done, ThreadIdle, TypeOK
    <3>. QED
      BY <1>3, <3>1, <3>2
  <2>2. Busy' \subseteq Busy /\ \A u \in Busy' : download'[u] = download[u]
    BY <2>1 DEF Busy
  <2>. QED
    BY <1>1, <2>1, <2>2
<1>4. CASE SlaveCrash
  <2>1. Busy' = {}
    BY <1>4 DEF SlaveCrash, Busy, ThreadIdle
  <2>. QED
    BY <2>1 DEF WaitInv
<1>5. CASE HandlerConnect \/ RedisStop \/ Garble \/ UNCHANGED serving
  <2>1. Busy' = Busy /\ download' = download
    BY <1>5 DEF HandlerConnect, RedisStop, Garble, serving, Busy
  <2>2. /\ ~serves' => ~serves
        /\ Busy # {} => (shared_ok' => shared_ok)
    BY <1>0, <1>5 DEF HandlerConnect, RedisStop, Garble, serving, WaitInv
  <2>. QED
    BY <1>1, <2>1, <2>2
<1>6. \/ UNCHANGED serving \/ HandlerConnect \/ RedisStop \/ Garble \/ SlaveCrash
      \/ \E t \in Threads : Receive(t) \/ Done(t) \/ \E f \in Files : Send(t, f)
  BY DEF Next, vars, SyncStep, Choose, Learn, SlaveStart, SyncConnect, RedisStart, Ask, Apply,
         ApplyError, ApplyNull
<1> QED
  BY <1>2, <1>3, <1>4, <1>5, <1>6

\* An answer is right when it is taken, and stays right.
LEMMA AnswerStep ==
    ASSUME IInv, [Next]_vars
    PROVE  AnswerInv'
<1>0. /\ TypeOK /\ WaitInv /\ AnswerInv
      /\ \A id \in Ids : log[id] # None => log'[id] = log[id]
  BY LogStep DEF IInv
<1>a. \A f, h : Right(f, h) => \E id \in Ids : log'[id] # None /\ log'[id] = [file |-> f, hosts |-> h]
  BY <1>0 DEF Right
<1>1. ASSUME NEW u \in Threads, download'[u] = download[u], download'[u].at = "done",
             download'[u].alone
      PROVE  Fitting(download[u])'
  <2>1. Fitting(download[u])
    BY <1>0, <1>1 DEF AnswerInv
  <2> QED
    BY <1>a, <1>1, <2>1 DEF Fitting, Right
<1>2. ASSUME \A u \in Threads : download'[u] = download[u] \/ download'[u].at # "done"
      PROVE  AnswerInv'
  BY <1>1, <1>2 DEF AnswerInv
<1>3. ASSUME NEW t \in Threads, Done(t) \/ (\E f \in Files : Send(t, f)) PROVE AnswerInv'
  <2>1. \A u \in Threads : download'[u] = download[u] \/ download'[u].at # "done"
    BY <1>0, <1>3 DEF Send, Done, ThreadIdle, TypeOK
  <2> QED
    BY <1>2, <2>1
<1>5. CASE SlaveCrash
  BY <1>2, <1>5 DEF SlaveCrash, ThreadIdle
<1>6. ASSUME NEW t \in Threads, Receive(t) PROVE AnswerInv'
  <2>1. PICK a \in Answers(t) :
          download' = [download EXCEPT ![t].at = "done", ![t].answer = a,
                         ![t].owed = @ /\ shared_ok, ![t].alone = ~mixed]
    BY <1>6 DEF Receive
  <2>2. /\ t \in Busy /\ \A u \in Threads \ {t} : download'[u] = download[u]
        /\ download'[t].answer = a /\ download'[t].file = download[t].file
        /\ download'[t].owed = (download[t].owed /\ shared_ok) /\ download'[t].alone = ~mixed
    BY <1>0, <1>6, <2>1 DEF Receive, Busy, TypeOK, Downloads
  <2>3. ASSUME ~mixed PROVE Fitting(download[t])'
    <3>1. \/ download[t].answer = None /\ ~(download[t].owed /\ shared_ok)
          \/ Right(download[t].file, download[t].answer)
      BY <1>0, <2>2 DEF WaitInv
    <3>2. a = download[t].answer \/ (a = None /\ ~shared_ok)
      BY <2>3 DEF Answers
    <3>3. \/ a = None /\ ~(download[t].owed /\ shared_ok)
          \/ Right(download[t].file, a)
      BY <3>1, <3>2
    <3>4. CASE a = None /\ ~(download[t].owed /\ shared_ok)
      BY <2>2, <3>4 DEF Fitting
    <3>5. CASE Right(download[t].file, a)
      BY <1>a, <2>2, <3>5 DEF Fitting, Right
    <3> QED
      BY <3>3, <3>4, <3>5
  <2> QED
    BY <1>1, <2>2, <2>3 DEF AnswerInv
<1>7. \/ UNCHANGED download \/ SlaveCrash
      \/ \E t \in Threads : Receive(t) \/ Done(t) \/ \E f \in Files : Send(t, f)
  BY DEF Next, vars, SyncStep, Choose, Learn, SlaveStart, SyncConnect, HandlerConnect, RedisStop,
         RedisStart, Ask, Apply, ApplyError, ApplyNull, Garble, serving
<1> QED
  BY <1>2, <1>3, <1>5, <1>6, <1>7

-----------------------------------------------------------------------------
(* The theorems.                                                           *)

\* The invariant holds at the start.
LEMMA InitIInv == Init => IInv
<1> SUFFICES ASSUME Init PROVE IInv
  OBVIOUS
<1> USE SlaveAssumption
<1>1. /\ log = [id \in Ids |-> None] /\ len = [r \in Replicas |-> 0]
      /\ \A t \in Threads : download[t] = ThreadIdle
      /\ page = <<>> /\ current_id = 0 /\ ~sync_ok /\ ~shared_ok /\ pc = "off"
  BY DEF Init, TheMasters!Init, Ids
<1>2. ThreadIdle \in Downloads /\ ThreadIdle.at = "idle"
  BY DEF ThreadIdle, Downloads
<1>3. TypeOK
  <2>1. log \in [Ids -> Ops \cup {None}] /\ len \in [Replicas -> 0..(MaxId + 1)]
    BY <1>1
  <2>2. download \in [Threads -> Downloads]
    BY <1>2 DEF Init
  <2>3. /\ page \in Seq(Ops) /\ Len(page) <= PageSize
        /\ current_id \in 0..(MaxId + 1)
    BY <1>1
  <2>4. /\ redis_up \in BOOLEAN /\ redis \in [Files -> Hosts \cup {None}]
        /\ pc \in {"off", "connect", "ended", "sleep", "apply"}
        /\ sync_ok \in BOOLEAN /\ serves \in BOOLEAN /\ shared_ok \in BOOLEAN /\ mixed \in BOOLEAN
    BY DEF Init
  <2>5. budget \in [{"crash", "stop", "error"} -> Nat]
    BY DEF Init
  <2> QED
    BY <2>1, <2>2, <2>3, <2>4, <2>5 DEF TypeOK
<1>4. LogInv
  BY <1>1 DEF LogInv, Ids
<1>5. SyncInv
  BY <1>1 DEF SyncInv, Ids
<1>6. RedisInv
  BY DEF Init, RedisInv
<1>7. Busy = {}
  BY <1>1, <1>2 DEF Busy
<1>8. WaitInv
  BY <1>7 DEF WaitInv
<1>9. AnswerInv
  BY <1>1, <1>2 DEF AnswerInv
<1> QED
  BY <1>3, <1>4, <1>5, <1>6, <1>8, <1>9 DEF IInv

\* Every step keeps the invariant.
LEMMA NextIInv == IInv /\ [Next]_vars => IInv'
  BY TypeStep, LogStep, SyncStepLemma, RedisStep, WaitStep, AnswerStep DEF IInv

\* The inductive invariant holds in every state.
LEMMA SpecIInv == Spec => []IInv
  BY InitIInv, NextIInv, PTL DEF Spec

\* SlaveNode.TypeOK: what the slave node keeps is what the code declares, for
\* any number of threads, masters and files.
THEOREM SlaveTypeCorrect == Spec => []TypeOK
<1>1. IInv => TypeOK
  BY DEF IInv
<1> QED
  BY <1>1, SpecIInv, PTL

\* kyrin_slavenode_sync_func: current_id never gets ahead of redis while the
\* context of the thread works, and the page in hand is the part of the log
\* that comes next, whichever masters answer.
THEOREM NothingIsSkipped == Spec => []NothingSkipped
<1>1. IInv => NothingSkipped
  <2> SUFFICES ASSUME IInv PROVE NothingSkipped
    OBVIOUS
  <2>1. DOMAIN page = 1..Len(page)
    BY DEF IInv, TypeOK
  <2> QED
    BY <2>1 DEF IInv, SyncInv, NothingSkipped
<1> QED
  BY <1>1, SpecIInv, PTL

\* DownloadFileRequestHandler::handle_request: as long as requests come one at a
\* time, a download gets the placement of its own file, and gets it if the sync
\* thread had passed the entry and both contexts last.
THEOREM AnsweredRightTheorem == Spec => []AnsweredRight
<1>1. IInv => AnsweredRight
  BY DEF IInv, AnswerInv, Fitting, AnsweredRight, Right
<1> QED
  BY <1>1, SpecIInv, PTL
===============================================================================
