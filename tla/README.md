# KyrinBox in TLA+

TLA+ models of KyrinBox (`src/src/`), a small distributed file store, with the
TLC configurations that check them and the TLAPS proofs about them. Paths below
are relative to `src/src/server/` unless they say otherwise.

## The system

| component | code | state | operations | interacts by |
|---|---|---|---|---|
| Master sentinel | `master/kyrin_master_sentinel*` | `m_status`, `m_leader`, `m_vote`, `m_epoch`, in memory only; the ballot of the sync thread | ping the leader, hold ballots, answer `/GetStatus` and `/GetVote` | HTTP between masters; its two getters are read by the request handlers of the same process |
| Oplog replication | `request_handlers/{upload_file,confirm_oplog,get_oplog}_request_handler.cc` | two leveldb databases, oplog (id -> upload) and userdata (file -> placement); the entry prepared by phase 1 | `/UploadFile` (two-phase commit), `/ConfirmOplog` (prepare, catch up, commit), `/GetOplog` (a page of entries) | HTTP between masters; asks a chunk server for three live chunks |
| Chunk gossip | `chunk/kyrin_chunk_gossiper*` | four lists of kbids, their configs, a timestamp in seconds | rounds of `/GetStatus` to random chunks, registration of callers, adoption of newer statuses | HTTP between chunk servers and from the masters |
| Slave node | `slavenode/*`, `request_handlers/download_file_request_handler.cc` | `current_id` in memory, placements in redis | copy the oplog into redis; `/DownloadFile` | `/GetOplog` of a random master; redis |
| Chunk store | `chunk/kyrin_chunk_server.cc` and four handlers | chunk files, a leveldb of key infos | set and get a key info, write and read a chunk | HTTP from clients |
| Key center, identity filter, LRU cache | `keycenter/*`, `request_filters/*`, `common/kyrin_rsa_helper*`, `common/kyrin_lru_cache.h` | public keys in redis, a cache of them per server | set and get a key; check a signature before a handler runs | HTTP, redis |
| Glue | `base/`, `io/`, `common/` | sockets, database connections, configuration | | used by all |
| Clients, scripts, tests | `sdk/`, `web/`, `ci/`, `test/` | none | | HTTP |

Two facts of the glue shape every model. A server runs one thread with one event
loop per port (`base/kyrin_base_server.cc`), so a port handles one request at a
time, and the requests of different ports, and the background threads, run in
parallel. And a call (`io/kyrin_http_client.cc`) blocks its caller without a
timeout until it is answered or its connection breaks; the caller cannot tell a
lost request from a lost reply.

What is hard in this code: the two threads of a sentinel that share four members
under four separate locks; ballots over tables that differ from master to master;
phase 2 of an upload whose answers nobody reads; a catch-up inside phase 1 that
calls a third master; two databases written one after the other; statuses that
replace one another by comparing seconds; a redis context that fails once and for
all, or is used by four threads at once; a file whose key and whose chunks are set
by different threads, with nothing that ties them together.

What makes each part correct:

* sentinel: at most one leader, a leader is not deposed by late starters, ballots
  end, a follower watches the master it has published, a leader has its own vote;
* replication: the masters copy one log, an acknowledged entry is in it and a
  majority has it, an id is one entry and a file is in it once, ids keep the order of the entries, userdata
  matches the oplog, uploads end;
* gossip: the lists partition the chunks known, a running chunk is not given up
  for a few lost calls, in the end everyone knows who runs;
* slave node: `current_id` never gets ahead of redis, redis catches up with the
  masters, a download is answered with the placement of its file;
* chunk store: the key of an upload opens its file, an upload that had key and file for
  itself is stored whole and under its own key, a download gets one upload and not a mixture, scripts end;
* key center: a request is accepted with a key its issuer has, refused for a cause only, a
  key is published by the administrator only, calls end;
* LRU cache: it holds the pairs used last, within its capacity.

## Modules

| module | models | over |
|---|---|---|
| `MasterRoles` | what the rest of a master sees of its sentinel: `m_status`, `m_leader` and how they may change | |
| `MasterSentinel` | the sync thread and the server thread of every sentinel | EXTENDS `MasterRoles`, implements `RolesSpec` |
| `LexIds` | `KyrinLexicographicallyHelper`: the bytes of an id, `get_zero`, `add_one`, the order of keys | |
| `SharedLog` | the abstract purpose of the replication: one log, prefixes of it at the replicas, acknowledged entries | |
| `OplogReplication` | upload thread and confirm thread of every master, over the roles | EXTENDS `MasterRoles`, `LexIds`; implements `SharedLog` under a stable leader |
| `ChunkGossip` | sync thread and server thread of every chunk server | |
| `SlaveNode` | sync thread and download threads of a slave node, redis | INSTANCE `SharedLog` for the masters |
| `ChunkStore` | the four handler threads of a chunk server, its database and files, and the SDK's uploads and downloads | |
| `LruCache` | `KyrinLruCache`: list and map, `get` and `set` as operators | |
| `KeyCenter` | the two handlers of the key center and its redis, the identity filter and the helper that fetches keys | EXTENDS `LruCache` |
| `MC*` | instances for TLC | |
| `MasterSentinelProofs`, `LexIdsProofs`, `OplogReplicationProofs`, `ChunkGossipProofs`, `SlaveNodeProofs`, `ChunkStoreProofs`, `KeyCenterProofs` | theorems | EXTEND the module they are about |
| `OplogStableProofs` | theorems about the replication under a leader that stays up | EXTENDS `OplogReplicationProofs` |

So the abstract modules are the joints: the sentinel is checked to implement
`MasterRoles`, on which the replication is built; the replication is checked to
implement `SharedLog`, on which the slave node is built.

### MasterSentinel

`pc` follows `sentinel_sync` from one access of a shared member or one HTTP call to
the next; local variables of the function (`leader`, `votes`, `me_vote`, `retry`,
`target` for the loop index, `response`) are variables of the module. `srv` is the
`/GetVote` request in the server thread, which writes epoch, vote and status in
three lock sections and reads the reply in a fourth: `SrvTake`, `SrvSetEpoch`,
`SrvSetVote`, `SrvSetStatus`, `SrvReply`. A call that fails is `NoAnswer` (the callee
is down, or the request or the reply is lost); `HangUp` leaves the callee working
without a caller. `Crash` loses everything, as the code does; `Start` is
`start_sentinel`. Ids of masters are the kbids of the config file, 1..N.
`/GetStatus` has no effect and any answer to it counts as a sign of life, so it is
part of the caller's `PingAnswered`.

### OplogReplication

One record per upload thread and per confirm thread holds the local variables of the
request in hand. `TwoPhaseStart` takes the next id from the master's own oplog and
begins phase 1; a call is answered by `Refuse`, `Prepare`, `CatchUp` or `Commit` at the
callee, each of which is a branch of `ConfirmOplogRequestHandler::handle_request`;
`CatchUp` goes on through `Fetch`, `ApplyOplog`, `ApplyUserdata` (`update_oplog`).
Every put into a database is a step of its own and may fail (`db` of `budget`), and so may
the `remove` that undoes it, whose result nobody looks at (`Undo`), the `exist` before an
upload, which then finds nothing, and `fetch_last_key`, after which the next id is the
first one (`IdsRead`). oplog and userdata survive a crash, everything else does not. An entry is a file and a placement;
ids are numbers, which stand for the eight bytes of `KyrinLexicographicallyHelper`:
`BytesOf` is the string that `add_one` reaches from `get_zero`, and `IdsKeepOrder` and
`AddOneIsNext` say that the databases order the strings as the numbers. The role of a master changes by the steps of `MasterRoles`.
A thread that finds the master in ballot spins on a local copy of the status; the
loop has no side effect, so an optimised build may drop it: `LoopRemoved`.

### ChunkGossip

`m_status` is the record of the four lists, the kbids with a config and the
timestamp. `to_gossip` holds the picks of a round that are left, at most one per list,
taken in the order `Turn` in which `gossip_sync` draws them. The operations of the status
(`CheckCommons`, `Move`, `Initialised`, adoption) are atomic because each holds
`m_status_lock`; what lies between them is not. A call is taken in `Register` and answered
in `Reply`, so it may break, or the callee may learn more, in between. Three failed
attempts make a pick "failed" whatever the fourth one brings. Timestamps are
seconds of `time(NULL)` of the machine that makes them and are compared on others: `Ahead`
says by how many seconds each machine's clock is fast, which does not change, and `Now` is
what it reads. They are only ever compared, so `Tick` renumbers them in order, those that
the clocks are about to read included (`Marks`): the state space stays finite and "same
second" keeps its meaning. `Unreadable` is an answer that `from_string` cannot parse. A
server thread that still handles a call which has broken delays the next call to it and
nothing else, so `CallFails` leaves it free. The server thread is
up before the lists are (`ServedEarly`); a call in between is answered from empty lists.

### SlaveNode

The masters are `SharedLog` with the check of `/UploadFile` that a file is new.
`current_id` and `page` are locals of the sync thread. hiredis does not reconnect:
`sync_ok` and `shared_ok` say whether the context of the sync thread and the one of
the download threads still work; each connects its own, at its own time (`SyncConnect`,
`HandlerConnect`). `ApplyError` is an entry that does not serialise or that redis refuses.

`redisCommand` on the shared context is not atomic: it appends the command to one buffer,
writes it out and reads from another. While one thread is in it at a time, it answers with
what redis holds (`Send`, `Receive`). Once two threads have been in it together (`mixed`),
a command may have been sent twice or not at all, and a reply be left over for whoever comes
next: from then on until the node is restarted every `Receive` may return any reply, or
none, and the context may fail (`Garble`). Corrupted memory is not modelled.

### ChunkStore

Per thread, `inbox` holds the clients whose request waits at the port and `serving` the
one that is handled. A handler is as many actions as it has accesses to the disk that
other threads can see: `SetPut` and `SetCreate` (put of the info, then `fopen(.., "wb")`),
`Open` and `Write` or `Read` (the `fopen` that may fail, then the transfer up to
`fclose`), `GetKey`. `Refuse` is the identity filter, whose reasons do not matter here:
`KeyCenter` is about them. Results of `put` and `fwrite` that the code ignores are I/O errors
after which the client is told "ok". The clients are `upload_file` and `download_file`
of `sdk/python_sdk/kyrinbox.py`; a script that is broken off (`Kill`) leaves its request
with the server. Chunks have one length: a last chunk that is shorter makes no
difference to what is read, unless uploads mix. `alone`, `calm` and `whole` remember who
overlapped with whom and are read by the properties only.

The database is looked up by `account + file_name`, so account "a" with file "bc" and
account "ab" with file "c" share an info although their chunk files differ: a client has a
key (`KeyOf`) and a file (`FileOf`), and two clients `Meet` when they share either. `alone`
and `calm` speak of clients that meet nobody else.

### KeyCenter and LruCache

`store` is the redis of the key center. Its two threads, one for `/SetKyrinKey` and one
for `/GetKyrinKey`, have a `redisContext` each, which is opened once: `context` says which
still works. A publication is `Authenticate` (GET of the administrator's key and the
comparison) and `SetKey` (SET, where a reply of NULL counts as "ok") or `RefuseKey` (redis
answers SET by an error). A filtered request is `Arrive` (the lookup in the cache), `Ask`
(the get thread takes the call), `Answer` or `AskFails`. A signature fits the public key of
the pair it was made with, which is all that RSA and the digest are here; an error text
taken for a key fits nothing and is `NoKey`. `seen` is history: the keys the issuer had
while the request was under way, and `NoKey` when the key center could not have been asked.
The administrator's key is in redis from the start, where `ci/reset_keycenter.py` puts it.

`KyrinRsaHelper` looks in the cache and never sets anything in it, so `m_cache` stays
empty; `Remembered` is how it would be filled, and with it `AcceptedWasCurrent` fails, as
nothing invalidates an entry. The cache itself is checked on its own: `CacheKeepsLastUsed`
tries every sequence of `CacheCalls` calls from the empty cache (`CachesAfter`) against
`Finds` and `LastSet`, which are told from the calls alone: a key is found when fewer than
`Capacity` other keys were used since it was.

## Runs

| run | bounds | shows |
|---|---|---|
| `sentinel_startup` | 3 masters, 1 epoch, nothing lost, all starts interleaved | at most one leader; no late starter deposes it; `RolesSpec` implemented |
| `sentinel_faults` | 2 masters, 2 epochs, 2 lost calls, 2 crashes, 4 starts | types, `BallotIsConsensus`, `WatchesItsLeader`, whatever fails; `LeaderVotesForItself` until a call is lost; two leaders take two faults, one of them a lost call |
| `sentinel_false_alarm_live` | 3 settled masters, 3 lost pings | after a running leader was given up, no two lead, ballots end and a leader emerges |
| `sentinel_no_leader` | 3 masters starting | refutes that a cluster that has settled is led: a cycle of followers |
| `oplog_stable` | 3 masters, a stable leader, ids 0..2 of two bytes, 3 files, 2 lost requests, 1 crash | the log is one: `LogsAgree`, `NoGaps`, `IdsKeepOrder`, `FileOnce`, `AheadOnlyInFlight`, `MajorityHolds`, `UserdataMatches`, `ImplementsSharedLog` |
| `oplog_faults` | 2 masters that both may lead, any two faults, of whatever kinds | types, `PreparedIsAnEntry`, whatever fails |
| `oplog_stale_prepare` | settled masters, one lost request, one lost `/GetOplog` | refutes that an acknowledged entry is never contradicted |
| `oplog_wedged` | settled masters, one crash, one lost request | refutes that every upload ends |
| `gossip` | 3 chunk servers: a seed whose clock is a second fast, one that may crash and come back, one that never runs; 2 crashes, lost calls or damaged answers | the lists stay a partition, roles are kept, no false death, in the end everyone knows who runs |
| `slave_node` | 2 masters, 2 uploads, 2 download threads, 1 crash, 1 stop of redis, 1 refused write | nothing skipped, downloads right until two overlap, redis catches up |
| `chunk_store` | 1 file with uploads of 2 and of 1 chunk and 1 download, an upload of another file under the same key, 1 crash, 1 I/O error | the key of an upload opens its file, a lone upload is kept, a download gets one upload, scripts end |
| `key_center` | a user and the administrator, 2 keys, 2 filtering threads, 2 publications, 1 fault, 1 restart; all sequences of 6 calls on a cache of 2 pairs | accepted with a current key, refused for a cause, published by the administrator, calls end; the cache keeps what was used last |

Why the bounds are enough. Three masters is the least number in which a quorum is
not everyone; two epochs are an old one and a newer one; three lost pings are a
false alarm. Three ids with two lost requests let a follower miss entries and catch up
behind a crash; two bytes of two values make ids 1 to 2 carry. Two faults in the gossip
reach a retry that succeeds, and a fourth attempt that does after a restart, but not a false
alarm (three lost calls would), which is what `NoFalseDeath` is about; a crash with a restart reaches death and revival, and the third
chunk is what a list has to be told of by others. Two uploads of different length overlap
in every way, also after each other; files do not interact but for the threads and a key
that they share. Two keys
and two publications replace the user's key or the administrator's own under a request
that is being filtered; six calls fill, overfill and reorder a cache of two. In
`oplog_stable` a page is longer than what a follower can miss, see the observations. The
settled initial states of `MCSentinel`, `MCOplog` and `MCGossip` are states that a start
without faults, and in `MCGossip` a round that finds the third chunk dead, reach; they let
the bounds go to the faults. What the bounds leave open for the safety properties, the
proofs below close, within the hypotheses they name.

`sentinel_faults`, `chunk_store` and the `oplog_*` runs do not check
deadlock: their bounded systems stop when ids, uploads or faults are used up, and an
upload thread may really hang. In the other runs deadlock is checked.

### Fairness

Weak fairness of a thread: the operating system keeps running it. Strong fairness of
an answer (`SrvAnswer`, `SrvStep`, `Ask`, and `FilterStep` of the key center): a caller that
calls again and again is taken by the event loop of the callee again and again, and of
several callers none is passed over for ever. Strong fairness of `PickRound` in the gossip:
picks are random, so a chunk that is in a list again and again is picked again and again;
it is stated for the chunks of `Awake`, the ones that run in the end. Weak fairness of
`Start`, `SlaveStart`, `SyncConnect` and `Initialize`: processes are restarted and start-up code runs to
its end. In `ChunkStore`, and for the publications of the key center, weak fairness of each
thread is enough, because clients are finitely many. Nothing is assumed of faults, of the
masters' `Learn`, of redis coming back, or of chunk servers and the key center being
restarted. A process that stops answering and leaves its connections open is outside of these
assumptions: no call has a timeout, and its callers wait for ever.

### What the refuted claims show

* `sentinel_no_leader`: a follower takes any answer of the master it follows for a
  sign of life. Masters that start one after the other can end up following one
  another in a cycle, each alive, none leading, for ever.
* `oplog_stale_prepare`: a follower prepares an upload, and phase 2 of it is lost there.
  Phase 1 of the next upload writes `m_state_id` before the follower has caught up; the
  `/GetOplog` of the catch-up is lost, so it answers "bad" and `m_state_data` is still the
  first upload's. Phase 2 goes to every master whatever it answered, so the follower commits
  the first upload's data under the second one's id, and the second is acknowledged.
* `oplog_wedged`: a follower behind its leader that has just restarted names itself
  as the leader, so its catch-up asks itself, without end, for an id it lacks; the
  leader's upload thread waits for it.

### Further observations

Reproducible with other constants, not among the runs:

* `OplogReplication` with `PageSize = 1`, `MaxId = 3`: `update_oplog` asks for every
  page from the id it began with, so a follower that misses more than a page writes
  the first page again under later ids (`AckedNotContradicted` fails).
* The answers of phase 2 are ignored: an upload is acknowledged with no follower
  having put it, so it is on one disk. What a majority does have is what phase 1 prepared,
  which is in memory: `MajorityHolds` says so and ends with the first crash.
* With one lost reply `AckedNotContradicted` fails in a second way: an upload is given up
  because the answer "ok" of a follower is lost, the next one takes the same id, its phase 1 is
  lost at that follower, and phase 2, which names only the id, makes it commit the first one.
* `ChunkStore` without `alone` in `UploadIsKept`: a chunk of a script that was broken
  off is written into the file that the next upload has just created; the next upload
  ends with "Success" and the file is a mixture. So is an upload whose key another file's
  upload replaces, when account and name make up the same text. Without `errors = 0`,
  `KeyOpensFile` fails as well: a file is created although its info was not put, and the key
  that is there opens another upload's chunks. And without its last conjunct: a crash between
  `SetPut` and `SetCreate` leaves the new key beside the old chunks for ever, which cannot be
  decrypted any more.
* `SlaveNode` without `alone` in `AnsweredRight`: two downloads that overlap once may shift
  the replies of all later ones, also of those that have the context for themselves.
* Two masters may lead at once after a crash and a lost call: epochs are not stored, so a
  master that restarts may be elected in one that is over. Two lost calls are enough too, as
  a reply that is lost leaves a vote counted at one master only; crashes alone never are.
  `TwoLeadersTakeTwoFaults` is what is left of two masters, and a theorem.
* `AtMostOneLeader` fails for three masters with one lost call, and for four masters without
  any fault (`-simulate` finds it, in over a hundred steps). Up to three it is a theorem.
  `LeaderIsStable` bears two lost calls.
* `OplogReplication` with `N = 4` and three lost requests only: `LogsAgree` fails. A phase 1
  that is refused by too many leaves its entry prepared at one follower, and the leader
  needs three of four only: the next upload under that id passes this follower by in phase
  1 and commits at it in phase 2. Three masters or fewer cannot show it, see the proofs.
* A redis context that fails makes a slave node skip entries silently until it is
  restarted; the properties of `SlaveNode` make that exception and no other.
* The same at the key center: after redis was restarted both contexts stay broken until the
  key center is restarted. Until then every request is refused, and a `/SetKyrinKey` that
  was past its GET is answered "ok" though redis never saw it. (The handlers also pass the
  NULL reply to `freeReplyObject`, which newer versions of hiredis accept.)
* Where `char` is unsigned (`CharSigned = FALSE`) `add_one` never carries: the id after 256
  entries is the first one again (`IdsKeepOrder` fails).

## Proofs

`tlapm` proves the theorems below for every value of the constants that the ASSUMEs allow:
any number of processes, files and faults. Each module has an inductive invariant `IInv`,
one lemma per action or per conjunct, and ends in `Spec => []P` by PTL. Every conjunct was
first checked by TLC on the instance of the run.

`MasterSentinelProofs`: `TypeCorrect`, `BallotTheorem`, `WatchTheorem` and
`RolesTheorem`, and `SentinelImplementsRoles`: every step of the sentinel is a step of the
roles or leaves them alone. The invariant is `TypeOK /\ BallotIsConsensus /\ CallsMatch /\
WatchesItsLeader`. `CallsMatch` (what a server thread handles is what its caller waits for) is
needed for `TypeOK`, because a reply moves the caller
from "wait"; `BallotIsConsensus` is needed for `WatchesItsLeader`, because it is what
keeps a follower from being in the middle of a ballot, where its local leader is -1;
and for the roles, because `Settle` starts from Consensus.

Two of the other theorems are about masters that do not crash. `LeaderIsStableTheorem`, for any number
of them and at most two lost calls, has the invariant `Calm`: nobody has been given up, because
a failed attempt of `/GetStatus` is a lost call and four are needed, so there is one epoch, no
ticket is newer than it, and no server thread ever takes a master back into ballot.
`OneLeaderTheorem`, without lost calls and for `N <= 3`, adds `Honest` and, for three masters,
`Three`. `Honest` says what a vote that is counted, or is on its way, still tells of its voter:
nobody votes for a smaller master than itself, and who has voted for the largest one stays with
it. `Three` is about the one change of mind that is left among three masters: 1 votes for 2 only
once it has heard 2's vote, and 2 counts on 1 only while both stay with 2. From four masters on
there are more of them, and the theorem is false.

`TwoLeadersTheorem`, for `N <= 2` and any number of crashes, restarts and lost calls, has the
invariant `TwoInv`, which distinguishes what has failed so far:

- until a call is lost, `Two` holds, whatever crashes: only one of the two masters may be
  elected by what it leads with, has in its table or is about to receive (`May1`, `May2`). A
  reply carries the vote of its moment; `Table1`, `Table2` and `Stale1` say which votes of an
  earlier round a table may still hold, and `Orphan` that a server thread whose caller has
  crashed speaks to nobody;
- while nothing crashes, `TwoStays` holds as well: 2 votes for itself throughout, so nobody
  ever sees it vote for 1;
- the first lost call, without a crash, takes away `Two` or `TwoStays` and not both: one of 1
  that is lost leaves 2 with its own vote, and one of 2 that is lost does no harm while 2 has
  it (`LostCall`). Each of them alone excludes two leaders.

`LeaderVotesTheorem`, for `N = 2`, is read off `Two`: until a call is lost, one that leads has
its own vote. After a crash and a lost call, or two lost calls, both may lead. The theorem is about two
masters only because of three one lost call is enough.

`LexIdsProofs`: `AddOneIsNext`, for any base and width: where `char` is signed, `add_one` of
an id that is not the last one comes after it, and no id lies between. By the byte at which
the carry stops: all bytes behind it are the largest before and zero after. And
`CountingKeepsOrder`: ids counted from the first one with `add_one` come in the order in which
they are counted, for as many as there are. The induction over the count is carried by a set of
numbers that holds 0 and with each number the next (`CountingUp`, from the well-foundedness of
the naturals), because the induction theorems of the library cannot be instantiated.

`OplogReplicationProofs`: `OplogTypeCorrect` and `PreparedTheorem`, the
invariants of `oplog_faults`. `IInv` adds what each thread may hold at which place
(`UploadOK`, `ConfirmOK`): a thread with a request has an entry, one that catches up has a
page with something in it, one whose master is down has nothing. `IdsKeepOrderTheorem` shows
that `BytesOf` counts (that the recursive function exists, again by `CountingUp`) and applies
`CountingKeepsOrder`; it needs `CharSigned` and `MaxId < Cardinality(Id)`, without which the
ids do wrap around.

`OplogStableProofs`: `AgreementTheorem`, `NoGapsTheorem`, `AheadTheorem`, `UserdataTheorem`,
`FileOnceTheorem`, `MajorityHoldsTheorem` and `RefinementTheorem` (`ImplementsSharedLog`),
under `Stable`: one eligible master that does not crash, no doubts about roles, no lost replies, pages or failed
calls of a database, a page longer than the log, and at most three masters. Requests may be lost, the
others may crash and come back, as often as they like. The invariant says

- `Quiet`: nobody else leads, uploads or calls;
- `PhaseInv`: the entry in hand is the leader's next one until the leader puts it;
- `LogInv`: every oplog is the leader's as far as both go, without gaps, and at most the
  entry in hand longer. `LogsAgree`, `NoGaps` and `AheadOnlyInFlight` are read off it;
- `CatchInv`: who catches up has in hand what it lacks of the leader's oplog, which is why
  the page must be long enough (`WholePage`);
- `PrepInv`: an id that is prepared is old, or it is the one in hand. Then the entry in hand
  is prepared under it and enough masters have prepared it. It is what makes phase 2 write
  the right entry, and where `N <= 3` is used: of three masters one that prepared is, with
  the leader, a majority, so the leader does not give the entry up. From four on it may.

The refinement adds that the abstract log, the union of the oplogs, only grows. Userdata and
files need a further invariant (`FileInv`): at the leader no file of an entry in hand is
in userdata, and every master's userdata is its oplog's except between the two puts.
`MajorityHolds` rests on `Backing`: while no master has crashed, once phase 1 has counted an
answer there is a follower that has the entry, prepared or put, and it keeps it until the
upload ends. With the leader it is a majority of three.

`ChunkGossipProofs`: `GossipTypeCorrect`, `ListsTheorem` (`ListsArePartition`) and
`RolesTheorem` (`RolesKept`). The partition must hold of every answer that is under way as
well, since it may be adopted (`StatusInv`), and a status without its dead lists filled
until the sync thread runs (`ThreadInv`), because `initialize` leaves those as they are.
All four are about `SettledSpec`: any cluster to begin with in which the chunk servers that
run are asleep between two rounds, know whatever they know and have not given up one that
runs; a cluster that has never been started is one (`SpecIsSettled`), and so is the one of the
run, where chunk servers outside `Crashable` do run.
`NoFalseDeathTheorem`, while there are at most two faults among any number of
chunk servers, rests on `DeathInv`: no status and no answer under way lists a chunk among the
dead that runs and goes on running (`Steady`), and a thread that calls one has counted only
calls that were lost (`Patient`). Three lost calls of one round are a false death.

`SlaveNodeProofs`: `SlaveTypeCorrect`, `NothingIsSkipped` and `AnsweredRightTheorem`
(the three invariants of `slave_node`). `NothingSkipped` and `AnsweredRight` are not
inductive; `IInv` adds

- `LogInv`: every master has a prefix of the log, and no file is in the log twice. Without
  the second half a SET of a later entry could overwrite what an earlier one put in redis.
- `SyncInv`: the page in hand is the piece of the log that starts at `current_id`, it does
  not run past the last id, and `pc` is "apply" exactly while something is left of it. It
  is what makes `Apply` write the entry that `current_id` names.
- `RedisInv`: a placement in redis is in the log, so that a GET cannot return another one.
- `WaitInv`: what redis has answered to a thread that waits is a placement of its file, or
  nothing, and that not if the sync thread had passed the file and the context lasts.
- `AnswerInv`: what a thread was given before any two overlapped is right and stays right as
  the log grows.

`ChunkStoreProofs`: `StoreTypeCorrect`, `KeyOpensFileTheorem`, `UploadIsKeptTheorem` and
`ReadsOneUploadTheorem`, all four invariants of `chunk_store`, whichever names collide. `IInv`
adds

- `RequestInv`, `UploadInv`, `DownloadInv`: a request is at one place, and the place tells
  what its script waits for unless the script was broken off;
- `KeyInv`: a chunk is written or read only where a file is, and a key is kept as itself;
- `StoreInv`: while an upload is `alone` nobody else is at work on its key or its file,
  broken-off scripts included, and the file is exactly the chunks it has been answered for;
- `OpenInv`, `Opens`: the key that is set is of an upload that has begun, and once its file is
  created there is nothing in it but chunks of this upload;
- `CalmInv`: what a calm download has read is a beginning of such a file.

`KeyCenterProofs`: `AcceptedTheorem`, `RefusedTheorem` and `PublishTheorem`, for any number of
users, keys, threads and publications. `SeenInv` ties `seen` to what redis holds now,
`VerdictInv` keeps the verdict with its reason, and `SetInv` says that one call at a time is
between GET and SET: so the administrator's key it was compared with is still the key.
`CacheTheorem` and `CacheKeepsLastUsedTheorem` are about the LRU cache, for every capacity, every
set of keys and every sequence of calls of any length: each call keeps `Fits` (list and map name
the same pairs, within the capacity), `ByUse` (the list is in the order of the last uses) and
`Newest` (each value is the one set last), from which what the cache finds is told by the calls.
That `CachesAfter` and `Hits`, which are recursive functions, are what their definitions say is
shown by `CountingUp` as well.

The assumptions are the ASSUMEs of the modules (`SentinelAssumption`, `OplogAssumption`,
`IdAssumption`, `GossipAssumption`, `SlaveAssumption`, `ChunkStoreAssumption`,
`KeyCenterAssumption`, `CacheAssumption`), which TLC evaluates in every run, and, where they
are named, `Stable`, `CharSigned` and the bounds on faults without which the property is false.

Only model-checked: liveness, which is out of the provers' reach (`EveryoneSettles`,
`ALeaderEmerges`, `EveryoneKnowsWhoRuns`, `SlaveCatchesUp`, `ClientsEnd`, `CallsEnd`). Every
invariant, every action property and the refinements of the passing runs are stated by a
theorem.

## Not modelled

Sockets, headers, encodings, digests, RSA, logging and the reading of config files: input
and output without state the other parts depend on. The reconnect of the database
wrapper, which deletes a connection other threads may use: undefined behaviour beyond
a choice of outcomes. The event-based HTTP client, which has no caller. Clients other than
`upload_file` and `download_file`, and scripts.

## Plan

Modelled and proved first, because the rest depends on it: sentinel, replication; then
gossip, slave node, chunk store, key center. What is left:

1. `ChunkStore` composed with `SlaveNode`: the path of a file from its upload at a master
   to its download, through one client.
2. The hazards that no property covers, which `PROJECT.json` lists with the reason. A follower
   that misses more than a page, and a deposed leader that finishes its upload beside the new
   one, break agreement as it stands: what is to be found is the weaker property that
   survives them.
3. What holds of the oplogs of four and more masters, where a leader may give up an entry
   that others have prepared.
