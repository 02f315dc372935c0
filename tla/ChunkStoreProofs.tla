-------------------------- MODULE ChunkStoreProofs ---------------------------
(***************************************************************************)
(* Theorems about ChunkStore: its safety properties, for any number of     *)
(* files, uploads, downloads, crashes and errors.                          *)
(***************************************************************************)
EXTENDS ChunkStore, TLAPS

At(h, c) == c \in inbox[h] \/ serving[h] = c

\* Who waits where: a request is at one place, and the port tells what its client waits
\* for unless the client is gone.
RequestInv ==
    /\ \A h \in Threads : serving[h] \notin inbox[h]
    /\ inbox["set"] \subseteq Uploads /\ inbox["upload"] \subseteq Uploads
    /\ inbox["get"] \subseteq Downloads /\ inbox["download"] \subseteq Downloads
    /\ serving["set"] \in Uploads \cup {None} /\ serving["upload"] \in Uploads \cup {None}
    /\ serving["download"] \in Downloads \cup {None} /\ serving["get"] = None
UploadInv == \A u \in Uploads :
    /\ At("set", u) => upload[u].at \in {"set", "gone"} /\ ~At("upload", u)
    /\ At("upload", u) => upload[u].at \in {"chunk", "gone"} /\ upload[u].next < Length[u]
    /\ upload[u].at = "chunk" => At("upload", u)
DownloadInv == \A d \in Downloads :
    /\ download[d].at = "new" => download[d].got = <<>>
    /\ d \in inbox["get"] => download[d].at = "key" /\ download[d].got = <<>>
    /\ At("download", d) => download[d].at = "chunk"

\* A chunk is written or read where a file is, and a key is kept as the key it is.
KeyInv ==
    /\ \A h \in {"upload", "download"} : serving[h] # None => file[FileOf[serving[h]]] # None
    /\ \A k \in Keys : keyinfo[k] # None => KeyOf[keyinfo[k]] = k

\* An upload that has key and file for itself: nobody else is at work on them, and the
\* file is what the upload has sent so far.
Copies(u, n) == [j \in 1..n |-> u]
StoreInv == \A u \in Uploads : upload[u].alone =>
    /\ \A w \in Uploads : w # u /\ Meet(u, w) => ~InFlight(w)
    /\ errors = 0 =>
         /\ serving["set"] = u \/ At("upload", u) \/ upload[u].at = "success" =>
              keyinfo[KeyOf[u]] = u
         /\ At("upload", u) => file[FileOf[u]] = Copies(u, upload[u].next)
         /\ upload[u].at = "success" => file[FileOf[u]] = Copies(u, Length[u])

\* An upload whose key is set has begun, and has sent nothing before; what the file holds
\* once it is created is the upload's own.
OpenInv ==
    /\ \A k \in Keys : keyinfo[k] # None => upload[keyinfo[k]].at # "new"
    /\ \A u \in Uploads : upload[u].at = "new" \/ At("set", u) => upload[u].next = 0
Opens(u) ==
    errors = 0 /\ upload[u].alone /\ keyinfo[KeyOf[u]] = u /\ serving["set"] # u
    /\ (crashes = 0 \/ Stored(u)) => \E n \in Nat : file[FileOf[u]] = Copies(u, n)

\* What a calm download reads is such a file.
Calm(d) == errors = 0 /\ download[d].calm =>
    LET u == download[d].key
        n == Len(file[FileOf[d]])
        m == Len(download[d].got)
    IN  /\ u \in Uploads /\ FileOf[u] = FileOf[d] /\ KeyOf[u] = KeyOf[d]
        /\ upload[u].alone /\ ~At("set", u)
        /\ file[FileOf[d]] = Copies(u, n) /\ n <= Length[u]
        /\ download[d].got = Copies(u, m) /\ m <= n
        /\ download[d].whole => n = Length[u]
        /\ download[d].at = "success" /\ download[d].whole => m = n
CalmInv == \A d \in Downloads : Calm(d)

IInv ==
    /\ TypeOK /\ RequestInv /\ UploadInv /\ DownloadInv /\ KeyInv /\ StoreInv
    /\ OpenInv /\ (\A u \in Uploads : Opens(u)) /\ CalmInv

-----------------------------------------------------------------------------
(* Lengths and places.                                                     *)

LEMMA CopiesType ==
  ASSUME NEW u \in Uploads, NEW n \in Nat
  PROVE  Copies(u, n) \in Seq(Blocks) /\ Len(Copies(u, n)) = n
BY DEF Copies, Blocks

LEMMA FileOfType ==
  /\ \A c \in Clients : FileOf[c] \in Files /\ c # None
  /\ \A u \in Uploads : u \in Clients /\ u \in Blocks /\ u \notin Downloads /\ Length[u] \in Nat
  /\ \A d \in Downloads : d \in Clients /\ d \notin Uploads
  /\ \A c \in Clients : KeyOf[c] \in Keys
  /\ None \notin Seq(Blocks)
BY ChunkStoreAssumption DEF Clients, Blocks

LEMMA ErrorBound == MaxError \in Nat
BY ChunkStoreAssumption

UploadStates == [at : {"new", "set", "chunk", "success", "failed", "gone"},
                 next : Nat, alone : BOOLEAN]
DownloadStates == [at : {"new", "key", "chunk", "success", "failed"},
                   key : Uploads \cup {None}, got : Seq(Blocks), calm : BOOLEAN, whole : BOOLEAN]

\* The same with a name for the sequences, whose theory the proofs about records do not need.
DownloadRecords(G) == [at : {"new", "key", "chunk", "success", "failed"},
                       key : Uploads \cup {None}, got : G, calm : BOOLEAN, whole : BOOLEAN]

LEMMA DownloadStatesAre == \E G : G = Seq(Blocks) /\ DownloadStates = DownloadRecords(G)
BY DEF DownloadStates, DownloadRecords

\* The steps of the chunk server that put a client off.
Drop(h, c) ==
    /\ h \in Threads /\ Takes(h, c) /\ Fails(c) /\ inbox' = [inbox EXCEPT ![h] = @ \ {c}]
    /\ UNCHANGED <<disk, serving, faults>>

LEMMA NextCases ==
  ASSUME [Next]_vars
  PROVE  \/ \E u \in Uploads : \/ StartUpload(u) \/ Kill(u) \/ SetPut(u) \/ SetCreate(u) \/ Write(u)
         \/ \E d \in Downloads : StartDownload(d) \/ GetKey(d) \/ Read(d)
         \/ \E h \in Threads, c \in Clients : Drop(h, c) \/ Open(h, c)
         \/ Crash \/ UNCHANGED vars
<1>1. \A h \in Threads, c \in Clients : Refuse(h, c) \/ NoFile(h, c) => Drop(h, c)
  BY DEF Refuse, NoFile, Drop
<1>2. \A d \in Downloads : GetNoKey(d) => Drop("get", d) /\ d \in Clients
  BY DEF GetNoKey, Drop, Threads, Clients
<1>. QED
  BY <1>1, <1>2 DEF Next, Serve, Threads

\* What the reply "ok" does to an upload.
LEMMA GoesOn ==
  ASSUME TypeOK, UploadInv, NEW u \in Uploads, UploadGoesOn(u), At("set", u) \/ At("upload", u)
  PROVE  /\ \A v \in Uploads : v # u => upload'[v] = upload[v]
         /\ upload' \in [Uploads -> UploadStates]
         /\ upload'[u].alone = upload[u].alone /\ upload'[u].next <= Length[u]
         /\ \/ upload[u].at = "gone" /\ upload'[u] = upload[u] /\ inbox' = inbox
            \/ /\ upload[u].at \in {"set", "chunk"} /\ upload'[u].next = NextChunk(u)
               /\ upload'[u].at = "success" /\ NextChunk(u) = Length[u] /\ inbox' = inbox
            \/ /\ upload[u].at \in {"set", "chunk"} /\ upload'[u].next = NextChunk(u)
               /\ upload'[u].at = "chunk" /\ NextChunk(u) < Length[u]
               /\ inbox' = [inbox EXCEPT !["upload"] = @ \cup {u}]
<1>. DEFINE n == NextChunk(u)
<1>1. Length[u] \in Nat /\ upload[u].next \in Nat
  BY FileOfType DEF TypeOK
<1>2. CASE upload[u].at = "gone"
  BY <1>2 DEF UploadGoesOn, TypeOK, UploadStates
<1>3. CASE upload[u].at \in {"set", "chunk"}
  <2>1. n \in Nat /\ n <= Length[u]
    BY <1>1, <1>3 DEF UploadInv, NextChunk
  <2>2. /\ upload' = [upload EXCEPT ![u].next = n, ![u].at = IF IsLast(u, n) THEN "success" ELSE "chunk"]
        /\ inbox' = IF IsLast(u, n) THEN inbox ELSE [inbox EXCEPT !["upload"] = @ \cup {u}]
    BY <1>3 DEF UploadGoesOn
  <2>. DEFINE a == IF IsLast(u, n) THEN "success" ELSE "chunk"
              r == [upload[u] EXCEPT !.next = n, !.at = a]
  <2>a. a \in {"success", "chunk"}
    OBVIOUS
  <2>b. upload' = [upload EXCEPT ![u] = r]
    BY <2>2 DEF TypeOK
  <2>. HIDE DEF n, a
  <2>c. /\ r \in UploadStates
        /\ r.alone = upload[u].alone /\ r.next = n /\ r.at = a
    <3>1. upload[u] \in UploadStates
      BY DEF TypeOK, UploadStates
    <3>. QED
      BY <2>1, <2>a, <3>1 DEF UploadStates
  <2>. HIDE DEF r
  <2>3. /\ \A v \in Uploads : v # u => upload'[v] = upload[v]
        /\ upload' \in [Uploads -> UploadStates]
        /\ upload'[u].alone = upload[u].alone /\ upload'[u].next = n
        /\ upload'[u].at = a
    BY <2>b, <2>c DEF TypeOK, UploadStates
  <2>. QED
    BY <1>1, <1>3, <2>1, <2>2, <2>3 DEF IsLast, n, a
<1>. QED
  BY <1>2, <1>3 DEF UploadInv

\* The other steps as they are seen from each client.
LEMMA Fail ==
  ASSUME TypeOK, NEW c \in Clients, Fails(c)
  PROVE  /\ upload' \in [Uploads -> UploadStates] /\ download' \in [Downloads -> DownloadStates]
         /\ \A u \in Uploads :
              /\ upload'[u].next = upload[u].next /\ upload'[u].alone = upload[u].alone
              /\ upload'[u].at = IF u = c /\ upload[u].at # "gone" THEN "failed" ELSE upload[u].at
         /\ \A d \in Downloads :
              /\ download'[d].key = download[d].key /\ download'[d].got = download[d].got
              /\ download'[d].calm = download[d].calm /\ download'[d].whole = download[d].whole
              /\ download'[d].at = IF d = c THEN "failed" ELSE download[d].at
<1>1. \A u \in Uploads : /\ upload[u] \in UploadStates
                         /\ upload'[u] = IF u = c /\ upload[u].at # "gone"
                                         THEN [upload[u] EXCEPT !.at = "failed"] ELSE upload[u]
  BY DEF Fails, TypeOK, UploadStates
<1>2. \A d \in Downloads : /\ download[d] \in DownloadStates
                           /\ download'[d] = IF d = c THEN [download[d] EXCEPT !.at = "failed"] ELSE download[d]
  BY DEF Fails, TypeOK, DownloadStates
<1>3. \A u \in Uploads :
        /\ upload'[u] \in UploadStates
        /\ upload'[u].next = upload[u].next /\ upload'[u].alone = upload[u].alone
        /\ upload'[u].at = IF u = c /\ upload[u].at # "gone" THEN "failed" ELSE upload[u].at
  BY <1>1 DEF UploadStates
<1>4. \A d \in Downloads :
        /\ download'[d] \in DownloadStates
        /\ download'[d].key = download[d].key /\ download'[d].got = download[d].got
        /\ download'[d].calm = download[d].calm /\ download'[d].whole = download[d].whole
        /\ download'[d].at = IF d = c THEN "failed" ELSE download[d].at
  <2>g. PICK G : DownloadStates = DownloadRecords(G)
    BY DownloadStatesAre
  <2>1. ASSUME NEW d \in Downloads, d = c
        PROVE  /\ download'[d] \in DownloadStates /\ download'[d].at = "failed"
               /\ download'[d].key = download[d].key /\ download'[d].got = download[d].got
               /\ download'[d].calm = download[d].calm /\ download'[d].whole = download[d].whole
    <3>1. download'[d] = [download[d] EXCEPT !.at = "failed"] /\ download[d] \in DownloadStates
      BY <1>2, <2>1
    <3>. QED
      BY <3>1, <2>g DEF DownloadRecords
  <2>2. ASSUME NEW d \in Downloads, d # c
        PROVE  download'[d] = download[d] /\ download[d] \in DownloadStates
    BY <1>2, <2>2
  <2>. QED
    BY <2>1, <2>2
<1>5. upload' \in [Uploads -> UploadStates] /\ download' \in [Downloads -> DownloadStates]
  BY <1>3, <1>4 DEF Fails
<1>. QED
  BY <1>3, <1>4, <1>5

LEMMA Crashed ==
  ASSUME TypeOK, Crash
  PROVE  /\ upload' \in [Uploads -> UploadStates] /\ download' \in [Downloads -> DownloadStates]
         /\ \A u \in Uploads :
              /\ upload'[u].next = upload[u].next /\ upload'[u].alone = upload[u].alone
              /\ upload'[u].at = IF upload[u].at \in {"set", "chunk"} THEN "failed" ELSE upload[u].at
         /\ \A d \in Downloads :
              /\ download'[d].key = download[d].key /\ download'[d].got = download[d].got
              /\ download'[d].calm = download[d].calm /\ download'[d].whole = download[d].whole
              /\ download'[d].at = IF download[d].at \in {"key", "chunk"} THEN "failed" ELSE download[d].at
<1>1. \A u \in Uploads : /\ upload[u] \in UploadStates
                         /\ upload'[u] = IF upload[u].at \in {"set", "chunk"}
                                         THEN [upload[u] EXCEPT !.at = "failed"] ELSE upload[u]
  BY DEF Crash, TypeOK, UploadStates
<1>2. \A d \in Downloads : /\ download[d] \in DownloadStates
                           /\ download'[d] = IF download[d].at \in {"key", "chunk"}
                                             THEN [download[d] EXCEPT !.at = "failed"] ELSE download[d]
  BY DEF Crash, TypeOK, DownloadStates
<1>3. \A u \in Uploads :
        /\ upload'[u] \in UploadStates
        /\ upload'[u].next = upload[u].next /\ upload'[u].alone = upload[u].alone
        /\ upload'[u].at = IF upload[u].at \in {"set", "chunk"} THEN "failed" ELSE upload[u].at
  BY <1>1 DEF UploadStates
<1>4. \A d \in Downloads :
        /\ download'[d] \in DownloadStates
        /\ download'[d].key = download[d].key /\ download'[d].got = download[d].got
        /\ download'[d].calm = download[d].calm /\ download'[d].whole = download[d].whole
        /\ download'[d].at = IF download[d].at \in {"key", "chunk"} THEN "failed" ELSE download[d].at
  <2>g. PICK G : DownloadStates = DownloadRecords(G)
    BY DownloadStatesAre
  <2>1. ASSUME NEW d \in Downloads, download[d].at \in {"key", "chunk"}
        PROVE  /\ download'[d] \in DownloadStates /\ download'[d].at = "failed"
               /\ download'[d].key = download[d].key /\ download'[d].got = download[d].got
               /\ download'[d].calm = download[d].calm /\ download'[d].whole = download[d].whole
    <3>1. download'[d] = [download[d] EXCEPT !.at = "failed"] /\ download[d] \in DownloadStates
      BY <1>2, <2>1
    <3>. QED
      BY <3>1, <2>g DEF DownloadRecords
  <2>2. ASSUME NEW d \in Downloads, download[d].at \notin {"key", "chunk"}
        PROVE  download'[d] = download[d] /\ download[d] \in DownloadStates
    BY <1>2, <2>2
  <2>. QED
    BY <2>1, <2>2
<1>5. upload' \in [Uploads -> UploadStates] /\ download' \in [Downloads -> DownloadStates]
  BY <1>3, <1>4 DEF Crash
<1>. QED
  BY <1>3, <1>4, <1>5

LEMMA Started ==
  ASSUME TypeOK, NEW u \in Uploads, StartUpload(u)
  PROVE  /\ upload' \in [Uploads -> UploadStates] /\ download' \in [Downloads -> DownloadStates]
         /\ upload'[u].at = "set" /\ upload'[u].next = 0
         /\ upload'[u].alone => \A w \in Uploads : w # u /\ Meet(u, w) => ~InFlight(w)
         /\ \A v \in Uploads : v # u =>
              /\ upload'[v].at = upload[v].at /\ upload'[v].next = upload[v].next
              /\ upload'[v].alone <=> upload[v].alone /\ ~Meet(u, v)
         /\ \A d \in Downloads :
              /\ download'[d].key = download[d].key /\ download'[d].got = download[d].got
              /\ download'[d].at = download[d].at /\ download'[d].whole = download[d].whole
              /\ download'[d].calm => download[d].calm /\ ~Meet(u, d)
<1>. DEFINE others == {v \in Uploads \ {u} : Meet(u, v)}
            me == [at |-> "set", next |-> 0, alone |-> ~\E w \in others : InFlight(w)]
<1>1. \A v \in Uploads : /\ upload[v] \in UploadStates
                         /\ upload'[v] = IF v = u THEN me
                                         ELSE IF v \in others THEN [upload[v] EXCEPT !.alone = FALSE]
                                         ELSE upload[v]
  BY DEF StartUpload, TypeOK, UploadStates
<1>2. \A d \in Downloads : /\ download[d] \in DownloadStates
                           /\ download'[d] = IF Meet(u, d)
                                             THEN [download[d] EXCEPT !.calm = FALSE] ELSE download[d]
  BY DEF StartUpload, TypeOK, DownloadStates
<1>3. /\ me \in UploadStates /\ me.at = "set" /\ me.next = 0
      /\ me.alone => \A w \in Uploads : w # u /\ Meet(u, w) => ~InFlight(w)
  BY DEF UploadStates
<1>. HIDE DEF me
<1>4. \A v \in Uploads : v # u =>
        /\ upload'[v] \in UploadStates
        /\ upload'[v].at = upload[v].at /\ upload'[v].next = upload[v].next
        /\ upload'[v].alone <=> upload[v].alone /\ ~Meet(u, v)
  BY <1>1 DEF UploadStates
<1>5. \A d \in Downloads :
        /\ download'[d] \in DownloadStates
        /\ download'[d].key = download[d].key /\ download'[d].got = download[d].got
        /\ download'[d].at = download[d].at /\ download'[d].whole = download[d].whole
        /\ download'[d].calm => download[d].calm /\ ~Meet(u, d)
  <2>g. PICK G : DownloadStates = DownloadRecords(G)
    BY DownloadStatesAre
  <2>1. ASSUME NEW d \in Downloads, Meet(u, d)
        PROVE  /\ download'[d] \in DownloadStates /\ download'[d].at = download[d].at
               /\ download'[d].key = download[d].key /\ download'[d].got = download[d].got
               /\ download'[d].calm = FALSE /\ download'[d].whole = download[d].whole
    <3>1. download'[d] = [download[d] EXCEPT !.calm = FALSE] /\ download[d] \in DownloadStates
      BY <1>2, <2>1
    <3>. QED
      BY <3>1, <2>g DEF DownloadRecords
  <2>2. ASSUME NEW d \in Downloads, ~Meet(u, d)
        PROVE  download'[d] = download[d] /\ download[d] \in DownloadStates
    BY <1>2, <2>2
  <2>. QED
    BY <2>1, <2>2
<1>6. upload'[u] = me
  BY <1>1
<1>7. upload' \in [Uploads -> UploadStates] /\ download' \in [Downloads -> DownloadStates]
  BY <1>3, <1>4, <1>5, <1>6 DEF StartUpload
<1>. QED
  BY <1>3, <1>4, <1>5, <1>6, <1>7

-----------------------------------------------------------------------------
(* Each part of the invariant is kept.                                     *)

LEMMA WrittenType ==
  ASSUME NEW blocks \in Seq(Blocks), NEW n \in Nat, NEW u \in Uploads
  PROVE  /\ Written(blocks, n, u) \in Seq(Blocks)
         /\ \A v \in Uploads : v = u /\ blocks = Copies(u, n) => Written(blocks, n, u) = Copies(u, n + 1)
<1>. DEFINE len == IF Len(blocks) > n THEN Len(blocks) ELSE n + 1
<1>1. len \in Nat /\ Len(blocks) \in Nat
  OBVIOUS
<1>2. \A j \in 1..len : (IF j = n + 1 THEN u ELSE IF j <= Len(blocks) THEN blocks[j] ELSE Hole) \in Blocks
  BY DEF Blocks
<1>3. Written(blocks, n, u) = [j \in 1..len |-> IF j = n + 1 THEN u ELSE IF j <= Len(blocks) THEN blocks[j] ELSE Hole]
  BY DEF Written
<1>4. Written(blocks, n, u) \in [1..len -> Blocks]
  BY <1>2, <1>3
<1>5. Written(blocks, n, u) \in Seq(Blocks)
  <2>. HIDE DEF len
  <2>. QED
    BY <1>1, <1>4
<1>6. ASSUME blocks = Copies(u, n) PROVE Written(blocks, n, u) = Copies(u, n + 1)
  <2>1. Len(blocks) = n /\ len = n + 1
    BY <1>6, CopiesType
  <2>2. \A j \in 1..(n + 1) : j # n + 1 => j <= Len(blocks) /\ blocks[j] = u
    BY <1>6, <2>1 DEF Copies
  <2>. QED
    BY <1>3, <2>1, <2>2 DEF Copies
<1>. QED
  BY <1>5, <1>6

LEMMA InboxType ==
  ASSUME TypeOK, NEW h \in Threads, NEW c \in Clients,
         inbox' = inbox \/ inbox' = [inbox EXCEPT ![h] = @ \cup {c}]
  PROVE  inbox' \in [Threads -> SUBSET Clients]
<1>1. inbox \in [Threads -> SUBSET Clients]
  BY DEF TypeOK
<1>. QED
  BY <1>1

LEMMA TypeStep ==
  ASSUME IInv, [Next]_vars
  PROVE  TypeOK'
<1>. USE FileOfType
<1>0. /\ TypeOK /\ upload \in [Uploads -> UploadStates] /\ download \in [Downloads -> DownloadStates]
      /\ \A u \in Uploads : upload[u].next <= Length[u]
  BY DEF IInv, TypeOK, UploadStates, DownloadStates
<1>t. ASSUME /\ keyinfo' \in [Keys -> Uploads \cup {None}]
             /\ file' \in [Files -> Seq(Blocks) \cup {None}]
             /\ inbox' \in [Threads -> SUBSET Clients] /\ serving' \in [Threads -> Clients \cup {None}]
             /\ upload' \in [Uploads -> UploadStates] /\ \A u \in Uploads : upload'[u].next <= Length[u]
             /\ download' \in [Downloads -> DownloadStates]
             /\ crashes' \in 0..MaxCrash /\ errors' \in 0..MaxError
      PROVE  TypeOK'
  BY <1>t DEF TypeOK, UploadStates, DownloadStates
<1>1. ASSUME NEW u \in Uploads, StartUpload(u) PROVE TypeOK'
  <2>1. inbox' \in [Threads -> SUBSET Clients] /\ UNCHANGED <<disk, serving, faults>>
    BY <1>0, <1>1 DEF StartUpload, TypeOK, Threads
  <2>2. \A v \in Uploads : upload'[v].next <= Length[v]
    BY <1>0, <1>1, Started
  <2>. QED
    BY <1>0, <1>1, <1>t, <2>1, <2>2, Started DEF disk, faults, TypeOK
<1>2. ASSUME NEW u \in Uploads, Kill(u) PROVE TypeOK'
  <2>1. upload' \in [Uploads -> UploadStates] /\ \A v \in Uploads : upload'[v].next <= Length[v]
    BY <1>0, <1>2 DEF Kill, UploadStates
  <2>. QED
    BY <1>0, <1>2, <1>t, <2>1 DEF Kill, disk, server, faults, TypeOK
<1>3. ASSUME NEW d \in Downloads, StartDownload(d) PROVE TypeOK'
  <2>g. PICK G : DownloadStates = DownloadRecords(G)
    BY DownloadStatesAre
  <2>1. download' \in [Downloads -> DownloadStates]
    BY <1>0, <1>3, <2>g DEF StartDownload, DownloadRecords
  <2>2. inbox' \in [Threads -> SUBSET Clients]
    BY <1>0, <1>3 DEF StartDownload, TypeOK, Threads
  <2>. QED
    BY <1>0, <1>3, <1>t, <2>1, <2>2 DEF StartDownload, disk, faults, TypeOK
<1>4. ASSUME NEW h \in Threads, NEW c \in Clients, Drop(h, c) PROVE TypeOK'
  <2>1. inbox' \in [Threads -> SUBSET Clients] /\ UNCHANGED <<disk, serving, faults>>
    BY <1>0, <1>4 DEF Drop, TypeOK
  <2>2. \A u \in Uploads : upload'[u].next <= Length[u]
    BY <1>0, <1>4, Fail DEF Drop
  <2>. QED
    BY <1>0, <1>4, <1>t, <2>1, <2>2, Fail DEF Drop, disk, faults, TypeOK
<1>5. ASSUME NEW h \in Threads, NEW c \in Clients, Open(h, c) PROVE TypeOK'
  <2>1. inbox' \in [Threads -> SUBSET Clients] /\ serving' \in [Threads -> Clients \cup {None}]
    BY <1>0, <1>5 DEF Open, Enter, TypeOK
  <2>. QED
    BY <1>0, <1>5, <1>t, <2>1 DEF Open, disk, clients, faults, TypeOK
<1>6. ASSUME NEW u \in Uploads, SetPut(u) PROVE TypeOK'
  <2>1. inbox' \in [Threads -> SUBSET Clients] /\ serving' \in [Threads -> Clients \cup {None}]
    BY <1>0, <1>6 DEF SetPut, Enter, TypeOK, Threads
  <2>2. /\ \/ keyinfo' = [keyinfo EXCEPT ![KeyOf[u]] = u] \/ keyinfo' = keyinfo
        /\ errors' = errors \/ (errors < MaxError /\ errors' = errors + 1)
    BY <1>6 DEF SetPut, InfoPut, Error
  <2>3. keyinfo' \in [Keys -> Uploads \cup {None}]
    BY <2>2 DEF TypeOK, IInv
  <2>4. errors' \in 0..MaxError
    BY <1>0, <2>2, ErrorBound DEF TypeOK
  <2>. QED
    BY <1>0, <1>6, <1>t, <2>1, <2>3, <2>4 DEF SetPut, clients, TypeOK
<1>7. ASSUME NEW u \in Uploads, SetCreate(u) PROVE TypeOK'
  <2>1. At("set", u) /\ UploadGoesOn(u) /\ UploadInv
    BY <1>7 DEF SetCreate, At, IInv
  <2>2. inbox' \in [Threads -> SUBSET Clients]
    <3>1. inbox' = inbox \/ inbox' = [inbox EXCEPT !["upload"] = @ \cup {u}]
      BY <1>0, <2>1, GoesOn
    <3>. QED
      BY <1>0, <3>1, InboxType DEF Threads
  <2>3. serving' \in [Threads -> Clients \cup {None}]
    BY <1>0, <1>7 DEF SetCreate, Leave, TypeOK, Threads
  <2>4. <<>> \in Seq(Blocks)
    OBVIOUS
  <2>5. file' \in [Files -> Seq(Blocks) \cup {None}]
    BY <1>0, <1>7, <2>4 DEF SetCreate, Created, TypeOK
  <2>6. \A v \in Uploads : upload'[v].next <= Length[v]
    BY <1>0, <2>1, GoesOn
  <2>. QED
    BY <1>0, <1>7, <1>t, <2>1, <2>2, <2>3, <2>5, <2>6, GoesOn DEF SetCreate, faults, TypeOK
<1>8. ASSUME NEW u \in Uploads, Write(u) PROVE TypeOK'
  <2>1. At("upload", u) /\ UploadGoesOn(u) /\ UploadInv
    BY <1>8 DEF Write, At, IInv
  <2>2. inbox' \in [Threads -> SUBSET Clients]
    <3>1. inbox' = inbox \/ inbox' = [inbox EXCEPT !["upload"] = @ \cup {u}]
      BY <1>0, <2>1, GoesOn
    <3>. QED
      BY <1>0, <3>1, InboxType DEF Threads
  <2>3. serving' \in [Threads -> Clients \cup {None}]
    BY <1>0, <1>8 DEF Write, Leave, TypeOK, Threads
  <2>4. file[FileOf[u]] # None
    BY <1>8 DEF Write, IInv, KeyInv
  <2>5. file[FileOf[u]] \in Seq(Blocks) /\ upload[u].next \in Nat
    BY <1>0, <2>4 DEF TypeOK, UploadStates
  <2>6. Written(file[FileOf[u]], upload[u].next, u) \in Seq(Blocks)
    BY <2>5, WrittenType
  <2>7. file' \in [Files -> Seq(Blocks) \cup {None}] /\ errors' \in 0..MaxError
    <3>. DEFINE blocks == Written(file[FileOf[u]], upload[u].next, u)
    <3>1. /\ \/ file' = [file EXCEPT ![FileOf[u]] = blocks] \/ file' = file
          /\ errors' = errors \/ (errors < MaxError /\ errors' = errors + 1)
      BY <1>8 DEF Write, Error
    <3>. HIDE DEF blocks
    <3>2. file' \in [Files -> Seq(Blocks) \cup {None}]
      BY <1>0, <2>6, <3>1 DEF TypeOK, blocks
    <3>. QED
      BY <1>0, <3>1, <3>2, ErrorBound DEF TypeOK
  <2>8. \A v \in Uploads : upload'[v].next <= Length[v]
    BY <1>0, <2>1, GoesOn
  <2>. QED
    BY <1>0, <1>8, <1>t, <2>1, <2>2, <2>3, <2>7, <2>8, GoesOn DEF Write, TypeOK
<1>9. ASSUME NEW d \in Downloads, GetKey(d) PROVE TypeOK'
  <2>. DEFINE u == keyinfo[KeyOf[d]]
  <2>1. u \in Uploads
    BY <1>0, <1>9 DEF GetKey, TypeOK
  <2>2. inbox' \in [Threads -> SUBSET Clients]
    BY <1>0, <1>9 DEF GetKey, TypeOK, Threads
  <2>. HIDE DEF u
  <2>3. download' = [download EXCEPT ![d] =
              [@ EXCEPT !.at = "chunk", !.key = u, !.whole = upload[u].at = "success",
                        !.calm = /\ FileOf[u] = FileOf[d] /\ upload[u].alone
                                 /\ upload[u].at \in {"chunk", "success"}]]
    BY <1>9 DEF GetKey, u
  <2>4. download' \in [Downloads -> DownloadStates]
    <3>. DEFINE a == upload[u].at = "success"
                b == FileOf[u] = FileOf[d] /\ upload[u].alone /\ upload[u].at \in {"chunk", "success"}
    <3>1. a \in BOOLEAN /\ b \in BOOLEAN
      BY <1>0, <2>1 DEF UploadStates
    <3>2. download' = [download EXCEPT ![d] = [@ EXCEPT !.at = "chunk", !.key = u, !.whole = a, !.calm = b]]
      BY <2>3
    <3>. HIDE DEF a, b
    <3>g. PICK G : DownloadStates = DownloadRecords(G)
      BY DownloadStatesAre
    <3>3. [download[d] EXCEPT !.at = "chunk", !.key = u, !.whole = a, !.calm = b] \in DownloadStates
      <4>1. download[d] \in DownloadRecords(G)
        BY <1>0, <3>g
      <4>. QED
        BY <2>1, <3>1, <3>g, <4>1 DEF DownloadRecords
    <3>. QED
      BY <1>0, <3>2, <3>3
  <2>. QED
    BY <1>0, <1>9, <1>t, <2>2, <2>4 DEF GetKey, disk, faults, TypeOK
<1>10. ASSUME NEW d \in Downloads, Read(d) PROVE TypeOK'
  <2>. DEFINE blocks == file[FileOf[d]]
              n == Len(download[d].got)
  <2>1. blocks # None
    BY <1>10 DEF Read, IInv, KeyInv
  <2>2. blocks \in Seq(Blocks) /\ download[d].got \in Seq(Blocks)
    BY <1>0, <2>1 DEF TypeOK, DownloadStates
  <2>3. n < Len(blocks) => Append(download[d].got, blocks[n + 1]) \in Seq(Blocks)
    BY <2>2
  <2>4. inbox' \in [Threads -> SUBSET Clients] /\ serving' \in [Threads -> Clients \cup {None}]
    <3>1. inbox' = inbox \/ inbox' = [inbox EXCEPT !["download"] = @ \cup {d}]
      BY <1>10 DEF Read
    <3>2. serving' = [serving EXCEPT !["download"] = None]
      BY <1>10 DEF Read, Leave
    <3>3. inbox' \in [Threads -> SUBSET Clients]
      BY <1>0, <3>1, InboxType DEF Threads
    <3>. QED
      BY <1>0, <3>2, <3>3 DEF TypeOK, Threads
  <2>5. CASE n < Len(blocks)
    <3>. DEFINE got == Append(download[d].got, blocks[n + 1])
    <3>1. download' = [download EXCEPT ![d].got = got]
      BY <1>0, <1>10, <2>5 DEF Read
    <3>2. got \in Seq(Blocks)
      BY <2>3, <2>5
    <3>. HIDE DEF got
    <3>g. PICK G : G = Seq(Blocks) /\ DownloadStates = DownloadRecords(G)
      BY DownloadStatesAre
    <3>h. got \in G /\ DownloadStates = DownloadRecords(G)
      BY <3>2, <3>g
    <3>3. download' \in [Downloads -> DownloadStates]
      BY <1>0, <3>1, <3>h DEF DownloadRecords
    <3>. QED
      BY <1>0, <1>10, <1>t, <2>4, <3>3 DEF Read, disk, faults, TypeOK
  <2>6. CASE ~(n < Len(blocks))
    <3>1. download' = [download EXCEPT ![d].at = "success"]
      BY <1>10, <2>6 DEF Read
    <3>g. PICK G : DownloadStates = DownloadRecords(G)
      BY DownloadStatesAre
    <3>2. download' \in [Downloads -> DownloadStates]
      BY <1>0, <3>1, <3>g DEF DownloadRecords
    <3>. QED
      BY <1>0, <1>10, <1>t, <2>4, <3>2 DEF Read, disk, faults, TypeOK
  <2>. QED
    BY <2>5, <2>6
<1>11. CASE Crash
  <2>1. inbox' \in [Threads -> SUBSET Clients] /\ serving' \in [Threads -> Clients \cup {None}]
        /\ crashes' \in 0..MaxCrash
    BY <1>0, <1>11, ChunkStoreAssumption DEF Crash, TypeOK
  <2>2. \A u \in Uploads : upload'[u].next <= Length[u]
    BY <1>0, <1>11, Crashed
  <2>. QED
    BY <1>0, <1>11, <1>t, <2>1, <2>2, Crashed DEF Crash, disk, TypeOK
<1>12. CASE UNCHANGED vars
  BY <1>0, <1>12 DEF vars, disk, server, clients, faults, TypeOK
<1>. QED
  BY <1>1, <1>2, <1>3, <1>4, <1>5, <1>6, <1>7, <1>8, <1>9, <1>10, <1>11, <1>12, NextCases

\* How a step changes the ports: a request comes, or is thrown away, or is taken, or
\* is done, perhaps with the next one of its client.
Comes(h, c) == inbox' = [inbox EXCEPT ![h] = @ \cup {c}] /\ UNCHANGED serving
Goes(h, c) == inbox' = [inbox EXCEPT ![h] = @ \ {c}] /\ UNCHANGED serving
Taken(h, c) == Enter(h, c)
Done(h, c) == serving[h] = c /\ Leave(h) /\ (UNCHANGED inbox \/ inbox' = [inbox EXCEPT ![h] = @ \cup {c}])

LEMMA Ports ==
  ASSUME IInv, [Next]_vars
  PROVE  \/ \E u \in Uploads : StartUpload(u) /\ Comes("set", u) /\ ~At("set", u)
         \/ \E u \in Uploads : Kill(u) /\ UNCHANGED server
         \/ \E d \in Downloads : StartDownload(d) /\ Comes("get", d)
         \/ \E h \in Threads, c \in Clients : Drop(h, c) /\ Goes(h, c) /\ c \in inbox[h]
         \/ \E h \in Threads, c \in Clients : Open(h, c) /\ Taken(h, c) /\ c \in inbox[h] /\ serving[h] = None
                                              /\ h \in {"upload", "download"}
         \/ \E u \in Uploads : SetPut(u) /\ Taken("set", u) /\ u \in inbox["set"] /\ serving["set"] = None
         \/ \E u \in Uploads : /\ SetCreate(u) /\ serving["set"] = u /\ At("set", u) /\ Leave("set")
                               /\ UNCHANGED inbox \/ inbox' = [inbox EXCEPT !["upload"] = @ \cup {u}]
         \/ \E u \in Uploads : Write(u) /\ Done("upload", u) /\ At("upload", u)
         \/ \E d \in Downloads : /\ GetKey(d) /\ d \in inbox["get"] /\ UNCHANGED serving
                                 /\ inbox' = [inbox EXCEPT !["get"] = @ \ {d}, !["download"] = @ \cup {d}]
         \/ \E d \in Downloads : Read(d) /\ Done("download", d) /\ At("download", d)
         \/ Crash \/ UNCHANGED vars
<1>0. TypeOK /\ UploadInv
  BY DEF IInv
<1>1. \A u \in Uploads : StartUpload(u) => Comes("set", u) /\ ~At("set", u)
  BY DEF StartUpload, Comes, IInv, UploadInv
<1>2. \A u \in Uploads : Kill(u) => UNCHANGED server
  BY DEF Kill
<1>3. \A d \in Downloads : StartDownload(d) => Comes("get", d)
  BY DEF StartDownload, Comes
<1>4. \A h \in Threads, c \in Clients : Drop(h, c) => Goes(h, c) /\ c \in inbox[h]
  BY DEF Drop, Goes, Takes
<1>5. \A h \in Threads, c \in Clients : Open(h, c) => /\ Taken(h, c) /\ c \in inbox[h] /\ serving[h] = None
                                                     /\ h \in {"upload", "download"}
  BY DEF Open, Taken, Takes
<1>6. \A u \in Uploads : SetPut(u) => Taken("set", u) /\ u \in inbox["set"] /\ serving["set"] = None
  BY DEF SetPut, Taken, Takes
<1>7. \A u \in Uploads : SetCreate(u) =>
         /\ serving["set"] = u /\ At("set", u) /\ Leave("set")
         /\ UNCHANGED inbox \/ inbox' = [inbox EXCEPT !["upload"] = @ \cup {u}]
  BY DEF SetCreate, At, UploadGoesOn
<1>8. \A u \in Uploads : Write(u) => Done("upload", u) /\ At("upload", u)
  BY DEF Write, At, Done, UploadGoesOn
<1>9. \A d \in Downloads : GetKey(d) =>
         /\ d \in inbox["get"] /\ UNCHANGED serving
         /\ inbox' = [inbox EXCEPT !["get"] = @ \ {d}, !["download"] = @ \cup {d}]
  BY DEF GetKey, Takes
<1>10. \A d \in Downloads : Read(d) => Done("download", d) /\ At("download", d)
  BY DEF Read, At, Done
<1>. QED
  BY <1>1, <1>2, <1>3, <1>4, <1>5, <1>6, <1>7, <1>8, <1>9, <1>10, NextCases

LEMMA RequestStep ==
  ASSUME IInv, [Next]_vars
  PROVE  RequestInv'
<1>. USE FileOfType
<1>0. /\ RequestInv /\ UploadInv /\ inbox \in [Threads -> SUBSET Clients]
      /\ serving \in [Threads -> Clients \cup {None}]
  BY DEF IInv, TypeOK
<1>1. ASSUME NEW u \in Uploads, Comes("set", u), ~At("set", u) PROVE RequestInv'
  BY <1>0, <1>1 DEF Comes, At, RequestInv, Threads
<1>2. ASSUME UNCHANGED server PROVE RequestInv'
  BY <1>0, <1>2 DEF server, RequestInv
<1>3. ASSUME NEW d \in Downloads, Comes("get", d) PROVE RequestInv'
  BY <1>0, <1>3 DEF Comes, RequestInv, Threads
<1>4. ASSUME NEW h \in Threads, NEW c \in Clients, Goes(h, c) PROVE RequestInv'
  BY <1>0, <1>4 DEF Goes, RequestInv, Threads
<1>5. ASSUME NEW h \in {"set", "upload", "download"}, NEW c \in Clients, Taken(h, c), c \in inbox[h]
      PROVE RequestInv'
  BY <1>0, <1>5 DEF Taken, Enter, RequestInv, Threads
<1>6. ASSUME NEW u \in Uploads, serving["set"] = u, At("set", u), Leave("set"),
             UNCHANGED inbox \/ inbox' = [inbox EXCEPT !["upload"] = @ \cup {u}]
      PROVE RequestInv'
  <2>1. ~At("upload", u)
    BY <1>0, <1>6 DEF UploadInv
  <2>. QED
    BY <1>0, <1>6, <2>1 DEF Leave, At, RequestInv, Threads
<1>7. ASSUME NEW u \in Uploads, Done("upload", u) PROVE RequestInv'
  BY <1>0, <1>7 DEF Done, Leave, RequestInv, Threads
<1>8. ASSUME NEW d \in Downloads, d \in inbox["get"], UNCHANGED serving, GetKey(d),
             inbox' = [inbox EXCEPT !["get"] = @ \ {d}, !["download"] = @ \cup {d}]
      PROVE RequestInv'
  <2>1. serving["download"] # d
    BY <1>8 DEF At, IInv, DownloadInv
  <2>. QED
    BY <1>0, <1>8, <2>1 DEF RequestInv, Threads
<1>9. ASSUME NEW d \in Downloads, Done("download", d) PROVE RequestInv'
  BY <1>0, <1>9 DEF Done, Leave, RequestInv, Threads
<1>10. CASE Crash
  BY <1>0, <1>10 DEF Crash, RequestInv, Threads
<1>. QED
  BY <1>1, <1>2, <1>3, <1>4, <1>5, <1>6, <1>7, <1>8, <1>9, <1>10, Ports DEF vars, server

\* What the steps other than an upload's own leave of it.
LEMMA UploadStep ==
  ASSUME IInv, [Next]_vars
  PROVE  UploadInv'
<1>. USE FileOfType
<1>0. /\ TypeOK /\ RequestInv /\ UploadInv /\ inbox \in [Threads -> SUBSET Clients]
      /\ serving \in [Threads -> Clients \cup {None}] /\ upload \in [Uploads -> UploadStates]
  BY DEF IInv, TypeOK, UploadStates
<1>s. ASSUME UNCHANGED upload,
             \A u \in Uploads : /\ At("set", u)' <=> At("set", u)
                                /\ At("upload", u)' <=> At("upload", u)
      PROVE  UploadInv'
  BY <1>0, <1>s DEF UploadInv
<1>1. ASSUME NEW u \in Uploads, StartUpload(u), Comes("set", u), ~At("set", u) PROVE UploadInv'
  <2>1. ~At("upload", u) /\ upload[u].at = "new"
    BY <1>0, <1>1 DEF StartUpload, UploadInv
  <2>2. \A v \in Uploads : /\ At("set", v)' <=> v = u \/ At("set", v)
                           /\ At("upload", v)' <=> At("upload", v)
    BY <1>0, <1>1 DEF Comes, At, Threads
  <2>3. upload'[u].at = "set" /\ \A v \in Uploads : v # u => /\ upload'[v].at = upload[v].at
                                                            /\ upload'[v].next = upload[v].next
    BY <1>0, <1>1, Started
  <2>. QED
    BY <1>0, <2>1, <2>2, <2>3 DEF UploadInv
<1>2. ASSUME NEW u \in Uploads, Kill(u), UNCHANGED server PROVE UploadInv'
  <2>1. \A v \in Uploads : /\ At("set", v)' <=> At("set", v)
                           /\ At("upload", v)' <=> At("upload", v)
    BY <1>2 DEF server, At
  <2>2. \A v \in Uploads : /\ upload'[v].at = IF v = u THEN "gone" ELSE upload[v].at
                           /\ upload'[v].next = upload[v].next
    BY <1>0, <1>2 DEF Kill, UploadStates
  <2>. QED
    BY <1>0, <2>1, <2>2 DEF UploadInv
<1>3. ASSUME NEW d \in Downloads, StartDownload(d), Comes("get", d) PROVE UploadInv'
  BY <1>0, <1>3, <1>s DEF StartDownload, Comes, At, Threads
<1>4. ASSUME NEW h \in Threads, NEW c \in Clients, Drop(h, c), Goes(h, c), c \in inbox[h] PROVE UploadInv'
  <2>1. \A u \in Uploads : u # c => /\ At("set", u)' <=> At("set", u)
                                    /\ At("upload", u)' <=> At("upload", u)
    BY <1>0, <1>4 DEF Goes, At, Threads
  <2>2. \A u \in Uploads : u = c => ~At("set", u)' /\ ~At("upload", u)'
    BY <1>0, <1>4 DEF Goes, At, Threads, RequestInv, UploadInv
  <2>3. \A u \in Uploads : /\ upload'[u].next = upload[u].next
                           /\ upload'[u].at = IF u = c /\ upload[u].at # "gone" THEN "failed" ELSE upload[u].at
    BY <1>0, <1>4, Fail DEF Drop
  <2>. QED
    BY <1>0, <2>1, <2>2, <2>3 DEF UploadInv
<1>5. ASSUME NEW h \in Threads, NEW c \in Clients, UNCHANGED upload, Taken(h, c), c \in inbox[h], serving[h] = None
      PROVE  UploadInv'
  <2>1. \A u \in Uploads : /\ At("set", u)' <=> At("set", u)
                           /\ At("upload", u)' <=> At("upload", u)
    BY <1>0, <1>5 DEF Taken, Enter, At, Threads
  <2>. QED
    BY <1>5, <1>s, <2>1
<1>6. ASSUME NEW u \in Uploads, SetCreate(u), serving["set"] = u, At("set", u), Leave("set") PROVE UploadInv'
  <2>1. UploadGoesOn(u) /\ upload[u].at \in {"set", "gone"} /\ ~At("upload", u) /\ u \notin inbox["set"]
    BY <1>0, <1>6 DEF SetCreate, UploadInv, RequestInv, Threads
  <2>2. \A v \in Uploads : v # u => /\ At("set", v)' <=> At("set", v)
                                    /\ At("upload", v)' <=> At("upload", v)
                                    /\ upload'[v] = upload[v]
    BY <1>0, <1>6, <2>1, GoesOn DEF Leave, At, Threads
  <2>3. ~At("set", u)'
    BY <1>0, <1>6, <2>1, GoesOn DEF Leave, At, Threads
  <2>4. NextChunk(u) = 0 \/ upload[u].at = "gone"
    BY <2>1 DEF NextChunk
  <2>5. \/ upload'[u].at = "gone" /\ ~At("upload", u)'
        \/ upload'[u].at = "success" /\ ~At("upload", u)'
        \/ upload'[u].at = "chunk" /\ upload'[u].next < Length[u] /\ At("upload", u)'
    BY <1>0, <1>6, <2>1, GoesOn DEF Leave, At, Threads
  <2>. QED
    BY <1>0, <2>2, <2>3, <2>5 DEF UploadInv
<1>7. ASSUME NEW u \in Uploads, Write(u), Done("upload", u), At("upload", u) PROVE UploadInv'
  <2>1. UploadGoesOn(u) /\ upload[u].at \in {"chunk", "gone"} /\ ~At("set", u) /\ u \notin inbox["upload"]
    BY <1>0, <1>7 DEF Write, Done, UploadInv, RequestInv, Threads
  <2>2. \A v \in Uploads : v # u => /\ At("set", v)' <=> At("set", v)
                                    /\ At("upload", v)' <=> At("upload", v)
                                    /\ upload'[v] = upload[v]
    BY <1>0, <1>7, <2>1, GoesOn DEF Done, Leave, At, Threads
  <2>3. ~At("set", u)'
    BY <1>0, <1>7, <2>1 DEF Done, Leave, At, Threads
  <2>4. \/ upload'[u].at = "gone" /\ ~At("upload", u)'
        \/ upload'[u].at = "success" /\ ~At("upload", u)'
        \/ upload'[u].at = "chunk" /\ upload'[u].next < Length[u] /\ At("upload", u)'
    BY <1>0, <1>7, <2>1, GoesOn DEF Done, Leave, At, Threads
  <2>. QED
    BY <1>0, <2>2, <2>3, <2>4 DEF UploadInv
<1>8. ASSUME NEW d \in Downloads, GetKey(d), UNCHANGED serving,
             inbox' = [inbox EXCEPT !["get"] = @ \ {d}, !["download"] = @ \cup {d}]
      PROVE  UploadInv'
  BY <1>0, <1>8, <1>s DEF GetKey, At, Threads
<1>9. ASSUME NEW d \in Downloads, Read(d), Done("download", d) PROVE UploadInv'
  BY <1>0, <1>9, <1>s DEF Read, Done, Leave, At, Threads
<1>10. CASE Crash
  <2>1. \A u \in Uploads : ~At("set", u)' /\ ~At("upload", u)'
    BY <1>10 DEF Crash, At, Threads
  <2>2. \A u \in Uploads : upload'[u].at # "chunk"
    BY <1>0, <1>10, Crashed
  <2>. QED
    BY <2>1, <2>2 DEF UploadInv
<1>11. CASE UNCHANGED vars
  BY <1>11, <1>s DEF vars, server, clients, At
<1>12. \A h \in Threads, c \in Clients : Open(h, c) => UNCHANGED upload
  BY DEF Open, clients
<1>13. \A u \in Uploads : SetPut(u) => UNCHANGED upload
  BY DEF SetPut, clients
<1>. QED
  BY <1>1, <1>2, <1>3, <1>4, <1>5, <1>6, <1>7, <1>8, <1>9, <1>10, <1>11, <1>12, <1>13, Ports DEF Threads

LEMMA DownloadStep ==
  ASSUME IInv, [Next]_vars
  PROVE  DownloadInv'
<1>. USE FileOfType
<1>0. /\ TypeOK /\ RequestInv /\ DownloadInv /\ inbox \in [Threads -> SUBSET Clients]
      /\ serving \in [Threads -> Clients \cup {None}] /\ download \in [Downloads -> DownloadStates]
  BY DEF IInv, TypeOK, DownloadStates
<1>s. ASSUME UNCHANGED download,
             \A d \in Downloads : /\ d \in inbox'["get"] => d \in inbox["get"]
                                  /\ At("download", d)' => At("download", d)
      PROVE  DownloadInv'
  BY <1>0, <1>s DEF DownloadInv
<1>1. ASSUME NEW u \in Uploads, StartUpload(u), Comes("set", u) PROVE DownloadInv'
  <2>1. \A d \in Downloads : /\ d \in inbox'["get"] <=> d \in inbox["get"]
                             /\ At("download", d)' <=> At("download", d)
                             /\ download'[d].at = download[d].at /\ download'[d].got = download[d].got
    BY <1>0, <1>1, Started DEF Comes, At, Threads
  <2>. QED
    BY <1>0, <2>1 DEF DownloadInv
<1>2. ASSUME NEW u \in Uploads, Kill(u), UNCHANGED server PROVE DownloadInv'
  BY <1>2, <1>s DEF Kill, server, At
<1>3. ASSUME NEW d \in Downloads, StartDownload(d), Comes("get", d) PROVE DownloadInv'
  <2>1. download[d].at = "new" /\ ~At("download", d) /\ download[d].got = <<>>
    BY <1>0, <1>3 DEF StartDownload, DownloadInv
  <2>2. \A e \in Downloads : /\ e \in inbox'["get"] <=> e = d \/ e \in inbox["get"]
                             /\ At("download", e)' <=> At("download", e)
                             /\ download'[e].at = IF e = d THEN "key" ELSE download[e].at
                             /\ download'[e].got = download[e].got
    BY <1>0, <1>3 DEF StartDownload, Comes, At, Threads, DownloadStates
  <2>. QED
    BY <1>0, <2>1, <2>2 DEF DownloadInv
<1>4. ASSUME NEW h \in Threads, NEW c \in Clients, Drop(h, c), Goes(h, c), c \in inbox[h] PROVE DownloadInv'
  <2>1. \A d \in Downloads : d # c => /\ d \in inbox'["get"] <=> d \in inbox["get"]
                                      /\ At("download", d)' <=> At("download", d)
    BY <1>0, <1>4 DEF Goes, At, Threads
  <2>2. \A d \in Downloads : d = c => d \notin inbox'["get"] /\ ~At("download", d)'
    BY <1>0, <1>4 DEF Goes, At, Threads, RequestInv, DownloadInv
  <2>3. \A d \in Downloads : /\ download'[d].got = download[d].got
                             /\ download'[d].at = IF d = c THEN "failed" ELSE download[d].at
    BY <1>0, <1>4, Fail DEF Drop
  <2>. QED
    BY <1>0, <2>1, <2>2, <2>3 DEF DownloadInv
<1>5. ASSUME NEW h \in Threads, NEW c \in Clients, UNCHANGED download, Taken(h, c), c \in inbox[h]
      PROVE  DownloadInv'
  BY <1>0, <1>5, <1>s DEF Taken, Enter, At, Threads
<1>6. ASSUME NEW u \in Uploads, SetCreate(u), Leave("set"),
             UNCHANGED inbox \/ inbox' = [inbox EXCEPT !["upload"] = @ \cup {u}]
      PROVE  DownloadInv'
  BY <1>0, <1>6, <1>s DEF SetCreate, Leave, At, Threads
<1>7. ASSUME NEW u \in Uploads, Write(u), Done("upload", u) PROVE DownloadInv'
  BY <1>0, <1>7, <1>s DEF Write, Done, Leave, At, Threads
<1>8. ASSUME NEW d \in Downloads, GetKey(d), d \in inbox["get"], UNCHANGED serving,
             inbox' = [inbox EXCEPT !["get"] = @ \ {d}, !["download"] = @ \cup {d}]
      PROVE  DownloadInv'
  <2>1. download[d].at = "key"
    BY <1>0, <1>8 DEF DownloadInv
  <2>2. \A e \in Downloads : /\ e \in inbox'["get"] <=> e # d /\ e \in inbox["get"]
                             /\ At("download", e)' <=> e = d \/ At("download", e)
    BY <1>0, <1>8 DEF At, Threads
  <2>3. \A e \in Downloads : /\ download'[e].at = IF e = d THEN "chunk" ELSE download[e].at
                             /\ download'[e].got = download[e].got
    BY <1>0, <1>8 DEF GetKey, DownloadStates
  <2>. QED
    BY <1>0, <2>1, <2>2, <2>3 DEF DownloadInv
<1>9. ASSUME NEW d \in Downloads, Read(d), Done("download", d), At("download", d) PROVE DownloadInv'
  <2>1. download[d].at = "chunk" /\ d \notin inbox["download"]
    BY <1>0, <1>9 DEF DownloadInv, Done, RequestInv, Threads
  <2>2. \A e \in Downloads : e # d => /\ e \in inbox'["get"] <=> e \in inbox["get"]
                                      /\ At("download", e)' <=> At("download", e)
                                      /\ download'[e] = download[e]
    BY <1>0, <1>9 DEF Read, Done, Leave, At, Threads
  <2>3. d \notin inbox["get"]
    BY <1>0, <2>1 DEF DownloadInv
  <2>4. d \notin inbox'["get"]
    BY <1>0, <1>9, <2>3 DEF Done, Threads
  <2>5. \/ download'[d].at = "chunk"
        \/ download'[d].at = "success" /\ ~At("download", d)'
    BY <1>0, <1>9, <2>1 DEF Read, Leave, At, Threads, DownloadStates
  <2>. QED
    BY <1>0, <2>2, <2>4, <2>5 DEF DownloadInv
<1>10. CASE Crash
  <2>1. \A d \in Downloads : d \notin inbox'["get"] /\ ~At("download", d)'
    BY <1>10 DEF Crash, At, Threads
  <2>2. \A d \in Downloads : /\ download'[d].got = download[d].got
                             /\ download'[d].at = "new" => download[d].at = "new"
    BY <1>0, <1>10, Crashed
  <2>. QED
    BY <1>0, <2>1, <2>2 DEF DownloadInv
<1>11. CASE UNCHANGED vars
  BY <1>11, <1>s DEF vars, server, clients, At
<1>12. \A h \in Threads, c \in Clients : Open(h, c) => UNCHANGED download
  BY DEF Open, clients
<1>13. \A u \in Uploads : SetPut(u) => UNCHANGED download
  BY DEF SetPut, clients
<1>. QED
  BY <1>1, <1>2, <1>3, <1>4, <1>5, <1>6, <1>7, <1>8, <1>9, <1>10, <1>11, <1>12, <1>13, Ports DEF Threads

\* A file stays and a key stays, but for the two of an upload.
LEMMA KeyStep ==
  ASSUME IInv, [Next]_vars
  PROVE  KeyInv'
<1>. USE FileOfType, ChunkStoreAssumption
<1>0. /\ TypeOK /\ RequestInv /\ KeyInv
      /\ serving \in [Threads -> Clients \cup {None}] /\ file \in [Files -> Seq(Blocks) \cup {None}]
      /\ keyinfo \in [Keys -> Uploads \cup {None}] /\ errors \in Nat
  BY DEF IInv, TypeOK
<1>s. ASSUME UNCHANGED disk,
             \A h \in {"upload", "download"} :
                \/ serving'[h] = None \/ serving'[h] = serving[h]
                \/ file[FileOf[serving'[h]]] # None
      PROVE  KeyInv'
  BY <1>0, <1>s DEF KeyInv, disk
<1>1. ASSUME UNCHANGED <<disk, serving, faults>> PROVE KeyInv'
  BY <1>1, <1>s DEF faults
<1>2. ASSUME NEW h \in Threads, NEW c \in Clients, Open(h, c), Taken(h, c) PROVE KeyInv'
  BY <1>0, <1>2, <1>s DEF Open, faults, Taken, Enter, Threads
<1>3. ASSUME NEW u \in Uploads, SetPut(u), Taken("set", u) PROVE KeyInv'
  <2>1. /\ serving' = [serving EXCEPT !["set"] = u] /\ UNCHANGED file
        /\ \/ keyinfo' = [keyinfo EXCEPT ![KeyOf[u]] = u] /\ UNCHANGED errors
           \/ errors' = errors + 1 /\ UNCHANGED keyinfo
    BY <1>3 DEF SetPut, Taken, Enter, InfoPut, Error
  <2>2. serving'["set"] = u /\ \A h \in {"upload", "download"} : serving'[h] = serving[h]
    BY <1>0, <2>1 DEF Threads
  <2>3. \A k \in Keys : keyinfo'[k] = keyinfo[k] \/ (k = KeyOf[u] /\ keyinfo'[k] = u)
    BY <1>0, <2>1
  <2>. QED
    BY <1>0, <2>1, <2>2, <2>3 DEF KeyInv
<1>4. ASSUME NEW u \in Uploads, SetCreate(u), serving["set"] = u PROVE KeyInv'
  <2>1. /\ file' = [file EXCEPT ![FileOf[u]] = <<>>] /\ serving' = [serving EXCEPT !["set"] = None]
        /\ UNCHANGED <<keyinfo, errors>>
    BY <1>4 DEF SetCreate, Leave, Created, faults
  <2>2. serving'["set"] = None /\ \A h \in {"upload", "download"} : serving'[h] = serving[h]
    BY <1>0, <2>1 DEF Threads
  <2>3. <<>> # None
    <3>1. <<>> \in Seq(Blocks)
      OBVIOUS
    <3>. QED
      BY <3>1
  <2>4. \A f \in Files : file'[f] = IF f = FileOf[u] THEN <<>> ELSE file[f]
    BY <1>0, <2>1
  <2>5. \A h \in {"upload", "download"} : serving[h] # None => FileOf[serving[h]] \in Files
    BY <1>0 DEF Threads
  <2>6. \A h \in {"upload", "download"} : serving'[h] # None => file'[FileOf[serving'[h]]] # None
    BY <1>0, <2>2, <2>3, <2>4, <2>5 DEF KeyInv
  <2>. QED
    BY <1>0, <2>1, <2>2, <2>6 DEF KeyInv
<1>5. ASSUME NEW u \in Uploads, Write(u), Done("upload", u) PROVE KeyInv'
  <2>. DEFINE blocks == Written(file[FileOf[u]], upload[u].next, u)
  <2>1. file[FileOf[u]] # None
    BY <1>0, <1>5 DEF Done, KeyInv
  <2>2. blocks # None
    <3>1. file[FileOf[u]] \in Seq(Blocks) /\ upload[u].next \in Nat
      BY <1>0, <2>1 DEF TypeOK
    <3>2. blocks \in Seq(Blocks)
      BY <3>1, WrittenType
    <3>. QED
      BY <3>2
  <2>. HIDE DEF blocks
  <2>3. /\ serving'["upload"] = None /\ \A h \in {"set", "download"} : serving'[h] = serving[h]
        /\ UNCHANGED keyinfo
    BY <1>0, <1>5 DEF Done, Leave, Threads, Write
  <2>4. \/ file' = [file EXCEPT ![FileOf[u]] = blocks] /\ UNCHANGED errors
        \/ errors' = errors + 1 /\ UNCHANGED file
    BY <1>5 DEF Write, Error, blocks
  <2>5. \A f \in Files : file'[f] = None <=> file[f] = None
    BY <1>0, <2>1, <2>2, <2>4
  <2>6. FileOf[serving["download"]] \in Files \/ serving["download"] = None
    BY <1>0 DEF Threads
  <2>. QED
    BY <1>0, <2>3, <2>5, <2>6 DEF KeyInv
<1>6. ASSUME NEW d \in Downloads, Read(d), Done("download", d) PROVE KeyInv'
  BY <1>0, <1>6, <1>s DEF Read, faults, Done, Leave, Threads
<1>7. CASE Crash
  BY <1>7, <1>s DEF Crash, Threads
<1>8. \A u \in Uploads : StartUpload(u) \/ Kill(u) => UNCHANGED <<disk, serving, faults>>
  BY DEF StartUpload, Kill, server
<1>9. \A d \in Downloads : StartDownload(d) \/ GetKey(d) => UNCHANGED <<disk, serving, faults>>
  BY DEF StartDownload, GetKey
<1>10. \A h \in Threads, c \in Clients : Drop(h, c) => UNCHANGED <<disk, serving, faults>>
  BY DEF Drop
<1>11. CASE UNCHANGED vars
  BY <1>1, <1>11 DEF vars, server
<1>. QED
  BY <1>1, <1>2, <1>3, <1>4, <1>5, <1>6, <1>7, <1>8, <1>9, <1>10, <1>11, Ports

LEMMA Flight ==
  ASSUME RequestInv, NEW u \in Uploads
  PROVE  InFlight(u) <=> At("set", u) \/ At("upload", u)
BY FileOfType DEF InFlight, At, RequestInv, Threads

\* Who has key and file for itself keeps them from the others.
LEMMA NotAlone ==
  ASSUME IInv, NEW u \in Uploads, At("set", u) \/ At("upload", u),
         NEW v \in Uploads, v # u, upload[v].alone
  PROVE  ~Meet(u, v) /\ FileOf[v] # FileOf[u] /\ KeyOf[v] # KeyOf[u]
BY Flight, FileOfType DEF IInv, StoreInv, Meet

\* A step that is not one of an upload's own.
LEMMA StoreKept ==
  ASSUME IInv, RequestInv', UNCHANGED disk, errors' = 0 => errors = 0,
         \A u \in Uploads :
            /\ At("set", u)' => At("set", u)
            /\ At("upload", u)' => At("upload", u)
            /\ serving'["set"] = u => serving["set"] = u
            /\ upload'[u].next = upload[u].next
            /\ upload'[u].alone => upload[u].alone
            /\ upload'[u].at = "success" => upload[u].at = "success"
  PROVE  StoreInv'
<1>. SUFFICES ASSUME NEW u \in Uploads, upload'[u].alone
              PROVE  /\ \A w \in Uploads : w # u /\ Meet(u, w) => ~InFlight(w)'
                     /\ errors' = 0 =>
                          /\ serving'["set"] = u \/ At("upload", u)' \/ upload'[u].at = "success" =>
                               keyinfo'[KeyOf[u]] = u
                          /\ At("upload", u)' => file'[FileOf[u]] = Copies(u, upload'[u].next)
                          /\ upload'[u].at = "success" => file'[FileOf[u]] = Copies(u, Length[u])
  BY DEF StoreInv, Copies
<1>1. \A w \in Uploads : InFlight(w)' => InFlight(w)
  <2>1. \A w \in Uploads : InFlight(w)' => At("set", w)' \/ At("upload", w)'
    BY FileOfType DEF InFlight, At, RequestInv, Threads
  <2>. QED
    BY <2>1, Flight DEF IInv
<1>2. upload[u].alone
  OBVIOUS
<1>3. \A w \in Uploads : w # u /\ Meet(u, w) => ~InFlight(w)'
  BY <1>1, <1>2 DEF IInv, StoreInv
<1>4. keyinfo' = keyinfo /\ file' = file /\ upload'[u].next = upload[u].next
  BY DEF disk
<1>5. errors' = 0 =>
        /\ serving'["set"] = u \/ At("upload", u)' \/ upload'[u].at = "success" =>
             keyinfo'[KeyOf[u]] = u
        /\ At("upload", u)' => file'[FileOf[u]] = Copies(u, upload'[u].next)
        /\ upload'[u].at = "success" => file'[FileOf[u]] = Copies(u, Length[u])
  BY <1>2, <1>4 DEF IInv, StoreInv
<1>. QED
  BY <1>3, <1>5

\* A step of an upload's own: what holds of it afterwards holds of all.
LEMMA StoreOwn ==
  ASSUME IInv, RequestInv', NEW u \in Uploads,
         \A v \in Uploads : v # u =>
            /\ At("set", v)' <=> At("set", v)
            /\ At("upload", v)' <=> At("upload", v)
            /\ serving'["set"] = v => serving["set"] = v
            /\ upload'[v].at = upload[v].at /\ upload'[v].next = upload[v].next
            /\ upload'[v].alone => upload[v].alone /\ ~Meet(u, v)
         ,
         errors' = 0 => errors = 0,
         \A f \in Files : f # FileOf[u] => file'[f] = file[f],
         \A k \in Keys : k # KeyOf[u] => keyinfo'[k] = keyinfo[k],
         upload'[u].alone =>
            /\ \A w \in Uploads : w # u /\ Meet(u, w) => ~InFlight(w)
            /\ errors' = 0 =>
                 /\ serving'["set"] = u \/ At("upload", u)' \/ upload'[u].at = "success" =>
                      keyinfo'[KeyOf[u]] = u
                 /\ At("upload", u)' => file'[FileOf[u]] = Copies(u, upload'[u].next)
                 /\ upload'[u].at = "success" => file'[FileOf[u]] = Copies(u, Length[u])
  PROVE  StoreInv'
<1>0. \A w \in Uploads : /\ InFlight(w)' <=> At("set", w)' \/ At("upload", w)'
                         /\ InFlight(w) <=> At("set", w) \/ At("upload", w)
  <2>1. \A w \in Uploads : InFlight(w)' <=> At("set", w)' \/ At("upload", w)'
    BY FileOfType DEF InFlight, At, RequestInv, Threads
  <2>. QED
    BY <2>1, Flight DEF IInv
<1>1. \A w \in Uploads : w # u => (InFlight(w)' <=> InFlight(w))
  BY <1>0
<1>2. ASSUME NEW v \in Uploads, upload'[v].alone
      PROVE  \A w \in Uploads : w # v /\ Meet(v, w) => ~InFlight(w)'
  <2>1. CASE v = u
    BY <1>1, <1>2, <2>1
  <2>2. CASE v # u
    BY <1>1, <1>2, <2>2 DEF IInv, StoreInv, Meet
  <2>. QED
    BY <2>1, <2>2
<1>3. ASSUME NEW v \in Uploads, upload'[v].alone, errors' = 0
      PROVE  /\ serving'["set"] = v \/ At("upload", v)' \/ upload'[v].at = "success" =>
                  keyinfo'[KeyOf[v]] = v
             /\ At("upload", v)' => file'[FileOf[v]] = Copies(v, upload'[v].next)
             /\ upload'[v].at = "success" => file'[FileOf[v]] = Copies(v, Length[v])
  <2>1. CASE v = u
    BY <1>3, <2>1
  <2>2. CASE v # u
    <3>1. /\ file'[FileOf[v]] = file[FileOf[v]] /\ keyinfo'[KeyOf[v]] = keyinfo[KeyOf[v]]
          /\ upload[v].alone /\ errors = 0
      BY <1>3, <2>2, FileOfType DEF Meet
    <3>. QED
      BY <2>2, <3>1 DEF IInv, StoreInv
  <2>. QED
    BY <2>1, <2>2
<1>. QED
  BY <1>2, <1>3 DEF StoreInv, Copies

\* The steps and where they leave the uploads.
Others(u) == \A v \in Uploads : v # u => /\ At("set", v)' <=> At("set", v)
                                         /\ At("upload", v)' <=> At("upload", v)
Begins(u) ==
    StartUpload(u) /\ ~At("set", u) /\ ~At("upload", u) /\ Others(u) /\ ~At("upload", u)' /\ UNCHANGED serving
Puts(u) ==
    /\ SetPut(u) /\ At("set", u) /\ ~At("upload", u) /\ ~At("upload", u)' /\ Others(u) /\ At("set", u)'
    /\ \A v \in Uploads : v # u => serving'["set"] # v
Creates(u) ==
    SetCreate(u) /\ At("set", u) /\ serving["set"] = u /\ ~At("set", u)' /\ serving'["set"] = None /\ Others(u)
Writes(u) ==
    /\ Write(u) /\ At("upload", u) /\ ~At("set", u) /\ ~At("set", u)' /\ Others(u)
    /\ serving'["set"] = serving["set"]
Elsewhere ==
    /\ \/ \E u \in Uploads : Kill(u)
       \/ \E d \in Downloads : StartDownload(d) \/ GetKey(d) \/ Read(d)
       \/ \E h \in Threads, c \in Clients : Drop(h, c) \/ Open(h, c)
       \/ Crash \/ UNCHANGED vars
    /\ \A u \in Uploads : /\ At("set", u)' => At("set", u)
                          /\ At("upload", u)' => At("upload", u)
                          /\ serving'["set"] = u => serving["set"] = u

LEMMA Moves ==
  ASSUME IInv, [Next]_vars
  PROVE  (\E u \in Uploads : Begins(u) \/ Puts(u) \/ Creates(u) \/ Writes(u)) \/ Elsewhere
<1>. USE FileOfType
<1>0. /\ RequestInv /\ UploadInv /\ inbox \in [Threads -> SUBSET Clients]
      /\ serving \in [Threads -> Clients \cup {None}] /\ TypeOK
  BY DEF IInv, TypeOK
<1>1. ASSUME NEW u \in Uploads, StartUpload(u), Comes("set", u), ~At("set", u)
      PROVE  /\ ~At("upload", u) /\ ~At("upload", u)' /\ UNCHANGED serving
             /\ Others(u)
  <2>1. ~At("upload", u)
    BY <1>0, <1>1 DEF StartUpload, UploadInv
  <2>. QED
    BY <1>0, <1>1, <2>1 DEF Comes, At, Threads, Others
<1>2. ASSUME NEW u \in Uploads, SetPut(u), Taken("set", u), u \in inbox["set"], serving["set"] = None
      PROVE  /\ At("set", u) /\ ~At("upload", u) /\ ~At("upload", u)'
             /\ Others(u) /\ At("set", u)'
             /\ \A v \in Uploads : v # u => serving'["set"] # v
  <2>1. At("set", u) /\ ~At("upload", u)
    BY <1>0, <1>2 DEF At, UploadInv
  <2>. QED
    BY <1>0, <1>2, <2>1 DEF Taken, Enter, At, Threads, Others
<1>3. ASSUME NEW u \in Uploads, SetCreate(u), serving["set"] = u, At("set", u), Leave("set"),
             UNCHANGED inbox \/ inbox' = [inbox EXCEPT !["upload"] = @ \cup {u}]
      PROVE  /\ ~At("set", u)' /\ serving'["set"] = None
             /\ Others(u)
  <2>1. u \notin inbox["set"]
    BY <1>0, <1>3 DEF RequestInv, Threads
  <2>. QED
    BY <1>0, <1>3, <2>1 DEF Leave, At, Threads, Others
<1>4. ASSUME NEW u \in Uploads, Write(u), Done("upload", u), At("upload", u)
      PROVE  /\ ~At("set", u) /\ ~At("set", u)' /\ serving'["set"] = serving["set"]
             /\ Others(u)
  <2>1. ~At("set", u)
    BY <1>0, <1>4 DEF UploadInv
  <2>. QED
    BY <1>0, <1>4, <2>1 DEF Done, Leave, At, Threads, Others
<1>. DEFINE Less == \A u \in Uploads : /\ At("set", u)' => At("set", u)
                                       /\ At("upload", u)' => At("upload", u)
                                       /\ serving'["set"] = u => serving["set"] = u
<1>5. UNCHANGED server => Less
  BY DEF server, At
<1>6. \A h \in Threads, c \in Clients : Goes(h, c) => Less
  BY <1>0 DEF Goes, At, Threads
<1>7. \A h \in {"upload", "download"}, c \in Clients : Taken(h, c) /\ c \in inbox[h] => Less
  BY <1>0 DEF Taken, Enter, At, Threads
<1>8. ASSUME NEW d \in Downloads, \/ Comes("get", d)
                                  \/ Done("download", d)
                                  \/ /\ UNCHANGED serving
                                     /\ inbox' = [inbox EXCEPT !["get"] = @ \ {d}, !["download"] = @ \cup {d}]
      PROVE Less
  BY <1>0, <1>8 DEF Comes, Done, Leave, At, Threads
<1>9. Crash => Less
  BY <1>0 DEF Crash, At, Threads
<1>10. UNCHANGED vars => UNCHANGED server
  BY DEF vars
<1>. QED
  BY <1>1, <1>2, <1>3, <1>4, <1>5, <1>6, <1>7, <1>8, <1>9, <1>10, Ports
     DEF Begins, Puts, Creates, Writes, Elsewhere

\* What the steps that are not an upload's own leave of it.
LEMMA Outside ==
  ASSUME IInv, Elsewhere
  PROVE  \A u \in Uploads :
            /\ upload'[u].next = upload[u].next /\ upload'[u].alone = upload[u].alone
            /\ upload'[u].at \in {"chunk", "success"} => upload'[u].at = upload[u].at
            /\ upload'[u].at = "new" <=> upload[u].at = "new"
<1>. DEFINE Same == \A u \in Uploads :
            /\ upload'[u].next = upload[u].next /\ upload'[u].alone = upload[u].alone
            /\ upload'[u].at \in {"chunk", "success"} => upload'[u].at = upload[u].at
            /\ upload'[u].at = "new" <=> upload[u].at = "new"
<1>0. TypeOK /\ upload \in [Uploads -> UploadStates]
  BY DEF IInv, TypeOK, UploadStates
<1>1. ASSUME NEW u \in Uploads, Kill(u) PROVE Same
  BY <1>0, <1>1 DEF Kill, UploadStates
<1>2. ASSUME NEW h \in Threads, NEW c \in Clients, Drop(h, c) PROVE Same
  <2>1. c \in Uploads => upload[c].at # "new"
    BY <1>2, FileOfType DEF Drop, Takes, IInv, RequestInv, UploadInv, At, Threads
  <2>. QED
    BY <1>0, <1>2, <2>1, Fail DEF Drop
<1>3. CASE Crash
  BY <1>0, <1>3, Crashed
<1>4. (\E h \in Threads, c \in Clients : Open(h, c)) => UNCHANGED upload
  BY DEF Open, clients
<1>5. (\E d \in Downloads : StartDownload(d) \/ GetKey(d) \/ Read(d)) => UNCHANGED upload
  BY DEF StartDownload, GetKey, Read
<1>. QED
  BY <1>1, <1>2, <1>3, <1>4, <1>5 DEF Elsewhere, vars, clients

LEMMA StoreStep ==
  ASSUME IInv, RequestInv', [Next]_vars
  PROVE  StoreInv'
<1>. USE FileOfType
<1>0. /\ TypeOK /\ UploadInv /\ upload \in [Uploads -> UploadStates] /\ errors \in Nat
      /\ keyinfo \in [Keys -> Uploads \cup {None}] /\ file \in [Files -> Seq(Blocks) \cup {None}]
  BY DEF IInv, TypeOK, UploadStates
<1>. USE DEF Others
<1>1. ASSUME NEW u \in Uploads, StartUpload(u), ~At("set", u), ~At("upload", u)', Others(u), UNCHANGED serving
      PROVE  StoreInv'
  <2>1. /\ upload'[u].at = "set" /\ serving'["set"] # u /\ UNCHANGED <<serving, disk, errors>>
        /\ upload'[u].alone => \A w \in Uploads : w # u /\ Meet(u, w) => ~InFlight(w)
    BY <1>0, <1>1, Started DEF StartUpload, faults, At
  <2>2. \A v \in Uploads : v # u =>
          /\ upload'[v].at = upload[v].at /\ upload'[v].next = upload[v].next
          /\ upload'[v].alone => upload[v].alone /\ ~Meet(u, v)
    BY <1>0, <1>1, Started
  <2>. QED
    BY <1>1, <2>1, <2>2, StoreOwn DEF disk
<1>2. ASSUME NEW u \in Uploads, SetPut(u), At("set", u), ~At("upload", u)', Others(u),
             \A v \in Uploads : v # u => serving'["set"] # v
      PROVE  StoreInv'
  <2>1. /\ UNCHANGED <<file, upload>>
        /\ \/ keyinfo' = [keyinfo EXCEPT ![KeyOf[u]] = u] /\ UNCHANGED errors
           \/ errors' = errors + 1 /\ UNCHANGED keyinfo
    BY <1>2 DEF SetPut, InfoPut, Error, clients
  <2>2. \A k \in Keys : k # KeyOf[u] => keyinfo'[k] = keyinfo[k]
    BY <1>0, <2>1
  <2>3. upload[u].at # "success"
    BY <1>0, <1>2 DEF UploadInv
  <2>4. errors' = 0 => errors = 0 /\ keyinfo'[KeyOf[u]] = u
    BY <1>0, <2>1
  <2>5. \A v \in Uploads : v # u /\ upload[v].alone => ~Meet(u, v)
    BY <1>2, NotAlone
  <2>6. upload[u].alone => \A w \in Uploads : w # u /\ Meet(u, w) => ~InFlight(w)
    BY DEF IInv, StoreInv
  <2>. QED
    BY <1>2, <2>1, <2>2, <2>3, <2>4, <2>5, <2>6, StoreOwn
<1>3. ASSUME NEW u \in Uploads, SetCreate(u), At("set", u), serving["set"] = u, ~At("set", u)', Others(u),
             serving'["set"] = None
      PROVE  StoreInv'
  <2>1. /\ file' = [file EXCEPT ![FileOf[u]] = <<>>] /\ UNCHANGED <<keyinfo, errors>> /\ UploadGoesOn(u)
        /\ UNCHANGED inbox \/ upload[u].at # "gone"
    BY <1>3 DEF SetCreate, Created, faults, UploadGoesOn
  <2>2. /\ \A v \in Uploads : v # u => upload'[v] = upload[v]
        /\ upload'[u].alone = upload[u].alone
        /\ \/ upload[u].at = "gone" /\ inbox' = inbox
           \/ upload'[u].at = "success" /\ Length[u] = 0 /\ inbox' = inbox
           \/ upload'[u].at = "chunk" /\ upload'[u].next = 0
    <3>1. upload[u].at \in {"set", "gone"}
      BY <1>0, <1>3 DEF UploadInv
    <3>2. upload[u].at = "set" => NextChunk(u) = 0
      BY DEF NextChunk
    <3>. QED
      BY <1>0, <1>3, <2>1, <3>1, <3>2, GoesOn
  <2>3. ~At("upload", u)
    BY <1>0, <1>3 DEF UploadInv
  <2>4. inbox' = inbox => ~At("upload", u)'
    BY <1>0, <1>3, <2>3 DEF SetCreate, Leave, At, IInv, TypeOK, Threads
  <2>5. Copies(u, 0) = <<>>
    BY DEF Copies
  <2>6. file'[FileOf[u]] = <<>> /\ \A f \in Files : f # FileOf[u] => file'[f] = file[f]
    BY <1>0, <2>1
  <2>7. upload[u].at = "gone" => upload'[u].at = "gone"
    BY <2>1 DEF UploadGoesOn
  <2>8. upload[u].alone /\ errors = 0 => keyinfo[KeyOf[u]] = u
    BY <1>3 DEF IInv, StoreInv
  <2>9. /\ \A v \in Uploads : v # u /\ upload[v].alone => ~Meet(u, v)
        /\ upload[u].alone => \A w \in Uploads : w # u /\ Meet(u, w) => ~InFlight(w)
    BY <1>3, NotAlone DEF IInv, StoreInv
  <2>10. serving'["set"] # u /\ \A v \in Uploads : serving'["set"] # v
    BY <1>3
  <2>11. /\ At("upload", u)' => file'[FileOf[u]] = Copies(u, upload'[u].next)
         /\ upload'[u].at = "success" => file'[FileOf[u]] = Copies(u, Length[u])
    BY <2>2, <2>4, <2>5, <2>6, <2>7
  <2>. QED
    BY <1>3, <2>1, <2>2, <2>6, <2>8, <2>9, <2>10, <2>11, StoreOwn
<1>4. ASSUME NEW u \in Uploads, Write(u), At("upload", u), ~At("set", u)', Others(u),
             serving'["set"] = serving["set"], ~At("set", u)
      PROVE  StoreInv'
  <2>. DEFINE n == upload[u].next
              blocks == Written(file[FileOf[u]], n, u)
  <2>1. /\ UNCHANGED keyinfo /\ UploadGoesOn(u) /\ Leave("upload") /\ serving["upload"] = u
        /\ \/ file' = [file EXCEPT ![FileOf[u]] = blocks] /\ UNCHANGED errors
           \/ errors' = errors + 1 /\ UNCHANGED file
    BY <1>4 DEF Write, Error
  <2>2. n \in Nat /\ upload[u].at \in {"chunk", "gone"} /\ FileOf[u] \in Files
    BY <1>0, <1>4 DEF UploadInv, UploadStates
  <2>3. /\ \A v \in Uploads : v # u => upload'[v] = upload[v]
        /\ upload'[u].alone = upload[u].alone
        /\ \/ upload'[u].at = "gone" /\ inbox' = inbox
           \/ upload'[u].at = "success" /\ Length[u] = n + 1 /\ inbox' = inbox
           \/ upload'[u].at = "chunk" /\ upload'[u].next = n + 1
    <3>1. upload[u].at = "chunk" => NextChunk(u) = n + 1
      BY DEF NextChunk
    <3>. QED
      BY <1>0, <1>4, <2>1, <2>2, <3>1, GoesOn
  <2>4. inbox' = inbox => ~At("upload", u)'
    BY <1>0, <2>1 DEF Leave, At, IInv, TypeOK, Threads, RequestInv
  <2>5. \A f \in Files : f # FileOf[u] => file'[f] = file[f]
    BY <1>0, <2>1
  <2>6. errors' = 0 => errors = 0 /\ file'[FileOf[u]] = blocks
    BY <1>0, <2>1, <2>2
  <2>7. ASSUME upload[u].alone, errors = 0
        PROVE  keyinfo[KeyOf[u]] = u /\ blocks = Copies(u, n + 1)
    <3>1. keyinfo[KeyOf[u]] = u /\ file[FileOf[u]] = Copies(u, n)
      BY <1>4, <2>7 DEF IInv, StoreInv
    <3>2. file[FileOf[u]] \in Seq(Blocks)
      BY <2>2, <3>1, CopiesType
    <3>3. blocks = Copies(u, n + 1)
      BY <2>2, <3>1, <3>2, WrittenType
    <3>. QED
      BY <3>1, <3>3
  <2>. HIDE DEF blocks, n
  <2>8. /\ \A v \in Uploads : v # u /\ upload[v].alone => ~Meet(u, v)
        /\ upload[u].alone => \A w \in Uploads : w # u /\ Meet(u, w) => ~InFlight(w)
    BY <1>4, NotAlone DEF IInv, StoreInv
  <2>9. upload[u].alone /\ errors' = 0 =>
          /\ keyinfo'[KeyOf[u]] = u
          /\ At("upload", u)' => file'[FileOf[u]] = Copies(u, upload'[u].next)
          /\ upload'[u].at = "success" => file'[FileOf[u]] = Copies(u, Length[u])
    BY <2>1, <2>3, <2>4, <2>6, <2>7
  <2>. QED
    BY <1>4, <2>1, <2>3, <2>5, <2>6, <2>8, <2>9, StoreOwn
<1>5. ASSUME \/ \E u \in Uploads : Kill(u)
             \/ \E d \in Downloads : StartDownload(d) \/ GetKey(d) \/ Read(d)
             \/ \E h \in Threads, c \in Clients : Drop(h, c) \/ Open(h, c)
             \/ Crash \/ UNCHANGED vars,
             \A u \in Uploads : /\ At("set", u)' => At("set", u)
                                /\ At("upload", u)' => At("upload", u)
                                /\ serving'["set"] = u => serving["set"] = u
      PROVE  StoreInv'
  <2>1. UNCHANGED <<disk, errors>>
    BY <1>5 DEF Kill, StartDownload, GetKey, Read, Drop, Open, Crash, vars, faults
  <2>2. \A u \in Uploads : /\ upload'[u].next = upload[u].next /\ upload'[u].alone = upload[u].alone
                           /\ upload'[u].at = "success" => upload[u].at = "success"
    BY <1>5, Outside DEF Elsewhere
  <2>. QED
    BY <1>5, <2>1, <2>2, StoreKept
<1>. QED
  <2>1. ASSUME NEW u \in Uploads, Begins(u) \/ Puts(u) \/ Creates(u) \/ Writes(u) PROVE StoreInv'
    BY <1>1, <1>2, <1>3, <1>4, <2>1 DEF Begins, Puts, Creates, Writes
  <2>2. Elsewhere => StoreInv'
    BY <1>5 DEF Elsewhere
  <2>. QED
    BY <2>1, <2>2, Moves

LEMMA OpenStep ==
  ASSUME IInv, RequestInv', [Next]_vars
  PROVE  OpenInv'
<1>. USE FileOfType
<1>0. /\ TypeOK /\ UploadInv /\ OpenInv /\ upload \in [Uploads -> UploadStates]
      /\ keyinfo \in [Keys -> Uploads \cup {None}]
  BY DEF IInv, TypeOK, UploadStates
<1>1. ASSUME NEW u \in Uploads, Begins(u) PROVE OpenInv'
  <2>1. /\ UNCHANGED keyinfo /\ upload'[u].at = "set" /\ upload'[u].next = 0
        /\ \A v \in Uploads : v # u => upload'[v].at = upload[v].at /\ upload'[v].next = upload[v].next
    BY <1>0, <1>1, Started DEF Begins, StartUpload, disk
  <2>. QED
    BY <1>0, <1>1, <2>1 DEF Begins, Others, OpenInv
<1>2. ASSUME NEW u \in Uploads, Puts(u) PROVE OpenInv'
  <2>1. /\ UNCHANGED upload /\ upload[u].at # "new"
        /\ \A k \in Keys : keyinfo'[k] = keyinfo[k] \/ keyinfo'[k] = u
    BY <1>0, <1>2 DEF Puts, SetPut, InfoPut, clients, UploadInv
  <2>. QED
    BY <1>0, <1>2, <2>1 DEF Puts, Others, OpenInv
<1>3. ASSUME NEW u \in Uploads, Creates(u) \/ Writes(u) PROVE OpenInv'
  <2>1. /\ UNCHANGED keyinfo /\ UploadGoesOn(u) /\ (At("set", u) \/ At("upload", u)) /\ ~At("set", u)'
        /\ Others(u)
    BY <1>3 DEF Creates, Writes, SetCreate, Write
  <2>2. upload'[u].at # "new" /\ \A v \in Uploads : v # u => upload'[v] = upload[v]
    BY <1>0, <2>1, GoesOn DEF UploadInv
  <2>. QED
    BY <1>0, <2>1, <2>2 DEF OpenInv, Others
<1>4. ASSUME Elsewhere PROVE OpenInv'
  <2>1. UNCHANGED keyinfo
    BY <1>4 DEF Elsewhere, Kill, StartDownload, GetKey, Read, Drop, Open, Crash, vars, disk
  <2>2. \A u \in Uploads : /\ upload'[u].next = upload[u].next
                           /\ upload'[u].at = "new" <=> upload[u].at = "new"
    BY <1>0, <1>4, Outside
  <2>. QED
    BY <1>0, <1>4, <2>1, <2>2 DEF OpenInv, Elsewhere
<1>. QED
  BY <1>1, <1>2, <1>3, <1>4, Moves

LEMMA OpensStep ==
  ASSUME IInv, RequestInv', [Next]_vars, NEW u \in Uploads
  PROVE  Opens(u)'
<1>. USE FileOfType
<1>0. /\ TypeOK /\ RequestInv /\ UploadInv /\ OpenInv /\ StoreInv /\ Opens(u)
      /\ upload \in [Uploads -> UploadStates]
      /\ keyinfo \in [Keys -> Uploads \cup {None}] /\ file \in [Files -> Seq(Blocks) \cup {None}]
      /\ errors \in Nat /\ crashes \in Nat /\ FileOf[u] \in Files /\ KeyOf[u] \in Keys
  BY DEF IInv, TypeOK, UploadStates
<1>c. \A n \in Nat : Copies(u, n)' = Copies(u, n)
  BY DEF Copies
<1>s. ASSUME errors' = 0 => errors = 0, upload'[u].alone => upload[u].alone,
             keyinfo'[KeyOf[u]] = u => keyinfo[KeyOf[u]] = u /\ serving["set"] # u,
             crashes' = 0 \/ Stored(u)' => crashes = 0 \/ Stored(u),
             file'[FileOf[u]] = file[FileOf[u]]
      PROVE  Opens(u)'
  BY <1>0, <1>c, <1>s DEF Opens
<1>1. ASSUME NEW v \in Uploads, Begins(v) PROVE Opens(u)'
  <2>1. /\ UNCHANGED <<keyinfo, file, errors, crashes, serving>> /\ upload[v].at = "new"
        /\ \A w \in Uploads : w # v => /\ upload'[w].at = upload[w].at /\ upload'[w].next = upload[w].next
                                       /\ upload'[w].alone => upload[w].alone
    BY <1>0, <1>1, Started DEF Begins, StartUpload, disk, faults
  <2>2. CASE u = v
    <3>1. keyinfo[KeyOf[u]] # u
      BY <1>0, <2>1, <2>2 DEF OpenInv
    <3>. QED
      BY <2>1, <3>1 DEF Opens
  <2>3. CASE u # v
    <3>1. upload'[u].at = upload[u].at /\ upload'[u].next = upload[u].next /\ (upload'[u].alone => upload[u].alone)
      BY <2>1, <2>3
    <3>. QED
      BY <1>0, <1>c, <2>1, <3>1 DEF Opens, Stored
  <2>. QED
    BY <2>2, <2>3
<1>2. ASSUME NEW v \in Uploads, Puts(v) PROVE Opens(u)'
  <2>1. /\ UNCHANGED <<file, upload, crashes>> /\ serving' = [serving EXCEPT !["set"] = v] /\ serving["set"] = None
        /\ \/ keyinfo' = [keyinfo EXCEPT ![KeyOf[v]] = v] /\ UNCHANGED errors
           \/ errors' = errors + 1 /\ UNCHANGED keyinfo
        /\ At("set", v)
    BY <1>2 DEF Puts, SetPut, InfoPut, Error, clients, Takes, Enter
  <2>2. CASE u = v
    <3>1. serving'["set"] = u
      BY <2>1, <2>2 DEF IInv, TypeOK, Threads
    <3>. QED
      BY <3>1 DEF Opens
  <2>3. CASE u # v /\ upload[u].alone
    <3>1. KeyOf[u] # KeyOf[v]
      BY <1>0, <2>1, <2>3, NotAlone
    <3>2. keyinfo'[KeyOf[u]] = keyinfo[KeyOf[u]] /\ (errors' = 0 => errors = 0) /\ serving["set"] # u
      BY <1>0, <2>1, <3>1
    <3>. QED
      BY <1>s, <2>1, <3>2 DEF Stored
  <2>4. CASE ~upload[u].alone
    BY <2>1, <2>4 DEF Opens
  <2>. QED
    BY <2>2, <2>3, <2>4
<1>3. ASSUME NEW v \in Uploads, Creates(v) PROVE Opens(u)'
  <2>1. /\ UNCHANGED <<keyinfo, errors, crashes>> /\ file' = [file EXCEPT ![FileOf[v]] = <<>>] /\ UploadGoesOn(v)
        /\ At("set", v) /\ serving["set"] = v
    BY <1>3 DEF Creates, SetCreate, Created, faults
  <2>2. upload'[v].alone = upload[v].alone /\ \A w \in Uploads : w # v => upload'[w] = upload[w]
    BY <1>0, <2>1, GoesOn
  <2>3. CASE u = v
    <3>1. file'[FileOf[u]] = Copies(u, 0)
      BY <1>0, <2>1, <2>3 DEF Copies
    <3>. QED
      BY <1>c, <3>1 DEF Opens
  <2>4. CASE u # v /\ upload[u].alone
    <3>1. FileOf[u] # FileOf[v]
      BY <1>0, <2>1, <2>4, NotAlone
    <3>2. file'[FileOf[u]] = file[FileOf[u]] /\ serving["set"] # u /\ upload'[u] = upload[u]
      BY <1>0, <2>1, <2>2, <2>4, <3>1
    <3>. QED
      BY <1>s, <2>1, <3>2 DEF Stored
  <2>5. CASE u # v /\ ~upload[u].alone
    BY <2>2, <2>5 DEF Opens
  <2>. QED
    BY <2>3, <2>4, <2>5
<1>4. ASSUME NEW v \in Uploads, Writes(v) PROVE Opens(u)'
  <2>. DEFINE n == upload[v].next
              blocks == Written(file[FileOf[v]], n, v)
  <2>1. /\ UNCHANGED <<keyinfo, crashes>> /\ UploadGoesOn(v) /\ At("upload", v) /\ serving'["set"] = serving["set"]
        /\ \/ file' = [file EXCEPT ![FileOf[v]] = blocks] /\ UNCHANGED errors
           \/ errors' = errors + 1 /\ UNCHANGED file
    BY <1>4 DEF Writes, Write, Error
  <2>2. upload'[v].alone = upload[v].alone /\ \A w \in Uploads : w # v => upload'[w] = upload[w]
    BY <1>0, <2>1, GoesOn
  <2>3. CASE u = v
    <3>. SUFFICES ASSUME errors' = 0, upload'[u].alone PROVE \E m \in Nat : file'[FileOf[u]] = Copies(u, m)
      BY <1>c DEF Opens
    <3>1. errors = 0 /\ file'[FileOf[u]] = blocks /\ upload[u].alone /\ n \in Nat
      BY <1>0, <2>1, <2>2, <2>3 DEF UploadStates
    <3>2. file[FileOf[u]] = Copies(u, n)
      BY <1>0, <2>1, <2>3, <3>1 DEF StoreInv
    <3>3. file[FileOf[u]] \in Seq(Blocks)
      BY <3>1, <3>2, CopiesType
    <3>4. Written(file[FileOf[u]], n, u) = Copies(u, n + 1)
      <4>. HIDE DEF n
      <4>. QED
        BY <3>1, <3>2, <3>3, WrittenType
    <3>. QED
      BY <2>3, <3>1, <3>4
  <2>. HIDE DEF blocks
  <2>4. CASE u # v /\ upload[u].alone
    <3>1. FileOf[u] # FileOf[v]
      BY <1>0, <2>1, <2>4, NotAlone
    <3>2. file'[FileOf[u]] = file[FileOf[u]] /\ upload'[u] = upload[u] /\ (errors' = 0 => errors = 0)
      BY <1>0, <2>1, <2>2, <2>4, <3>1
    <3>. QED
      BY <1>0, <1>c, <2>1, <3>2 DEF Opens, Stored
  <2>5. CASE u # v /\ ~upload[u].alone
    BY <2>2, <2>5 DEF Opens
  <2>. QED
    BY <2>3, <2>4, <2>5
<1>5. ASSUME Elsewhere PROVE Opens(u)'
  <2>1. UNCHANGED <<keyinfo, file, errors>>
    BY <1>5 DEF Elsewhere, Kill, StartDownload, GetKey, Read, Drop, Open, Crash, vars, disk, faults
  <2>2. /\ upload'[u].next = upload[u].next /\ upload'[u].alone = upload[u].alone
        /\ upload'[u].at \in {"chunk", "success"} => upload'[u].at = upload[u].at
    BY <1>0, <1>5, Outside
  <2>3. Stored(u)' => Stored(u)
    BY <2>2 DEF Stored
  <2>4. CASE Crash
    <3>1. crashes' # 0
      BY <1>0, <2>4 DEF Crash
    <3>2. Stored(u) => serving["set"] # u
      BY <1>0 DEF Stored, At, OpenInv, UploadInv
    <3>. QED
      BY <1>0, <1>c, <2>1, <2>2, <2>3, <3>1, <3>2 DEF Opens
  <2>5. CASE ~Crash
    <3>1. UNCHANGED crashes /\ serving'["set"] = serving["set"]
      BY <1>0, <1>5, <2>5, InboxType DEF Elsewhere, Kill, StartDownload, GetKey, Read, Drop, Open, Enter, Leave,
         vars, server, faults, Threads, IInv, TypeOK
    <3>. QED
      BY <1>0, <1>c, <2>1, <2>2, <2>3, <3>1 DEF Opens
  <2>. QED
    BY <2>4, <2>5
<1>. QED
  BY <1>1, <1>2, <1>3, <1>4, <1>5, Moves

\* A step that leaves a download and its file alone.
LEMMA CalmKept ==
  ASSUME CalmInv, NEW d \in Downloads, errors' = 0 => errors = 0,
         /\ download'[d].key = download[d].key /\ download'[d].got = download[d].got
         /\ download'[d].whole = download[d].whole
         /\ download'[d].calm => download[d].calm
         ,
         download'[d].at = "success" => download[d].at = "success",
         download'[d].calm => file'[FileOf[d]] = file[FileOf[d]],
         \A u \in Uploads : download'[d].calm /\ FileOf[u] = FileOf[d] /\ KeyOf[u] = KeyOf[d] =>
            /\ upload[u].alone => upload'[u].alone
            /\ At("set", u)' => At("set", u)
  PROVE  Calm(d)'
<1>. SUFFICES ASSUME errors' = 0, download'[d].calm PROVE Calm(d)'
  BY DEF Calm
<1>1. errors = 0 /\ download[d].calm /\ Calm(d)
  BY DEF CalmInv
<1>2. PICK u \in Uploads : u = download[d].key
  BY <1>1 DEF Calm
<1>3. upload'[u].alone /\ ~At("set", u)'
  BY <1>1, <1>2 DEF Calm
<1>. DEFINE n == Len(file[FileOf[d]])
            m == Len(download[d].got)
<1>4. /\ u \in Uploads /\ FileOf[u] = FileOf[d] /\ KeyOf[u] = KeyOf[d]
      /\ file[FileOf[d]] = Copies(u, n) /\ n <= Length[u]
      /\ download[d].got = Copies(u, m) /\ m <= n
      /\ download[d].whole => n = Length[u]
      /\ download[d].at = "success" /\ download[d].whole => m = n
  BY <1>1, <1>2 DEF Calm
<1>5. /\ file'[FileOf[d]] = file[FileOf[d]] /\ download'[d].got = download[d].got
      /\ download'[d].key = u /\ download'[d].whole = download[d].whole
      /\ download'[d].at = "success" => download[d].at = "success"
  BY <1>2
<1>. QED
  BY <1>3, <1>4, <1>5 DEF Calm, Copies

LEMMA CalmStep ==
  ASSUME IInv, [Next]_vars
  PROVE  CalmInv'
<1>. USE FileOfType
<1>0. /\ TypeOK /\ UploadInv /\ DownloadInv /\ KeyInv /\ StoreInv /\ CalmInv /\ errors \in Nat
      /\ upload \in [Uploads -> UploadStates] /\ download \in [Downloads -> DownloadStates]
      /\ keyinfo \in [Keys -> Uploads \cup {None}] /\ file \in [Files -> Seq(Blocks) \cup {None}]
  BY DEF IInv, TypeOK, UploadStates, DownloadStates
<1>. SUFFICES ASSUME NEW d \in Downloads PROVE Calm(d)'
  BY DEF CalmInv
<1>1. ASSUME NEW u \in Uploads, Begins(u) PROVE Calm(d)'
  <2>1. /\ download'[d].key = download[d].key /\ download'[d].got = download[d].got
        /\ download'[d].at = download[d].at /\ download'[d].whole = download[d].whole
        /\ download'[d].calm => download[d].calm /\ ~Meet(u, d)
    BY <1>0, <1>1, Started DEF Begins
  <2>2. \A v \in Uploads : ~Meet(u, v) =>
          /\ upload[v].alone => upload'[v].alone
          /\ At("set", v)' => At("set", v)
    BY <1>0, <1>1, Started DEF Begins, Others, Meet
  <2>4. \A v \in Uploads : download'[d].calm /\ FileOf[v] = FileOf[d] /\ KeyOf[v] = KeyOf[d] =>
          /\ upload[v].alone => upload'[v].alone
          /\ At("set", v)' => At("set", v)
    BY <2>1, <2>2 DEF At, Meet
  <2>3. UNCHANGED <<file, errors>>
    BY <1>1 DEF Begins, StartUpload, disk, faults
  <2>. QED
    BY <1>0, <2>1, <2>3, <2>4, CalmKept
<1>2. ASSUME NEW u \in Uploads, Puts(u) PROVE Calm(d)'
  <2>1. UNCHANGED <<file, upload, download>> /\ (errors' = 0 => errors = 0)
    BY <1>0, <1>2 DEF Puts, SetPut, Error, clients
  <2>2. \A v \in Uploads : At("set", v)' => At("set", v)
    BY <1>2 DEF Puts, Others
  <2>. QED
    BY <1>0, <2>1, <2>2, CalmKept
<1>3. ASSUME NEW u \in Uploads, Creates(u) PROVE Calm(d)'
  <2>1. UNCHANGED <<download, errors>> /\ file' = [file EXCEPT ![FileOf[u]] = <<>>] /\ UploadGoesOn(u)
    BY <1>3 DEF Creates, SetCreate, Created, faults
  <2>2. \A v \in Uploads : /\ upload'[v].alone = upload[v].alone
                           /\ At("set", v)' => At("set", v)
    BY <1>0, <1>3, <2>1, GoesOn DEF Creates, Others
  <2>3. CASE FileOf[d] # FileOf[u] \/ ~download[d].calm \/ errors # 0
    <3>1. FileOf[d] # FileOf[u] => file'[FileOf[d]] = file[FileOf[d]]
      BY <1>0, <2>1
    <3>2. ~download[d].calm \/ errors # 0 => Calm(d)'
      BY <2>1 DEF Calm
    <3>. QED
      BY <1>0, <2>1, <2>2, <2>3, <3>1, <3>2, CalmKept
  <2>4. CASE FileOf[d] = FileOf[u] /\ download[d].calm /\ errors = 0
    <3>1. /\ download[d].key \in Uploads /\ FileOf[download[d].key] = FileOf[u]
          /\ upload[download[d].key].alone /\ ~At("set", download[d].key)
      BY <1>0, <2>4 DEF CalmInv, Calm
    <3>2. At("set", u)
      BY <1>3 DEF Creates
    <3>. QED
      BY <3>1, <3>2, NotAlone
  <2>. QED
    BY <2>3, <2>4
<1>4. ASSUME NEW u \in Uploads, Writes(u) PROVE Calm(d)'
  <2>. DEFINE k == upload[u].next
              blocks == Written(file[FileOf[u]], k, u)
  <2>1. /\ UNCHANGED download /\ UploadGoesOn(u) /\ k \in Nat
        /\ \/ file' = [file EXCEPT ![FileOf[u]] = blocks] /\ UNCHANGED errors
           \/ errors' = errors + 1 /\ UNCHANGED file
    BY <1>0, <1>4 DEF Writes, Write, Error, UploadStates
  <2>2. \A v \in Uploads : /\ upload'[v].alone = upload[v].alone
                           /\ At("set", v)' => At("set", v)
    BY <1>0, <1>4, <2>1, GoesOn DEF Writes, Others
  <2>. HIDE DEF blocks, k
  <2>3. CASE errors' # 0 \/ ~download[d].calm
    BY <2>1, <2>3 DEF Calm
  <2>4. CASE errors' = 0 /\ FileOf[d] # FileOf[u]
    <3>1. errors = 0 /\ file'[FileOf[d]] = file[FileOf[d]]
      BY <1>0, <2>1, <2>4
    <3>. QED
      BY <1>0, <2>1, <2>2, <3>1, CalmKept
  <2>5. CASE errors' = 0 /\ FileOf[d] = FileOf[u] /\ download[d].calm
    <3>1. errors = 0 /\ file'[FileOf[d]] = blocks
      BY <1>0, <2>1, <2>5
    <3>2. Calm(d)
      BY <1>0 DEF CalmInv
    <3>3. download[d].key = u /\ upload[u].alone
      <4>1. /\ download[d].key \in Uploads /\ FileOf[download[d].key] = FileOf[u]
            /\ upload[download[d].key].alone
        BY <2>5, <3>1, <3>2 DEF Calm
      <4>2. At("upload", u)
        BY <1>4 DEF Writes
      <4>. QED
        BY <4>1, <4>2, NotAlone
    <3>4. file[FileOf[u]] = Copies(u, k) /\ k < Length[u]
      BY <1>0, <1>4, <3>1, <3>3 DEF Writes, StoreInv, UploadInv, k
    <3>5. Len(file[FileOf[u]]) = k /\ file[FileOf[u]] \in Seq(Blocks)
      BY <2>1, <3>4, CopiesType
    <3>6. blocks = Copies(u, k + 1)
      BY <2>1, <3>4, <3>5, WrittenType DEF blocks
    <3>7. Len(blocks) = k + 1
      BY <2>1, <3>6, CopiesType
    <3>8. /\ ~download[d].whole /\ Len(download[d].got) <= k
          /\ download[d].got = Copies(u, Len(download[d].got))
      BY <2>1, <2>5, <3>1, <3>2, <3>3, <3>4, <3>5 DEF Calm
    <3>9. /\ upload'[u].alone /\ ~At("set", u)' /\ download' = download
      BY <1>4, <2>1, <2>2, <3>3 DEF Writes
    <3>10. Len(download[d].got) \in Nat
      BY <1>0 DEF DownloadStates
    <3>11. \A n \in Nat : Copies(u, n)' = Copies(u, n)
      BY DEF Copies
    <3>12. Len(download[d].got) <= k + 1 /\ k + 1 <= Length[u]
      BY <2>1, <3>4, <3>8, <3>10
    <3>. QED
      <4>1. /\ download'[d].key = u /\ download'[d].got = download[d].got /\ ~download'[d].whole
            /\ file'[FileOf[d]] = Copies(u, k + 1) /\ Len(file'[FileOf[d]]) = k + 1
        BY <3>1, <3>3, <3>6, <3>7, <3>8, <3>9
      <4>2. FileOf[u] = FileOf[d] /\ KeyOf[u] = KeyOf[d] /\ u \in Uploads
        BY <2>5, <3>1, <3>2, <3>3 DEF Calm
      <4>. QED
        BY <3>8, <3>9, <3>12, <4>1, <4>2 DEF Calm, Copies, At
  <2>. QED
    BY <2>3, <2>4, <2>5
<1>5. ASSUME Elsewhere PROVE Calm(d)'
  <2>1. /\ UNCHANGED <<disk, errors>>
        /\ \A u \in Uploads : At("set", u)' => At("set", u)
    BY <1>5 DEF Elsewhere, Kill, StartDownload, GetKey, Read, Drop, Open, Crash, vars, faults
  <2>2. \A u \in Uploads : upload'[u].alone = upload[u].alone
    <3>1. ASSUME NEW u \in Uploads, Kill(u) PROVE \A v \in Uploads : upload'[v].alone = upload[v].alone
      BY <1>0, <3>1 DEF Kill, UploadStates
    <3>2. ASSUME NEW h \in Threads, NEW c \in Clients, Drop(h, c)
          PROVE  \A v \in Uploads : upload'[v].alone = upload[v].alone
      BY <1>0, <3>2, Fail DEF Drop
    <3>3. CASE Crash
      BY <1>0, <3>3, Crashed
    <3>4. (\E h \in Threads, c \in Clients : Open(h, c)) => UNCHANGED upload
      BY DEF Open, clients
    <3>5. (\E e \in Downloads : StartDownload(e) \/ GetKey(e) \/ Read(e)) => UNCHANGED upload
      BY DEF StartDownload, GetKey, Read
    <3>. QED
      BY <1>5, <3>1, <3>2, <3>3, <3>4, <3>5 DEF Elsewhere, vars, clients
  <2>3. ASSUME /\ download'[d].key = download[d].key /\ download'[d].got = download[d].got
               /\ download'[d].whole = download[d].whole /\ download'[d].calm = download[d].calm
               ,
               download'[d].at = "success" => download[d].at = "success"
        PROVE  Calm(d)'
    BY <1>0, <2>1, <2>2, <2>3, CalmKept DEF disk
  <2>4. UNCHANGED download => Calm(d)'
    BY <2>3
  <2>5. ASSUME NEW e \in Downloads, StartDownload(e) PROVE Calm(d)'
    <3>1. /\ download'[d].key = download[d].key /\ download'[d].got = download[d].got
          /\ download'[d].whole = download[d].whole /\ download'[d].calm = download[d].calm
          /\ download'[d].at = IF d = e THEN "key" ELSE download[d].at
      BY <1>0, <2>5 DEF StartDownload, DownloadStates
    <3>. QED
      BY <2>3, <3>1
  <2>6. ASSUME NEW h \in Threads, NEW c \in Clients, Drop(h, c) PROVE Calm(d)'
    BY <1>0, <2>3, <2>6, Fail DEF Drop
  <2>7. CASE Crash
    BY <1>0, <2>3, <2>7, Crashed
  <2>8. ASSUME NEW e \in Downloads, GetKey(e) PROVE Calm(d)'
    <3>1. CASE e # d
      <4>1. download'[d] = download[d]
        BY <1>0, <2>8, <3>1 DEF GetKey
      <4>. QED
        BY <2>3, <4>1
    <3>2. CASE e = d
      <4>1. PICK u \in Uploads : u = keyinfo[KeyOf[d]] /\ KeyOf[u] = KeyOf[d]
        BY <1>0, <2>8, <3>2 DEF GetKey, KeyInv
      <4>. DEFINE whole == upload[u].at = "success"
                  calm == FileOf[u] = FileOf[d] /\ upload[u].alone /\ upload[u].at \in {"chunk", "success"}
                  r == [download[d] EXCEPT !.at = "chunk", !.key = u, !.whole = whole, !.calm = calm]
      <4>a. download' = [download EXCEPT ![d] = r]
        BY <2>8, <3>2, <4>1 DEF GetKey
      <4>b. download'[d] = r
        BY <1>0, <4>a
      <4>c. whole \in BOOLEAN /\ calm \in BOOLEAN /\ download[d] \in DownloadStates
        BY <1>0, <4>1 DEF UploadStates
      <4>. HIDE DEF whole, calm
      <4>d. /\ r.at = "chunk" /\ r.key = u /\ r.got = download[d].got
            /\ r.whole = whole /\ r.calm = calm
        BY <4>c DEF DownloadStates
      <4>2. /\ download'[d].at = "chunk" /\ download'[d].key = u /\ download'[d].got = download[d].got
            /\ download'[d].whole <=> upload[u].at = "success"
            /\ download'[d].calm <=> FileOf[u] = FileOf[d] /\ upload[u].alone /\ upload[u].at \in {"chunk", "success"}
        BY <4>b, <4>d DEF whole, calm
      <4>3. download[d].got = <<>>
        BY <1>0, <2>8, <3>2 DEF GetKey, Takes, DownloadInv
      <4>4. ASSUME errors' = 0, download'[d].calm
            PROVE  \E n \in Nat : /\ file[FileOf[d]] = Copies(u, n) /\ n <= Length[u]
                                  /\ upload[u].at = "success" => n = Length[u]
        <5>1. errors = 0 /\ upload[u].alone /\ FileOf[u] = FileOf[d] /\ upload[u].next \in Nat
          BY <1>0, <2>1, <4>1, <4>2, <4>4 DEF UploadStates
        <5>2. CASE upload[u].at = "chunk"
          BY <1>0, <4>1, <5>1, <5>2 DEF UploadInv, StoreInv
        <5>3. CASE upload[u].at = "success"
          BY <1>0, <4>1, <5>1, <5>3 DEF StoreInv
        <5>. QED
          BY <4>2, <4>4, <5>2, <5>3
      <4>5. ASSUME errors' = 0, download'[d].calm PROVE Calm(d)'
        <5>1. PICK n \in Nat : /\ file[FileOf[d]] = Copies(u, n) /\ n <= Length[u]
                               /\ upload[u].at = "success" => n = Length[u]
          BY <4>4, <4>5
        <5>2. Len(file[FileOf[d]]) = n
          BY <4>1, <5>1, CopiesType
        <5>6. FileOf[u] = FileOf[d]
          BY <4>2, <4>5
        <5>3. ~At("set", u)' /\ upload'[u].alone
          BY <1>0, <2>1, <2>2, <4>1, <4>2, <4>5 DEF UploadInv
        <5>4. file' = file
          BY <2>1 DEF disk
        <5>5. <<>> = Copies(u, 0) /\ Len(<<>>) = 0
          BY DEF Copies
        <5>. QED
          BY <4>1, <4>2, <4>3, <5>1, <5>2, <5>3, <5>4, <5>5, <5>6 DEF Calm, Copies, At
      <4>. QED
        BY <4>5 DEF Calm
    <3>. QED
      BY <3>1, <3>2
  <2>9. ASSUME NEW e \in Downloads, Read(e) PROVE Calm(d)'
    <3>1. CASE e # d
      <4>1. download'[d] = download[d]
        BY <1>0, <2>9, <3>1 DEF Read
      <4>. QED
        BY <2>3, <4>1
    <3>2. CASE e = d
      <4>. DEFINE u == download[d].key
                  blocks == file[FileOf[d]]
                  got == download[d].got
      <4>1. got \in Seq(Blocks) /\ Len(got) \in Nat
        BY <1>0 DEF DownloadStates
      <4>2. /\ download'[d].key = u /\ download'[d].calm = download[d].calm
            /\ download'[d].whole = download[d].whole
            /\ \/ /\ Len(got) < Len(blocks) /\ download'[d].got = Append(got, blocks[Len(got) + 1])
                  /\ download'[d].at = download[d].at
               \/ ~(Len(got) < Len(blocks)) /\ download'[d].got = got /\ download'[d].at = "success"
        BY <1>0, <2>9, <3>2 DEF Read, DownloadStates
      <4>3. ASSUME errors' = 0, download'[d].calm
            PROVE  /\ u \in Uploads /\ FileOf[u] = FileOf[d] /\ KeyOf[u] = KeyOf[d] /\ upload[u].alone /\ ~At("set", u)
                   /\ blocks = Copies(u, Len(blocks)) /\ Len(blocks) <= Length[u]
                   /\ got = Copies(u, Len(got)) /\ Len(got) <= Len(blocks)
                   /\ download[d].whole => Len(blocks) = Length[u]
                   /\ download[d].at = "success" /\ download[d].whole => Len(got) = Len(blocks)
        BY <1>0, <2>1, <4>2, <4>3 DEF CalmInv, Calm
      <4>4. ASSUME errors' = 0, download'[d].calm PROVE Calm(d)'
        <5>1. blocks \in Seq(Blocks) /\ Len(blocks) \in Nat
          <6>1. blocks # None
            BY <1>0, <2>9, <3>2 DEF Read, KeyInv
          <6>. QED
            BY <1>0, <6>1
        <5>2. PICK v \in Uploads : v = u
          BY <4>3, <4>4
        <5>6. /\ file' = file /\ upload'[v].alone /\ ~At("set", v)'
          BY <2>1, <2>2, <4>3, <4>4, <5>2 DEF disk
        <5>3. \A m \in Nat : m < Len(blocks) =>
                Append(Copies(u, m), Copies(u, Len(blocks))[m + 1]) = Copies(u, m + 1)
          BY <5>1 DEF Copies
        <5>4. CASE Len(got) < Len(blocks)
          <6>1. download'[d].got = Copies(u, Len(got) + 1) /\ download'[d].at = download[d].at
            BY <4>1, <4>2, <4>3, <4>4, <5>3, <5>4
          <6>2. Len(download'[d].got) = Len(got) + 1
            <7>1. u \in Uploads /\ Len(got) + 1 \in Nat
              BY <4>1, <4>3, <4>4
            <7>. QED
              BY <6>1, <7>1, CopiesType
          <6>3. Len(got) + 1 <= Len(blocks) /\ Len(got) # Len(blocks)
            BY <4>1, <5>1, <5>4
          <6>. QED
            BY <4>2, <4>3, <4>4, <5>2, <5>6, <6>1, <6>2, <6>3 DEF Calm, Copies, At
        <5>5. CASE ~(Len(got) < Len(blocks))
          <6>1. Len(got) = Len(blocks) /\ download'[d].got = got
            BY <4>1, <4>2, <4>3, <4>4, <5>1, <5>5
          <6>. QED
            BY <4>2, <4>3, <4>4, <5>2, <5>6, <6>1 DEF Calm, Copies, At
        <5>. QED
          BY <5>4, <5>5
      <4>. QED
        BY <4>4 DEF Calm
    <3>. QED
      BY <3>1, <3>2
  <2>10. (\E u \in Uploads : Kill(u)) => UNCHANGED download
    BY DEF Kill
  <2>11. (\E h \in Threads, c \in Clients : Open(h, c)) => UNCHANGED download
    BY DEF Open, clients
  <2>. QED
    BY <1>5, <2>4, <2>5, <2>6, <2>7, <2>8, <2>9, <2>10, <2>11 DEF Elsewhere, vars, clients
<1>. QED
  BY <1>1, <1>2, <1>3, <1>4, <1>5, Moves

-----------------------------------------------------------------------------
(* The theorems.                                                           *)

LEMMA InitIInv == Init => IInv
<1>. SUFFICES ASSUME Init PROVE IInv
  OBVIOUS
<1>. USE FileOfType
<1>1. TypeOK
  BY ChunkStoreAssumption DEF Init, TypeOK, UploadNew, DownloadNew
<1>2. \A h \in Threads, c \in Clients : ~At(h, c)
  BY DEF Init, At
<1>3. RequestInv
  BY DEF Init, RequestInv, Threads
<1>4. UploadInv /\ StoreInv
  BY <1>2 DEF Init, UploadInv, StoreInv, UploadNew, Clients, Threads
<1>5. DownloadInv /\ CalmInv
  BY <1>2 DEF Init, DownloadInv, CalmInv, Calm, DownloadNew, Clients, Threads, At
<1>6. KeyInv
  BY FileOfType DEF Init, KeyInv, Threads
<1>7. OpenInv /\ \A u \in Uploads : Opens(u)
  BY <1>2 DEF Init, OpenInv, Opens, UploadNew
<1>. QED
  BY <1>1, <1>3, <1>4, <1>5, <1>6, <1>7 DEF IInv

LEMMA NextIInv == IInv /\ [Next]_vars => IInv'
BY TypeStep, RequestStep, UploadStep, DownloadStep, KeyStep, StoreStep, OpenStep, OpensStep, CalmStep DEF IInv

LEMMA Invariance == Spec => []IInv
BY InitIInv, NextIInv, PTL DEF Spec

\* The variables of the store stay what the handlers and the scripts take them for.
THEOREM StoreTypeCorrect == Spec => []TypeOK
<1>1. IInv => TypeOK
  BY DEF IInv
<1>. QED
  BY <1>1, Invariance, PTL

\* SetFileKeyInfoRequestHandler puts the new key before it empties the file: when no put
\* fails and no other upload meets this one, the key opens all that is in the file, but
\* for the time between the two and after a crash just then.
THEOREM KeyOpensFileTheorem == Spec => []KeyOpensFile
<1>1. ASSUME IInv PROVE KeyOpensFile
  <2>. SUFFICES ASSUME NEW u \in Uploads, errors = 0, upload[u].alone, keyinfo[KeyOf[u]] = u,
                       serving["set"] # u, crashes = 0 \/ Stored(u)
                PROVE  \A j \in DOMAIN file[FileOf[u]] : file[FileOf[u]][j] = u
    BY DEF KeyOpensFile
  <2>1. PICK n \in Nat : file[FileOf[u]] = Copies(u, n)
    BY <1>1 DEF IInv, Opens
  <2>. QED
    BY <2>1 DEF Copies
<1>. QED
  BY <1>1, Invariance, PTL

\* upload_file that ended with "Success" and had key and file for itself: the server keeps
\* all of its chunks and its key, whatever the other clients and the crashes do.
THEOREM UploadIsKeptTheorem == Spec => []UploadIsKept
<1>1. IInv => UploadIsKept
  BY DEF IInv, StoreInv, UploadIsKept, Copies
<1>. QED
  BY <1>1, Invariance, PTL

\* download_file reads a beginning of the upload whose key it got, and all of it when
\* that upload had ended, when the key is of an upload of its file and unless an upload
\* that meets it begins meanwhile.
THEOREM ReadsOneUploadTheorem == Spec => []ReadsOneUpload
<1>1. ASSUME IInv PROVE ReadsOneUpload
  <2>. SUFFICES ASSUME NEW d \in Downloads, errors = 0, download[d].calm
                PROVE  LET u == download[d].key
                       IN  /\ \A j \in DOMAIN download[d].got : download[d].got[j] = u
                           /\ Len(download[d].got) <= Length[u]
                           /\ download[d].at = "success" /\ download[d].whole => Len(download[d].got) = Length[u]
    BY DEF ReadsOneUpload
  <2>1. Calm(d) /\ TypeOK
    BY <1>1 DEF IInv, CalmInv
  <2>. DEFINE u == download[d].key
              m == Len(download[d].got)
              n == Len(file[FileOf[d]])
  <2>2. /\ u \in Uploads /\ file[FileOf[d]] = Copies(u, n) /\ n <= Length[u]
        /\ download[d].got = Copies(u, m) /\ m <= n
        /\ download[d].at = "success" /\ download[d].whole => n = Length[u] /\ m = n
    BY <2>1 DEF Calm
  <2>3. m \in Nat /\ Length[u] \in Nat
    BY <2>1, <2>2, FileOfType DEF TypeOK
  <2>4. \A j \in DOMAIN download[d].got : download[d].got[j] = u
    BY <2>2, <2>3 DEF Copies
  <2>5. n \in Nat
    <3>1. file[FileOf[d]] \in Seq(Blocks) \/ file[FileOf[d]] = None
      BY <2>1, FileOfType DEF TypeOK
    <3>. QED
      BY <2>2, <3>1
  <2>. QED
    BY <2>2, <2>3, <2>4, <2>5
<1>. QED
  BY <1>1, Invariance, PTL
=============================================================================
