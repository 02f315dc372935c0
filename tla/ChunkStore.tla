----------------------------- MODULE ChunkStore ------------------------------
(***************************************************************************)
(* The store of a KyrinBox chunk server: chunk files, and a database with  *)
(* the key that each file is encrypted with.  Each of the four requests    *)
(* has a port and a thread of its own, which handles one request at a time.*)
(*                                                                         *)
(* The clients are the ones of the Python SDK: an upload makes a new key,  *)
(* sets it and sends chunk after chunk; a download gets the key and asks   *)
(* for chunk after chunk until one is empty.  An upload stands for its key *)
(* and for each of its chunks: chunk n of a file is u when it is what u    *)
(* encrypted of chunk n.  All offsets are multiples of k_chunk_size, as    *)
(* those of the clients are.                                               *)
(***************************************************************************)
EXTENDS Naturals, Sequences

CONSTANTS Files,      \* chunk files: ./account/file_name.chunkfile
          Keys,       \* keys of the database: account+file_name
          Uploads,    \* runs of upload_file
          Downloads,  \* runs of download_file
          None,       \* no key, no file, no client
          Hole,       \* zeros where nothing was written
          KeyOf,      \* the key of a client, which clients of other files may share
          FileOf,     \* the chunk file of a client
          Length,     \* the number of chunks of an upload
          MaxCrash,   \* bound: crashes of the chunk server
          MaxError    \* bound: I/O errors

Clients == Uploads \cup Downloads
Blocks == Uploads \cup {Hole}
Threads == {"upload", "download", "set", "get"}

ASSUME ChunkStoreAssumption ==
    /\ None \notin Clients \cup Seq(Blocks) /\ Hole \notin Uploads
    /\ Uploads \cap Downloads = {}
    /\ FileOf \in [Clients -> Files] /\ KeyOf \in [Clients -> Keys]
    /\ Length \in [Uploads -> Nat] /\ MaxCrash \in Nat /\ MaxError \in Nat

VARIABLES
    keyinfo,    \* m_keyinfo_db: key -> the upload that set it
    file,       \* the chunk files on disk
    inbox,      \* thread -> clients whose request waits at its port
    serving,    \* thread -> the client whose request it handles
    upload,     \* the uploads
    download,   \* the downloads
    crashes, errors

disk == <<keyinfo, file>>
server == <<inbox, serving>>
clients == <<upload, download>>
faults == <<crashes, errors>>
vars == <<disk, server, clients, faults>>

UploadNew == [at |-> "new", next |-> 0, alone |-> FALSE]
DownloadNew == [at |-> "new", key |-> None, got |-> <<>>, calm |-> FALSE, whole |-> FALSE]

Init ==
    /\ keyinfo = [k \in Keys |-> None] /\ file = [f \in Files |-> None]
    /\ inbox = [h \in Threads |-> {}] /\ serving = [h \in Threads |-> None]
    /\ upload = [u \in Uploads |-> UploadNew]
    /\ download = [d \in Downloads |-> DownloadNew]
    /\ crashes = 0 /\ errors = 0

-----------------------------------------------------------------------------
(* The clients.                                                            *)

InFlight(c) == \E h \in Threads : c \in inbox[h] \/ serving[h] = c

\* Clients that meet in the database or on the disk.
Meet(c, d) == KeyOf[c] = KeyOf[d] \/ FileOf[c] = FileOf[d]

\* alone: no other upload that meets it has begun since, or was still at work.
StartUpload(u) ==
    LET others == {v \in Uploads \ {u} : Meet(u, v)}
    IN  /\ upload[u].at = "new"
        /\ upload' = [v \in Uploads |->
              IF v = u THEN [at |-> "set", next |-> 0, alone |-> ~\E w \in others : InFlight(w)]
              ELSE IF v \in others THEN [upload[v] EXCEPT !.alone = FALSE]
              ELSE upload[v]]
        /\ download' = [d \in Downloads |->
              IF Meet(u, d) THEN [download[d] EXCEPT !.calm = FALSE] ELSE download[d]]
        /\ inbox' = [inbox EXCEPT !["set"] = @ \cup {u}]
        /\ UNCHANGED <<disk, serving, faults>>

\* The user breaks off the script; its request stays with the server.
Kill(u) ==
    /\ upload[u].at \in {"set", "chunk"}
    /\ upload' = [upload EXCEPT ![u].at = "gone"]
    /\ UNCHANGED <<disk, server, download, faults>>

StartDownload(d) ==
    /\ download[d].at = "new"
    /\ download' = [download EXCEPT ![d].at = "key"]
    /\ inbox' = [inbox EXCEPT !["get"] = @ \cup {d}]
    /\ UNCHANGED <<disk, serving, upload, faults>>

\* upload_file on the reply "ok": the chunk it sends next.
NextChunk(u) == IF upload[u].at = "set" THEN 0 ELSE upload[u].next + 1
MissesLast(u, n) == n > Length[u]
IsLast(u, n) == n = Length[u]

UploadGoesOn(u) ==
    LET n == NextChunk(u)
    IN  IF upload[u].at = "gone" THEN UNCHANGED <<upload, inbox>>
        ELSE /\ upload' = [upload EXCEPT ![u].next = n,
                              ![u].at = IF IsLast(u, n) THEN "success" ELSE "chunk"]
             /\ inbox' = IF IsLast(u, n) THEN inbox
                         ELSE [inbox EXCEPT !["upload"] = @ \cup {u}]

\* Any other reply ends the client.
NotAnswered(c) == UNCHANGED clients
Fails(c) ==
    /\ upload' = [u \in Uploads |-> IF u = c /\ upload[u].at # "gone"
                                    THEN [upload[u] EXCEPT !.at = "failed"] ELSE upload[u]]
    /\ download' = [d \in Downloads |-> IF d = c THEN [download[d] EXCEPT !.at = "failed"]
                                        ELSE download[d]]

-----------------------------------------------------------------------------
(* The handlers.  A thread that is free takes any request of its port.     *)

Takes(h, c) == c \in inbox[h] /\ serving[h] = None
Enter(h, c) ==
    /\ inbox' = [inbox EXCEPT ![h] = @ \ {c}]
    /\ serving' = [serving EXCEPT ![h] = c]
Leave(h) == serving' = [serving EXCEPT ![h] = None]

\* filter_request: no key of the issuer, or a signature that does not fit.
Refuse(h, c) ==
    /\ Takes(h, c)
    /\ Fails(c) /\ inbox' = [inbox EXCEPT ![h] = @ \ {c}]
    /\ UNCHANGED <<disk, serving, faults>>

Error == errors < MaxError /\ errors' = errors + 1

\* SetFileKeyInfoRequestHandler: the info first, then the file; nobody looks at
\* the result of put.
InfoPut(u) == [keyinfo EXCEPT ![KeyOf[u]] = u]
SetPut(u) ==
    /\ Takes("set", u) /\ Enter("set", u)
    /\ \/ keyinfo' = InfoPut(u) /\ UNCHANGED errors
       \/ Error /\ UNCHANGED keyinfo
    /\ UNCHANGED <<file, clients, crashes>>

\* fopen(.., "wb").
Opened(f) == IF file[f] = None THEN <<>> ELSE file[f]
Created(f) == <<>>
SetCreate(u) ==
    /\ serving["set"] = u
    /\ file' = [file EXCEPT ![FileOf[u]] = Created(FileOf[u])]
    /\ UploadGoesOn(u) /\ Leave("set")
    /\ UNCHANGED <<keyinfo, download, faults>>

\* fopen(.., "rb+") of the handlers of chunks.
NoFile(h, c) ==
    /\ h \in {"upload", "download"} /\ Takes(h, c) /\ file[FileOf[c]] = None
    /\ Fails(c) /\ inbox' = [inbox EXCEPT ![h] = @ \ {c}]
    /\ UNCHANGED <<disk, serving, faults>>

Open(h, c) ==
    /\ h \in {"upload", "download"} /\ Takes(h, c) /\ file[FileOf[c]] # None
    /\ Enter(h, c)
    /\ UNCHANGED <<disk, clients, faults>>

\* UploadChunkFileRequestHandler: fseek, fwrite, fclose; nobody looks at the
\* number of bytes written.
Rewritten(blocks, n, u) == [j \in 1..(n + 1) |-> IF j = n + 1 THEN u ELSE Hole]
Written(blocks, n, u) ==
    [j \in 1..(IF Len(blocks) > n THEN Len(blocks) ELSE n + 1) |->
        IF j = n + 1 THEN u ELSE IF j <= Len(blocks) THEN blocks[j] ELSE Hole]
Write(u) ==
    /\ serving["upload"] = u
    /\ \/ /\ file' = [file EXCEPT ![FileOf[u]] = Written(@, upload[u].next, u)]
          /\ UNCHANGED errors
       \/ Error /\ UNCHANGED file
    /\ UploadGoesOn(u) /\ Leave("upload")
    /\ UNCHANGED <<keyinfo, download, crashes>>

\* GetFileKeyInfoRequestHandler.  calm, whole: the upload that the key belongs to
\* is one of this file, is alone and has created the file, has sent all of it.
GetKey(d) ==
    LET u == keyinfo[KeyOf[d]]
    IN  /\ Takes("get", d) /\ u # None
        /\ download' = [download EXCEPT ![d] =
              [@ EXCEPT !.at = "chunk", !.key = u, !.whole = upload[u].at = "success",
                        !.calm = /\ FileOf[u] = FileOf[d] /\ upload[u].alone
                                 /\ upload[u].at \in {"chunk", "success"}]]
        /\ inbox' = [inbox EXCEPT !["get"] = @ \ {d}, !["download"] = @ \cup {d}]
        /\ UNCHANGED <<disk, serving, upload, faults>>

GetNoKey(d) ==
    /\ Takes("get", d) /\ keyinfo[KeyOf[d]] = None
    /\ Fails(d) /\ inbox' = [inbox EXCEPT !["get"] = @ \ {d}]
    /\ UNCHANGED <<disk, serving, faults>>

\* DownloadChunkFileRequestHandler: what is at the offset, nothing behind the end
\* of the file.  The client asks for the next chunk unless this one is empty.
Read(d) ==
    LET blocks == file[FileOf[d]]
        n == Len(download[d].got)
    IN  /\ serving["download"] = d
        /\ IF n < Len(blocks)
             THEN /\ download' = [download EXCEPT ![d].got = Append(@, blocks[n + 1])]
                  /\ inbox' = [inbox EXCEPT !["download"] = @ \cup {d}]
             ELSE /\ download' = [download EXCEPT ![d].at = "success"]
                  /\ UNCHANGED inbox
        /\ Leave("download")
        /\ UNCHANGED <<disk, upload, faults>>

\* The server dies and is started again; the scripts die of the broken call.
Crash ==
    /\ crashes < MaxCrash /\ crashes' = crashes + 1
    /\ inbox' = [h \in Threads |-> {}] /\ serving' = [h \in Threads |-> None]
    /\ upload' = [u \in Uploads |-> IF upload[u].at \in {"set", "chunk"}
                                    THEN [upload[u] EXCEPT !.at = "failed"] ELSE upload[u]]
    /\ download' = [d \in Downloads |-> IF download[d].at \in {"key", "chunk"}
                                        THEN [download[d] EXCEPT !.at = "failed"] ELSE download[d]]
    /\ UNCHANGED <<disk, errors>>

-----------------------------------------------------------------------------
Serve(h) ==
    \/ \E c \in Clients : Refuse(h, c) \/ NoFile(h, c) \/ Open(h, c)
    \/ h = "set" /\ \E u \in Uploads : SetPut(u) \/ SetCreate(u)
    \/ h = "upload" /\ \E u \in Uploads : Write(u)
    \/ h = "get" /\ \E d \in Downloads : GetKey(d) \/ GetNoKey(d)
    \/ h = "download" /\ \E d \in Downloads : Read(d)

Next == \/ \E u \in Uploads : StartUpload(u) \/ Kill(u)
        \/ \E d \in Downloads : StartDownload(d)
        \/ \E h \in Threads : Serve(h)
        \/ Crash

Spec == Init /\ [][Next]_vars

\* The threads of the server run.
Fairness == \A h \in Threads : WF_vars(Serve(h))
LiveSpec == Spec /\ Fairness

-----------------------------------------------------------------------------
TypeOK ==
    /\ keyinfo \in [Keys -> Uploads \cup {None}]
    /\ file \in [Files -> Seq(Blocks) \cup {None}]
    /\ inbox \in [Threads -> SUBSET Clients] /\ serving \in [Threads -> Clients \cup {None}]
    /\ upload \in [Uploads -> [at : {"new", "set", "chunk", "success", "failed", "gone"},
                               next : Nat, alone : BOOLEAN]]
    /\ \A u \in Uploads : upload[u].next <= Length[u]
    /\ download \in [Downloads -> [at : {"new", "key", "chunk", "success", "failed"},
                                   key : Uploads \cup {None}, got : Seq(Blocks),
                                   calm : BOOLEAN, whole : BOOLEAN]]
    /\ crashes \in 0..MaxCrash /\ errors \in 0..MaxError

-----------------------------------------------------------------------------
(* Safety.                                                                 *)

\* The key of an upload that had key and file for itself opens what is in the file,
\* also when the script was broken off or the server crashed later on: nothing that
\* another key encrypted is left in it.  It does not while the key is set and the
\* file is yet to be created, nor ever after a crash just then.
Stored(u) == upload[u].at \in {"chunk", "success"} \/ upload[u].next > 0
KeyOpensFile ==
    \A u \in Uploads :
        errors = 0 /\ upload[u].alone /\ keyinfo[KeyOf[u]] = u /\ serving["set"] # u
        /\ (crashes = 0 \/ Stored(u)) =>
            \A j \in DOMAIN file[FileOf[u]] : file[FileOf[u]][j] = u

\* An upload that ended with "Success" and had key and file for itself is stored:
\* all its chunks, nothing of an earlier upload, under its own key.
UploadIsKept ==
    \A u \in Uploads : errors = 0 /\ upload[u].at = "success" /\ upload[u].alone =>
        /\ keyinfo[KeyOf[u]] = u
        /\ file[FileOf[u]] = [j \in 1..Length[u] |-> u]

\* What a download gets, when the key it got is of an upload of its file and until
\* an upload begins that meets it, is the beginning of the upload whose key it has,
\* and all of it when that upload had ended.
ReadsOneUpload ==
    \A d \in Downloads : errors = 0 /\ download[d].calm =>
        LET u == download[d].key
        IN  /\ \A j \in DOMAIN download[d].got : download[d].got[j] = u
            /\ Len(download[d].got) <= Length[u]
            /\ download[d].at = "success" /\ download[d].whole => Len(download[d].got) = Length[u]

-----------------------------------------------------------------------------
(* Liveness, under LiveSpec.                                               *)

\* Every script that is not broken off ends: each request is answered, so that time
\* and again no script waits for one.
ClientsEnd ==
    []<>(/\ \A u \in Uploads : upload[u].at \in {"new", "success", "failed", "gone"}
         /\ \A d \in Downloads : download[d].at \in {"new", "success", "failed"})
=============================================================================
