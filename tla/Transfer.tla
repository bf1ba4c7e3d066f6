------------------------------ MODULE Transfer ------------------------------
(***************************************************************************)
(* Moving an artifact between storage pools (worker/artifact_transfer.rs,  *)
(* handle_transfer_artifact and handle_delete_artifact of worker/mod.rs)   *)
(* and the placement table of the scheduler that listens to the outcome.   *)
(*                                                                         *)
(* There is one artifact, a directory of Files.  A pool is a place; two    *)
(* pools on one host are copied locally, two hosts stream a tar over TCP.  *)
(* A directory is {} when it does not exist and {fs} when it holds fs.     *)
(* A transfer task is a record that moves through the stages               *)
(*   local : make, list, copy, rename                                      *)
(*   remote: connect, header, list, send, shut  (the sending side), with   *)
(*           head, make, unpack, rename         (the receiving side).      *)
(* tar and the file system are external: a cut stream may look like its    *)
(* end to the reader, and any operation may fail.  The orchestrator of     *)
(* this repository releases artifacts but commands no transfer yet: any    *)
(* transfer out of a place the table calls ready is an input, but to one   *)
(* pool the next is commanded only when the task of the last one is done.  *)
(***************************************************************************)
EXTENDS Naturals, FiniteSets

CONSTANTS NearPools, FarPools,   \* the pools of the two hosts
          Files, MaxTransfers

VARIABLES dir,       \* pool -> the artifact's directory under its final name
          partial,   \* pool -> the directory .<artifact>.partial
          job,       \* transfer -> its sending (or copying) task
          peer,      \* transfer -> its receiving task
          wire,      \* transfer -> [head, files, end] of the TCP stream
          erasing,   \* <<pool, step>> of a remove_dir_all under way
          said,      \* worker events on their way: <<worker, kind, pool>>
          table      \* host -> the Ready entry of the placement table

tVars == <<dir, partial, job, peer, wire, erasing, said, table>>

Transfers == 1..MaxTransfers
Pools == NearPools \cup FarPools
Home == [p \in Pools |-> IF p \in NearPools THEN "near" ELSE "far"]
Hosts == {Home[p] : p \in Pools}
Idle == [at |-> "idle"]
NoWire == [head |-> FALSE, files |-> {}, end |-> "no"]

\* The artifact was suspended into a pool of the near host.
TInit == LET p == CHOOSE p \in NearPools : TRUE IN
    /\ dir = [q \in Pools |-> IF q = p THEN {Files} ELSE {}]
    /\ partial = [q \in Pools |-> {}]
    /\ job = [t \in Transfers |-> Idle]
    /\ peer = [t \in Transfers |-> Idle]
    /\ wire = [t \in Transfers |-> NoWire]
    /\ erasing = {} /\ said = {}
    /\ table = [h \in Hosts |-> IF h = Home[p] THEN {p} ELSE {}]

Go(t, stage) == job' = [job EXCEPT ![t].at = stage]
Got(t, stage) == peer' = [peer EXCEPT ![t].at = stage]
Say(host, kind, p) == said' = said \cup {<<host, kind, p>>}
-----------------------------------------------------------------------------
\* TransferArtifact: an unknown pool is answered TransferFailed at once; a
\* known one spawns the task.  Pools the worker does not have are not inputs
\* of the local route; on the remote one the receiving side looks them up.
\* The command loop is busy while it deletes.
handle_transfer_artifact(t, p, q) ==
    /\ job[t] = Idle /\ p # q /\ p \in table[Home[p]]
    /\ \A e \in erasing : Home[e[1]] # Home[p]
    /\ \A u \in Transfers : u < t => job[u].at = "done" \/ (job[u] # Idle /\ job[u].to # q)
    /\ job' = [job EXCEPT ![t] =
                 [at |-> IF Home[p] = Home[q] THEN "make" ELSE "connect",
                  from |-> p, to |-> q, todo |-> {}]]
    /\ UNCHANGED <<dir, partial, peer, wire, erasing, said, table>>

Local(t) == Home[job[t].from] = Home[job[t].to]

\* Any await of the task returns an error: the answer is TransferFailed.  A
\* local copy leaves its partial directory behind; a sender drops its stream.
job_fails(t) ==
    /\ job[t].at \in {"make", "list", "copy", "rename", "connect", "header", "send", "shut"}
    /\ Go(t, "done")
    /\ Say(Home[job[t].from], "failed", job[t].from)
    /\ wire' = [wire EXCEPT ![t].end = IF @ = "no" THEN "cut" ELSE @]
    /\ UNCHANGED <<dir, partial, peer, erasing, table>>

\* create_dir_all of the partial directory, shared by all copies to this name.
make_partial(t) ==
    /\ job[t].at = "make" /\ Go(t, "list")
    /\ partial' = [partial EXCEPT ![job[t].to] = IF @ = {} THEN {{}} ELSE @]
    /\ UNCHANGED <<dir, peer, wire, erasing, said, table>>

\* read_dir of the source: what is there now is what will be copied.
read_dir(t) ==
    /\ job[t].at = "list" /\ dir[job[t].from] # {}
    /\ job' = [job EXCEPT ![t].todo = UNION dir[job[t].from],
                          ![t].at = IF Local(t) THEN "copy" ELSE "send"]
    /\ UNCHANGED <<dir, partial, peer, wire, erasing, said, table>>


\* Copying one entry needs the file and the partial directory to be there.
local_pool_copy(t) ==
    /\ job[t].at = "copy"
    /\ \/ \E f \in job[t].todo :
            /\ f \in UNION dir[job[t].from] /\ partial[job[t].to] # {}
            /\ partial' = [partial EXCEPT ![job[t].to] = {UNION @ \cup {f}}]
            /\ job' = [job EXCEPT ![t].todo = @ \ {f}]
       \/ job[t].todo = {} /\ Go(t, "rename") /\ UNCHANGED partial
    /\ UNCHANGED <<dir, peer, wire, erasing, said, table>>

\* rename(2): fails when the source is gone or the target is a directory with
\* something in it.
MayRename(q) == partial[q] # {} /\ UNION dir[q] = {}
Renamed(q) == /\ dir' = [dir EXCEPT ![q] = partial[q]]
              /\ partial' = [partial EXCEPT ![q] = {}]

local_renamed(t) ==
    /\ job[t].at = "rename" /\ MayRename(job[t].to) /\ Renamed(job[t].to)
    /\ Go(t, "done") /\ Say(Home[job[t].to], "received", job[t].to)
    /\ UNCHANGED <<peer, wire, erasing, table>>
-----------------------------------------------------------------------------
\* connect, header and the strings; the receiver's accept loop spawns its task.
send_header(t) ==
    /\ \/ /\ job[t].at = "connect" /\ Go(t, "header")
          /\ peer' = [peer EXCEPT ![t] = [at |-> "head", done |-> {}]]
          /\ UNCHANGED wire
       \/ /\ job[t].at = "header" /\ Go(t, "list")
          /\ wire' = [wire EXCEPT ![t].head = TRUE]
          /\ UNCHANGED peer
    /\ UNCHANGED <<dir, partial, erasing, said, table>>

\* append_dir_all, one entry at a time, then the trailer and the shutdown.
send_artifact(t) ==
    /\ \/ /\ job[t].at = "send" /\ UNCHANGED said
          /\ \/ \E f \in job[t].todo \cap UNION dir[job[t].from] :
                  /\ job' = [job EXCEPT ![t].todo = @ \ {f}]
                  /\ wire' = [wire EXCEPT ![t].files = @ \cup {f}]
             \/ job[t].todo = {} /\ Go(t, "shut") /\ UNCHANGED wire
       \* No success event from the source.
       \/ /\ job[t].at = "shut" /\ Go(t, "done") /\ UNCHANGED said
          /\ wire' = [wire EXCEPT ![t].end = "end"]
    /\ UNCHANGED <<dir, partial, peer, erasing, table>>

\* The receiver gives up: nothing is reported, and only a failed unpack
\* removes the partial directory.
incoming_fails(t) ==
    /\ peer[t].at \in {"head", "make", "unpack", "rename"} /\ Got(t, "done")
    /\ partial' = [partial EXCEPT ![job[t].to] = IF peer[t].at = "unpack" THEN {} ELSE @]
    /\ UNCHANGED <<dir, job, wire, erasing, said, table>>

\* Header read, pool known, partial directory created.
receive_header(t) ==
    /\ \/ /\ peer[t].at = "head" /\ wire[t].head
          /\ Got(t, "make") /\ UNCHANGED partial
       \/ /\ peer[t].at = "make" /\ Got(t, "unpack")
          /\ partial' = [partial EXCEPT ![job[t].to] = IF @ = {} THEN {{}} ELSE @]
    /\ UNCHANGED <<dir, job, wire, erasing, said, table>>

\* The archive is unpacked until the stream ends or breaks off.
unpack(t) ==
    /\ peer[t].at = "unpack"
    /\ \/ \E f \in wire[t].files \ peer[t].done :
            /\ partial[job[t].to] # {}
            /\ partial' = [partial EXCEPT ![job[t].to] = {UNION @ \cup {f}}]
            /\ peer' = [peer EXCEPT ![t].done = @ \cup {f}]
       \/ /\ wire[t].files = peer[t].done /\ wire[t].end # "no"
          /\ Got(t, "rename") /\ UNCHANGED partial
    /\ UNCHANGED <<dir, job, wire, erasing, said, table>>

\* The rename, the size and the event ArtifactTransferReceived.
handle_incoming_transfer(t) ==
    /\ peer[t].at = "rename" /\ MayRename(job[t].to) /\ Renamed(job[t].to)
    /\ Got(t, "done") /\ Say(Home[job[t].to], "received", job[t].to)
    /\ UNCHANGED <<job, wire, erasing, table>>
-----------------------------------------------------------------------------
\* The scheduler hears of the outcome (events of one kind are not ordered
\* between hosts).  Failure removes the entry of the worker that reports it.
apply_received(h, p) ==
    /\ <<h, "received", p>> \in said
    /\ table' = [table EXCEPT ![h] = {p}]

apply_failed(h, p) ==
    /\ <<h, "failed", p>> \in said
    /\ table' = [table EXCEPT ![h] = {}]

apply_event(h, k, p) ==
    /\ (k = "received" /\ apply_received(h, p)) \/ (k = "failed" /\ apply_failed(h, p))
    /\ said' = said \ {<<h, k, p>>}
    /\ UNCHANGED <<dir, partial, job, peer, wire, erasing>>

\* The last reference goes: the table forgets the artifact and one holder is
\* told to delete its copy.
released(h, p) ==
    /\ p \in table[h] /\ erasing = {}
    /\ table' = [g \in Hosts |-> {}] /\ erasing' = {<<p, "files">>}
    /\ UNCHANGED <<dir, partial, job, peer, wire, said>>

\* remove_dir_all: the files one by one, then the directory if it is empty.
handle_delete_artifact(p) ==
    /\ \/ /\ <<p, "files">> \in erasing
          /\ \/ \E f \in UNION dir[p] : /\ dir' = [dir EXCEPT ![p] = {UNION @ \ {f}}]
                                        /\ UNCHANGED erasing
             \/ UNION dir[p] = {} /\ erasing' = {<<p, "rmdir">>} /\ UNCHANGED dir
       \/ /\ <<p, "rmdir">> \in erasing /\ erasing' = {}
          /\ dir' = [dir EXCEPT ![p] = IF UNION @ = {} THEN {} ELSE @]
    /\ UNCHANGED <<partial, job, peer, wire, said, table>>
-----------------------------------------------------------------------------
TNext == \/ \E t \in Transfers :
              \/ \E p, q \in Pools : handle_transfer_artifact(t, p, q)
              \/ job_fails(t) \/ make_partial(t) \/ read_dir(t)
              \/ local_pool_copy(t) \/ local_renamed(t)
              \/ send_header(t) \/ send_artifact(t)
              \/ incoming_fails(t) \/ receive_header(t) \/ unpack(t)
              \/ handle_incoming_transfer(t)
         \/ \E h \in Hosts, p \in Pools :
              \/ apply_event(h, "received", p) \/ apply_event(h, "failed", p)
              \/ released(h, p)
         \/ \E p \in Pools : handle_delete_artifact(p)

TSpec == TInit /\ [][TNext]_tVars
-----------------------------------------------------------------------------
=============================================================================
