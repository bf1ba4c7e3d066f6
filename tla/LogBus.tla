------------------------------- MODULE LogBus -------------------------------
(***************************************************************************)
(* The log fan-out of the orchestrator: log_bus.rs, the ingest tasks that  *)
(* feed it (spawn_log_ingest), and the gRPC tasks that drain it            *)
(* (stream_logs).  The topics are those of one workload, one per           *)
(* container; a chunk is its sequence number, all of one size.  Whether    *)
(* the id registry knows the pod's workload yet is the variable known.     *)
(* Retired topics pass their time to live at any moment.                   *)
(***************************************************************************)
EXTENDS Integers, Sequences, FiniteSets, SequencesExt

CONSTANTS Topics, Subs,
          RingSize,        \* max_bytes_per_topic, in chunks
          ChannelSize,     \* SUBSCRIBER_CHANNEL_CAPACITY
          SweepThreshold,  \* SWEEP_THRESHOLD
          MaxSeq, MaxStreams

VARIABLES topics,    \* topic -> TopicState
          standing,  \* workload_subscriptions: the senders, in order
          chan,      \* subscriber -> its channel
          last,      \* subscriber -> topic -> last sequence number it took
          live,      \* subscribers whose receiver is alive
          known,     \* topics whose pod the id registry can resolve
          stream,    \* topic -> the ingest task of its log stream
          seq,       \* topic -> last sequence number of the source
          missed     \* chunks a live subscriber of the workload was not offered
lVars == <<topics, standing, chan, last, live, known, stream, seq, missed>>

Fresh(name) == [buffer |-> <<>>, subscribers |-> <<>>, named |-> name, retired |-> FALSE]
Subscribed == Range(standing)
Senders == Subscribed \cup UNION {Range(topics[k].subscribers) : k \in DOMAIN topics}

(* TopicState::publish: the ring keeps the newest, a full channel loses    *)
(* the chunk, a closed one its place.                                      *)
publish_topic(t, n) ==
    [t EXCEPT !.buffer = LET b == Append(@, n)
                         IN SubSeq(b, 1 + (IF Len(b) > RingSize THEN 1 ELSE 0), Len(b)),
              !.subscribers = SelectSeq(@, LAMBDA q : q \in live)]

Offered(c, k, n, subscribers) ==
    FoldLeft(LAMBDA f, q : IF q \in live /\ Len(f[q]) < ChannelSize
                           THEN [f EXCEPT ![q] = Append(@, <<k, n>>)] ELSE f,
             c, subscribers)

\* Slip: every named chunk matches the standing subscriptions again.
needs_sub_matching_always(k, name) == name

needs_sub_matching(k, name) == name /\ (k \in DOMAIN topics => ~topics[k].named)

(* LogBusHandle::publish under its lock, with the sweep at the end.        *)
publish(k, n, name) ==
    LET alive == SelectSeq(standing, LAMBDA q : q \in live)
        matching == IF needs_sub_matching(k, name) THEN alive ELSE <<>>
        old == IF k \in DOMAIN topics THEN topics[k] ELSE Fresh(name)
        joined == [old EXCEPT !.named = @ \/ name, !.retired = FALSE,
                              !.subscribers = @ \o matching]
        all == [j \in DOMAIN topics \cup {k} |-> IF j = k THEN publish_topic(joined, n) ELSE topics[j]]
        retired == {j \in DOMAIN all : all[j].retired}
    IN /\ standing' = IF needs_sub_matching(k, name) THEN alive ELSE standing
       /\ chan' = Offered(chan, k, n, joined.subscribers)
       /\ missed' = missed \cup {<<q, k, n>> : q \in (Subscribed \cap live) \ Range(joined.subscribers)}
       /\ \E gone \in IF Cardinality(DOMAIN all) > SweepThreshold THEN SUBSET retired ELSE {{}} :
             topics' = [j \in DOMAIN all \ gone |-> all[j]]

-----------------------------------------------------------------------------
(* A worker opens a log stream: the workload's name is looked up once.     *)
open_stream(k) ==
    /\ ~stream[k].open /\ stream[k].opened < MaxStreams
    /\ stream' = [stream EXCEPT ![k] = [open |-> TRUE, name |-> k \in known, opened |-> @.opened + 1]]
    /\ UNCHANGED <<topics, standing, chan, last, live, known, seq, missed>>

(* A frame arrives; an unknown name is looked up again.                    *)
recv_log_frame(k) ==
    LET name == stream[k].name \/ k \in known
    IN /\ stream[k].open /\ seq[k] < MaxSeq
       /\ seq' = [seq EXCEPT ![k] = @ + 1]
       /\ stream' = [stream EXCEPT ![k].name = name]
       /\ publish(k, seq[k] + 1, name)
       /\ UNCHANGED <<last, live, known>>

close_stream(k) ==
    /\ stream[k].open
    /\ stream' = [stream EXCEPT ![k].open = FALSE, ![k].name = FALSE]
    /\ topics' = [j \in DOMAIN topics |->
                     IF j = k THEN [topics[j] EXCEPT !.retired = TRUE] ELSE topics[j]]
    /\ UNCHANGED <<standing, chan, last, live, known, seq, missed>>

sync_dynamic_ids(k) ==
    /\ k \notin known
    /\ known' = known \cup {k}
    /\ UNCHANGED <<topics, standing, chan, last, live, stream, seq, missed>>

(* subscribe_by_workload: what the rings hold, then the channel.           *)
subscribe_by_workload(q) ==
    LET mine == {k \in DOMAIN topics : topics[k].named}
    IN /\ q \notin live /\ q \notin Senders
       /\ live' = live \cup {q}
       /\ standing' = Append(standing, q)
       /\ topics' = [k \in DOMAIN topics |->
                        IF k \in mine THEN [topics[k] EXCEPT !.subscribers = Append(@, q)] ELSE topics[k]]
       /\ last' = [last EXCEPT ![q] = [k \in Topics |->
                        IF k \in mine /\ topics[k].buffer # <<>> THEN Last(topics[k].buffer) ELSE 0]]
       /\ UNCHANGED <<chan, known, stream, seq, missed>>

(* stream_logs: the next live chunk goes to the client.                    *)
stream_logs(q) ==
    /\ q \in live /\ chan[q] # <<>>
    /\ last' = [last EXCEPT ![q][Head(chan[q])[1]] = Head(chan[q])[2]]
    /\ chan' = [chan EXCEPT ![q] = Tail(@)]
    /\ UNCHANGED <<topics, standing, live, known, stream, seq, missed>>

client_gone(q) ==
    /\ q \in live
    /\ live' = live \ {q}
    /\ chan' = [chan EXCEPT ![q] = <<>>]
    /\ missed' = {m \in missed : m[1] # q}
    /\ UNCHANGED <<topics, standing, last, known, stream, seq>>

(* The namespace is destroyed; its subscribers' channels end.              *)
remove_namespace ==
    /\ DOMAIN topics # {}
    /\ topics' = <<>> /\ standing' = <<>>
    /\ live' = {} /\ chan' = [q \in Subs |-> <<>>] /\ missed' = {}
    /\ UNCHANGED <<last, known, stream, seq>>

LInit ==
    /\ topics = <<>> /\ standing = <<>> /\ live = {} /\ known = {} /\ missed = {}
    /\ chan = [q \in Subs |-> <<>>]
    /\ last = [q \in Subs |-> [k \in Topics |-> 0]]
    /\ stream = [k \in Topics |-> [open |-> FALSE, name |-> FALSE, opened |-> 0]]
    /\ seq = [k \in Topics |-> 0]

LNext ==
    \/ \E k \in Topics : open_stream(k) \/ recv_log_frame(k) \/ close_stream(k) \/ sync_dynamic_ids(k)
    \/ \E q \in Subs : subscribe_by_workload(q) \/ stream_logs(q) \/ client_gone(q)
    \/ remove_namespace

LSpec == LInit /\ [][LNext]_lVars

-----------------------------------------------------------------------------
(* A subscriber is given each chunk of a container at most once and in     *)
(* order, over the history, the channel, topics that are named late,       *)
(* retired, swept and made again.                                          *)
ChunksComeOnceInOrder ==
    \A q \in live : \A i \in DOMAIN chan[q] :
        /\ chan[q][i][2] > last[q][chan[q][i][1]]
        /\ \A j \in 1 .. i - 1 : chan[q][j][1] = chan[q][i][1] => chan[q][j][2] < chan[q][i][2]

(* A workload's subscriber is offered every chunk published after it       *)
(* subscribed ("a receiver that will also deliver chunks from topics       *)
(* created later").                                                        *)
SubscribersMissNothing == missed = {}
=============================================================================
