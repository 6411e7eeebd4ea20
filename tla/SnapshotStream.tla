--------------------------- MODULE SnapshotStream ---------------------------
(***************************************************************************)
(* The snapshot stream from the guest to the host: publisher.go,           *)
(* internal/sensors/stream.go and hwmon_stream.go.                         *)
(*                                                                         *)
(* The guest publisher dials the host, writes one snapshot after another   *)
(* and reconnects after an error.  The host accepts one connection after   *)
(* the other, reads snapshots with a deadline and hands each one to the    *)
(* publication loop through a channel of capacity one, in which a newer    *)
(* snapshot replaces an older one that still waits.                        *)
(*                                                                         *)
(* A snapshot is its number in the order in which the guest writes them.   *)
(* VSOCK is modelled from how the code uses it: a connection waits in the  *)
(* listener's backlog, carries a bounded buffer of frames, ends with EOF   *)
(* when the guest closes it, and without any notice when the guest's VM    *)
(* disappears.  Timeouts may fire whenever the code waits for what did not *)
(* come: no clock is needed.                                               *)
(***************************************************************************)
EXTENDS Naturals, Sequences

CONSTANTS Conn,         \* connections, each reused when both ends are done
          None,
          BufferSize,   \* frames the transport buffers
          MaxSnap       \* bound on the snapshots the guest writes

ASSUME StreamAssumption ==
    None \notin Conn /\ BufferSize \in Nat \ {0} /\ MaxSnap \in Nat

Torn == 0               \* a frame cut short by a failed write
Frame == 0..MaxSnap

VARIABLES
    conn,       \* the connections
    backlog,    \* those the host has not accepted yet, in order
    own,        \* the connection the publisher writes to, or None
    status,     \* publisherRuntimeStatus.status
    written,    \* the number of the last snapshot written
    rx,         \* receiveSnapshots: [pc, c, snap]
    queue,      \* the channel: a snapshot, or none
    taken,      \* the snapshot the publication loop has taken, or none
    published,  \* the number of the last snapshot published
    received, lastTaken \* what this daemon read and took last

historyVars == <<received, lastTaken>>
vars == <<conn, backlog, own, status, written, rx, queue, taken, published, historyVars>>

Closed == [peer |-> "none", guest |-> "closed", host |-> "closed", buf |-> <<>>]
Snapshot == [n : 1..MaxSnap, expired : BOOLEAN]
Idle == [pc |-> "accept", c |-> None, snap |-> 0]

TypeOK ==
    /\ conn \in [Conn -> [peer : {"guest", "other", "none"},
                          guest : {"open", "closed", "vanished"},
                          host : {"backlog", "serving", "closed"}, buf : Seq(Frame)]]
    /\ \A c \in Conn : Len(conn[c].buf) <= BufferSize + 1
    /\ backlog \in Seq(Conn)
    /\ own \in Conn \cup {None} /\ status \in {"connected", "reconnecting"}
    /\ written \in 0..MaxSnap
    /\ rx \in [pc : {"accept", "read", "offer", "evict", "insert"},
               c : Conn \cup {None}, snap : 0..MaxSnap]
    /\ queue \in {<<>>} \cup {<<s>> : s \in Snapshot}
    /\ taken \in {<<>>} \cup {<<s>> : s \in Snapshot}
    /\ published \in 0..MaxSnap /\ received \in 0..MaxSnap /\ lastTaken \in 0..MaxSnap

Init ==
    /\ conn = [c \in Conn |-> Closed] /\ backlog = <<>>
    /\ own = None /\ status = "reconnecting" /\ written = 0
    /\ rx = Idle /\ queue = <<>> /\ taken = <<>> /\ published = 0
    /\ received = 0 /\ lastTaken = 0

-----------------------------------------------------------------------------
(* One end of a connection goes away; when both have, nothing is left.     *)
GuestGone(x, how) == IF x.host = "closed" THEN Closed ELSE [x EXCEPT !.guest = how]
HostGone(x) ==
    IF x.guest = "open" THEN [x EXCEPT !.host = "closed", !.buf = <<>>] ELSE Closed

(* The publisher: dial, then connectedNow.  A failed dial changes nothing: *)
(* the status is already "reconnecting".  Any other process may dial the   *)
(* host's port too.                                                        *)
Connect(c, peer) ==
    /\ conn[c] = Closed
    /\ conn' = [conn EXCEPT ![c] = [peer |-> peer, guest |-> "open", host |-> "backlog",
                                    buf |-> <<>>]]
    /\ backlog' = Append(backlog, c)

Dial(c) ==
    /\ own = None /\ Connect(c, "guest")
    /\ own' = c /\ status' = "connected"
    /\ UNCHANGED <<written, rx, queue, taken, published, historyVars>>

DialOther(c) ==
    /\ Connect(c, "other")
    /\ UNCHANGED <<own, status, written, rx, queue, taken, published, historyVars>>

(* publishConnection: one frame.                                           *)
WriteFrame ==
    /\ own # None /\ conn[own].host # "closed"
    /\ Len(conn[own].buf) < BufferSize /\ written < MaxSnap
    /\ written' = written + 1
    /\ conn' = [conn EXCEPT ![own].buf = Append(@, written + 1)]
    /\ UNCHANGED <<backlog, own, status, rx, queue, taken, published, historyVars>>

(* The write fails: the host closed the connection, the write deadline     *)
(* passed on a full buffer, or the snapshot cannot be encoded.  A part of  *)
(* the frame may be in the buffer.  The publisher closes and reconnects.   *)
TornWrite(x) == [x EXCEPT !.guest = "closed", !.buf = Append(@, Torn)]

WriteError ==
    /\ own # None /\ own' = None
    /\ \/ conn' = [conn EXCEPT ![own] = GuestGone(@, "closed")]
       \/ /\ conn[own].host # "closed"
          /\ conn' = [conn EXCEPT ![own] = TornWrite(@)]
    /\ status' = "reconnecting"
    /\ UNCHANGED <<backlog, written, rx, queue, taken, published, historyVars>>

(* The guest's service, or its whole VM, restarts.                         *)
GuestRestart ==
    /\ own # None /\ own' = None
    /\ \E how \in {"closed", "vanished"} :
          conn' = [conn EXCEPT ![own] = GuestGone(@, how)]
    /\ status' = "reconnecting"
    /\ UNCHANGED <<backlog, written, rx, queue, taken, published, historyVars>>

OtherCloses(c) ==
    /\ conn[c].peer = "other" /\ conn[c].guest = "open"
    /\ conn' = [conn EXCEPT ![c] = GuestGone(@, "closed")]
    /\ UNCHANGED <<backlog, own, status, written, rx, queue, taken, published, historyVars>>

-----------------------------------------------------------------------------
(* receiveSnapshots: accept, and refuse a peer with an unexpected CID.     *)
Accept ==
    /\ rx.pc = "accept" /\ backlog # <<>>
    /\ backlog' = Tail(backlog)
    /\ LET c == Head(backlog) IN
       IF conn[c].peer = "guest"
       THEN /\ rx' = [rx EXCEPT !.pc = "read", !.c = c]
            /\ conn' = [conn EXCEPT ![c].host = "serving"]
       ELSE /\ conn' = [conn EXCEPT ![c] = HostGone(@)]
            /\ UNCHANGED rx
    /\ UNCHANGED <<own, status, written, queue, taken, published, historyVars>>

ReadFrame ==
    /\ rx.pc = "read" /\ conn[rx.c].buf # <<>> /\ Head(conn[rx.c].buf) # Torn
    /\ rx' = [rx EXCEPT !.pc = "offer", !.snap = Head(conn[rx.c].buf)]
    /\ conn' = [conn EXCEPT ![rx.c].buf = Tail(@)]
    /\ received' = Head(conn[rx.c].buf)
    /\ UNCHANGED <<backlog, own, status, written, queue, taken, published, lastTaken>>

(* A read error ends the connection: a frame that does not decode, EOF, or *)
(* the read deadline when nothing came.                                    *)
Unreadable_NoDeadline(x) ==
    \/ x.buf # <<>> /\ Head(x.buf) = Torn
    \/ x.buf = <<>> /\ x.guest = "closed"
Unreadable(x) ==
    \/ x.buf # <<>> /\ Head(x.buf) = Torn
    \/ x.buf = <<>>

ReadError ==
    /\ rx.pc = "read" /\ Unreadable(conn[rx.c])
    /\ conn' = [conn EXCEPT ![rx.c] = HostGone(@)]
    /\ rx' = Idle
    /\ UNCHANGED <<backlog, own, status, written, queue, taken, published, historyVars>>

(* sendLatestSnapshot: try to send; if the channel is full, take out what  *)
(* waits, unless the publication loop was faster, and send.                *)
ReceivedNow == <<[n |-> rx.snap, expired |-> FALSE]>>

Offer_KeepsOldest ==
    /\ rx.pc = "offer"
    /\ queue' = IF queue = <<>> THEN ReceivedNow ELSE queue
    /\ rx' = [rx EXCEPT !.pc = "read", !.snap = 0]
    /\ UNCHANGED <<conn, backlog, own, status, written, taken, published, historyVars>>
Offer ==
    /\ rx.pc = "offer"
    /\ \/ /\ queue = <<>> /\ queue' = ReceivedNow
          /\ rx' = [rx EXCEPT !.pc = "read", !.snap = 0]
       \/ /\ queue # <<>> /\ UNCHANGED queue
          /\ rx' = [rx EXCEPT !.pc = "evict"]
    /\ UNCHANGED <<conn, backlog, own, status, written, taken, published, historyVars>>

Evict_Skipped ==
    /\ rx.pc = "evict" /\ rx' = [rx EXCEPT !.pc = "insert"]
    /\ UNCHANGED <<conn, backlog, own, status, written, queue, taken, published, historyVars>>
Evict ==
    /\ rx.pc = "evict" /\ rx' = [rx EXCEPT !.pc = "insert"]
    /\ queue' = <<>>
    /\ UNCHANGED <<conn, backlog, own, status, written, taken, published, historyVars>>

Insert ==
    /\ rx.pc = "insert" /\ queue = <<>>
    /\ queue' = ReceivedNow
    /\ rx' = [rx EXCEPT !.pc = "read", !.snap = 0]
    /\ UNCHANGED <<conn, backlog, own, status, written, taken, published, historyVars>>

-----------------------------------------------------------------------------
(* hwmonOrchestrationLoop takes a snapshot and publishes it unless it has  *)
(* waited too long (HwmonPublisher models the publication itself).         *)
Take_Copy ==
    /\ taken = <<>> /\ queue # <<>>
    /\ lastTaken' = queue[1].n /\ taken' = queue /\ UNCHANGED queue
    /\ UNCHANGED <<conn, backlog, own, status, written, rx, published, received>>
Take ==
    /\ taken = <<>> /\ queue # <<>>
    /\ lastTaken' = queue[1].n /\ taken' = queue /\ queue' = <<>>
    /\ UNCHANGED <<conn, backlog, own, status, written, rx, published, received>>

Expire ==
    /\ queue # <<>> /\ ~queue[1].expired
    /\ queue' = <<[queue[1] EXCEPT !.expired = TRUE]>>
    /\ UNCHANGED <<conn, backlog, own, status, written, rx, taken, published, historyVars>>

Publish ==
    /\ taken # <<>> /\ ~taken[1].expired
    /\ published' = taken[1].n /\ taken' = <<>>
    /\ UNCHANGED <<conn, backlog, own, status, written, rx, queue, historyVars>>

Discard ==
    /\ taken # <<>> /\ taken[1].expired /\ taken' = <<>>
    /\ UNCHANGED <<conn, backlog, own, status, written, rx, queue, published, historyVars>>

(* The daemon restarts: accept failed, or it was stopped or killed.        *)
HostRestart ==
    /\ conn' = [c \in Conn |-> HostGone(conn[c])]
    /\ backlog' = <<>> /\ rx' = Idle /\ queue' = <<>> /\ taken' = <<>>
    /\ received' = 0 /\ lastTaken' = 0
    /\ UNCHANGED <<own, status, written, published>>

Receive == Accept \/ ReadFrame \/ ReadError \/ Offer \/ Evict \/ Insert
Consume == Take \/ Publish \/ Discard

Next ==
    \/ \E c \in Conn : Dial(c) \/ DialOther(c) \/ OtherCloses(c)
    \/ WriteFrame \/ WriteError \/ GuestRestart
    \/ Receive \/ Consume \/ Expire \/ HostRestart

Spec == Init /\ [][Next]_vars

(* Both goroutines of the daemon keep running while they have work; the    *)
(* read deadline fires.  Nothing is assumed of the guest.                  *)
FairSpec == Spec /\ WF_vars(Receive) /\ WF_vars(Consume)

-----------------------------------------------------------------------------
(* Snapshots are published in the order in which the guest wrote them, and *)
(* none twice, across reconnections, restarts of either side and           *)
(* replacements in the channel.                                            *)
PublishedInOrder == [][Publish => taken[1].n > published]_vars

(* Latest wins: when the receiver has handed a snapshot over, it waits in  *)
(* the channel or is the one that the loop took last; it is never dropped  *)
(* in favour of an older one, however slow a publication is.               *)
LatestWins ==
    rx.pc \in {"accept", "read"} /\ received > 0 =>
        \/ queue # <<>> /\ queue[1].n = received
        \/ queue = <<>> /\ lastTaken = received

(* The last send of sendLatestSnapshot never blocks, so that a publication *)
(* of any length cannot stop the receiver from seeing a dead connection.   *)
ReceiverNeverBlocks == rx.pc = "insert" => queue = <<>>

(* The receiver reaches every connection of the guest: whatever became of *)
(* those before it (closed, torn, vanished without notice, from another    *)
(* peer), it does not stay in the backlog.                                 *)
EveryConnectionServed ==
    \A c \in Conn :
        conn[c].peer = "guest" /\ conn[c].host = "backlog" ~> conn[c].host # "backlog"

(* sendLatestSnapshot against a publication of any length: the newest      *)
(* snapshot is kept, and the receiver does not wait.                       *)
HandsOverLatest == TypeOK /\ LatestWins /\ ReceiverNeverBlocks

=============================================================================
