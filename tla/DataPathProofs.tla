--------------------------- MODULE DataPathProofs ---------------------------
(***************************************************************************)
(* The way of the data from the disks of the guest to the sensors of the   *)
(* host: the safety properties of SnapshotStream (how snapshots travel),   *)
(* of Samples (what the host makes of one) and of Inventory (which disks   *)
(* are in it), for every value of their constants: any number of           *)
(* connections, disks, HBAs and rows, any readings and any failures of     *)
(* writes.                                                                 *)
(*                                                                         *)
(* The three modules share no variable and no definition. Samples and      *)
(* Inventory compute with loops, written as recursive functions; two       *)
(* lemmas after the theorems about the stream turn induction over them     *)
(* into facts about sets of numbers.                                       *)
(***************************************************************************)
EXTENDS SnapshotStream, Samples, Inventory, FiniteSetTheorems, TLAPS

(* The publisher's connection is its open end; only a torn frame, whose    *)
(* write closes the connection, goes beyond the buffer.                    *)
OwnInv ==
    /\ own # None => conn[own].guest = "open" /\ conn[own].peer = "guest"
    /\ \A c \in Conn : conn[c].guest = "open" => Len(conn[c].buf) <= BufferSize

(* The receiver serves one connection, the one it reads from, and the      *)
(* backlog holds the others, each once.                                    *)
ServingInv ==
    /\ rx.pc # "accept" => rx.c \in Conn /\ conn[rx.c].host = "serving"
    /\ \A c \in Conn : conn[c].host = "serving" => rx.pc # "accept" /\ rx.c = c
    /\ \A i \in 1..Len(backlog) : conn[backlog[i]].host = "backlog"
    /\ \A i, j \in 1..Len(backlog) : i < j => backlog[i] # backlog[j]

(* Between reading a snapshot and handing it over.                         *)
Holding == rx.pc \in {"offer", "evict", "insert"}
HoldInv == Holding => rx.snap = received /\ received > 0

(* Everything in t that can be decoded was written after everything in s.  *)
Before(s, t) ==
    \A i \in 1..Len(s), j \in 1..Len(t) : t[j] # Torn => s[i] < t[j]
Sorted(s) ==
    \A i, j \in 1..Len(s) : i < j /\ s[j] # Torn => s[i] < s[j]
UpTo(s, high) == \A i \in 1..Len(s) : s[i] <= high
Within(s, low, high) ==
    \A i \in 1..Len(s) : s[i] # Torn => low < s[i] /\ s[i] <= high

(* Nothing of the guest's waits behind the connection it writes to.        *)
LastInv ==
    /\ \A c \in Conn : conn[c].peer # "guest" => conn[c].buf = <<>>
    /\ own # None =>
        /\ conn[own].host = "serving" =>
              \A j \in 1..Len(backlog) : conn[backlog[j]].peer # "guest"
        /\ \A i, j \in 1..Len(backlog) :
              i < j /\ backlog[i] = own => conn[backlog[j]].peer # "guest"

(* The connections are served in the order in which their frames were      *)
(* written, and what they still hold is newer than what was read.          *)
OrderInv ==
    /\ \A c \in Conn : Sorted(conn[c].buf) /\ UpTo(conn[c].buf, written)
    /\ \A c \in Conn : conn[c].host = "serving" =>
          \A j \in 1..Len(backlog) : Before(conn[c].buf, conn[backlog[j]].buf)
    /\ \A i, j \in 1..Len(backlog) :
          i < j => Before(conn[backlog[i]].buf, conn[backlog[j]].buf)

NewerInv(low) ==
    /\ \A c \in Conn : conn[c].host = "serving" => Within(conn[c].buf, low, written)
    /\ \A j \in 1..Len(backlog) : Within(conn[backlog[j]].buf, low, written)

(* What was handed over is newer than what was published, what waits is    *)
(* newer than what was taken, and what the receiver holds newer than both. *)
ChannelInv ==
    /\ received <= written /\ published <= written
    /\ Holding => published < received
    /\ queue # <<>> =>
        /\ published < queue[1].n /\ queue[1].n <= received
        /\ Holding => queue[1].n < received
    /\ taken # <<>> =>
        /\ published < taken[1].n /\ taken[1].n <= received
        /\ Holding => taken[1].n < received
        /\ queue # <<>> => taken[1].n < queue[1].n

HandInv == TypeOK /\ OwnInv /\ ServingInv /\ HoldInv /\ LatestWins /\ ReceiverNeverBlocks
IndInv == /\ HandInv /\ LastInv /\ OrderInv
          /\ NewerInv(received) /\ NewerInv(published) /\ ChannelInv

-----------------------------------------------------------------------------
ConnType == [peer : {"guest", "other", "none"},
             guest : {"open", "closed", "vanished"},
             host : {"backlog", "serving", "closed"}, buf : Seq(Frame)]

(* A connection keeps its type when either end goes away.                  *)
LEMMA ConnTyped ==
    /\ Closed \in ConnType
    /\ \A x \in ConnType :
          /\ HostGone(x) \in ConnType
          /\ \A how \in {"closed", "vanished"} : GuestGone(x, how) \in ConnType
<1>1. <<>> \in Seq(Frame)
  OBVIOUS
<1>2. Closed \in ConnType
  BY <1>1 DEF Closed, ConnType
<1> QED
  BY <1>1, <1>2 DEF HostGone, GuestGone, ConnType

(* The stream starts empty and well-typed.                                 *)
LEMMA TypeInit == Init => TypeOK
<1> SUFFICES ASSUME Init PROVE TypeOK
  OBVIOUS
<1>1. conn \in [Conn -> ConnType] /\ \A c \in Conn : Len(conn[c].buf) = 0
  BY ConnTyped DEF Init, Closed
<1>2. 0 \in 0..MaxSnap
  BY StreamAssumption
<1> QED
  BY <1>1, <1>2, StreamAssumption DEF Init, TypeOK, ConnType, Idle

ConnOK(x) == x \in ConnType /\ Len(x.buf) <= BufferSize + 1

(* Replacing one connection by another well-typed one, or only its host    *)
(* end or its buffer.                                                      *)
LEMMA ConnUpdate ==
    ASSUME conn \in [Conn -> ConnType], \A d \in Conn : ConnOK(conn[d]),
           NEW c \in Conn, NEW x, ConnOK(x), conn' = [conn EXCEPT ![c] = x]
    PROVE  conn' \in [Conn -> ConnType] /\ \A d \in Conn : ConnOK(conn'[d])
BY DEF ConnOK

(* Every step keeps the types and the bound of the buffers.                *)
LEMMA TypeStep ==
    TypeOK /\ OwnInv /\ ServingInv /\ HoldInv /\ [Next]_vars => TypeOK'
<1> SUFFICES ASSUME TypeOK, OwnInv, ServingInv, HoldInv, [Next]_vars PROVE TypeOK'
  OBVIOUS
<1> USE StreamAssumption
<1>a. conn \in [Conn -> ConnType] /\ \A d \in Conn : ConnOK(conn[d])
  BY DEF TypeOK, ConnType, ConnOK
<1>b. ASSUME conn' \in [Conn -> ConnType], \A d \in Conn : ConnOK(conn'[d])
      PROVE  /\ conn' \in [Conn -> [peer : {"guest", "other", "none"},
                                   guest : {"open", "closed", "vanished"},
                                   host : {"backlog", "serving", "closed"}, buf : Seq(Frame)]]
             /\ \A d \in Conn : Len(conn'[d].buf) <= BufferSize + 1
  BY <1>b DEF ConnType, ConnOK
<1>c. ConnOK(Closed) /\ \A d \in Conn : ConnOK(HostGone(conn[d]))
  <2>1. Len(Closed.buf) = 0 /\ \A d \in Conn : HostGone(conn[d]).buf = <<>>
    BY <1>a DEF HostGone, Closed, ConnType
  <2>2. Closed \in ConnType /\ \A d \in Conn : HostGone(conn[d]) \in ConnType
    BY <1>a, ConnTyped
  <2> QED
    BY <2>1, <2>2 DEF ConnOK
<1>d. \A d \in Conn, how \in {"closed", "vanished"} : ConnOK(GuestGone(conn[d], how))
  BY <1>a, ConnTyped DEF ConnOK, GuestGone, Closed, ConnType
<1>1. ASSUME NEW c \in Conn, NEW peer \in {"guest", "other"}, Connect(c, peer)
      PROVE  /\ conn' \in [Conn -> ConnType] /\ \A d \in Conn : ConnOK(conn'[d])
             /\ backlog' \in Seq(Conn)
  <2> DEFINE x == [peer |-> peer, guest |-> "open", host |-> "backlog", buf |-> <<>>]
  <2>1. x.buf \in Seq(Frame) /\ Len(x.buf) = 0
    OBVIOUS
  <2>2. ConnOK(x)
    BY <2>1 DEF ConnOK, ConnType
  <2>3. conn' = [conn EXCEPT ![c] = x]
    BY <1>1 DEF Connect
  <2> HIDE DEF x
  <2>4. backlog' \in Seq(Conn)
    BY <1>1 DEF Connect, TypeOK
  <2> QED
    BY <2>2, <2>3, <2>4, <1>a, ConnUpdate
<1>2. ASSUME NEW c \in Conn, Dial(c) PROVE TypeOK'
  <2>1. Connect(c, "guest")
    BY <1>2 DEF Dial
  <2> QED
    BY <1>1, <1>2, <1>b, <2>1 DEF Dial, historyVars, TypeOK
<1>3. ASSUME NEW c \in Conn, DialOther(c) PROVE TypeOK'
  <2>1. Connect(c, "other")
    BY <1>3 DEF DialOther
  <2> QED
    BY <1>1, <1>3, <1>b, <2>1 DEF DialOther, historyVars, TypeOK
<1>4. ASSUME NEW c \in Conn, OtherCloses(c) PROVE TypeOK'
  <2>1. conn' \in [Conn -> ConnType] /\ \A d \in Conn : ConnOK(conn'[d])
    BY <1>4, <1>a, <1>d, ConnUpdate DEF OtherCloses
  <2> QED
    BY <1>4, <2>1, <1>b DEF OtherCloses, historyVars, TypeOK
<1>5. CASE WriteFrame
  <2>0. own \in Conn /\ written + 1 \in 0..MaxSnap
    BY <1>5 DEF WriteFrame, TypeOK
  <2> DEFINE x == [conn[own] EXCEPT !.buf = Append(@, written + 1)]
  <2>1. conn' = [conn EXCEPT ![own] = x]
    BY <1>5 DEF WriteFrame
  <2>2. Append(conn[own].buf, written + 1) \in Seq(Frame)
    BY <2>0, <1>a DEF ConnType, Frame
  <2>3. ConnOK(x)
    <3>1. x \in ConnType /\ x.buf = Append(conn[own].buf, written + 1)
      BY <2>0, <2>2, <1>a DEF ConnType
    <3>2. Len(conn[own].buf) <= BufferSize /\ conn[own].buf \in Seq(Frame)
      BY <1>5, <2>0, <1>a DEF WriteFrame, OwnInv, ConnType
    <3>3. Len(x.buf) = Len(conn[own].buf) + 1
      BY <3>1, <3>2, <2>0 DEF Frame
    <3> QED
      BY <3>1, <3>2, <3>3 DEF ConnOK
  <2> HIDE DEF x
  <2>4. conn' \in [Conn -> ConnType] /\ \A d \in Conn : ConnOK(conn'[d])
    BY <2>0, <2>1, <2>3, <1>a, ConnUpdate
  <2> QED
    BY <1>5, <2>0, <2>4, <1>b DEF WriteFrame, historyVars, TypeOK
<1>6. CASE WriteError
  <2>0. own \in Conn
    BY <1>6 DEF WriteError, TypeOK
  <2> DEFINE x == TornWrite(conn[own])
  <2>1. conn' = [conn EXCEPT ![own] = GuestGone(conn[own], "closed")]
        \/ conn' = [conn EXCEPT ![own] = x]
    BY <1>6 DEF WriteError
  <2>2. Append(conn[own].buf, Torn) \in Seq(Frame)
    BY <2>0, <1>a DEF ConnType, Torn, Frame
  <2>3. Len(Append(conn[own].buf, Torn)) = Len(conn[own].buf) + 1
    BY <2>0, <1>a DEF ConnType, Torn, Frame
  <2>4. ConnOK(x)
    <3>1. x \in ConnType /\ x.buf = Append(conn[own].buf, Torn)
      BY <2>0, <2>2, <1>a DEF ConnType, TornWrite
    <3>2. Len(conn[own].buf) <= BufferSize /\ conn[own].buf \in Seq(Frame)
      BY <1>6, <2>0, <1>a DEF WriteError, OwnInv, ConnType
    <3> QED
      BY <3>1, <3>2, <2>3 DEF ConnOK
  <2> HIDE DEF x
  <2>5. conn' \in [Conn -> ConnType] /\ \A d \in Conn : ConnOK(conn'[d])
    BY <2>0, <2>1, <2>4, <1>a, <1>d, ConnUpdate
  <2> QED
    BY <1>6, <2>5, <1>b DEF WriteError, historyVars, TypeOK
<1>7. CASE GuestRestart
  <2>0. own \in Conn
    BY <1>7 DEF GuestRestart, TypeOK
  <2>1. PICK how \in {"closed", "vanished"} :
            conn' = [conn EXCEPT ![own] = GuestGone(@, how)]
    BY <1>7 DEF GuestRestart
  <2>2. conn' \in [Conn -> ConnType] /\ \A d \in Conn : ConnOK(conn'[d])
    BY <2>0, <2>1, <1>a, <1>d, ConnUpdate
  <2> QED
    BY <1>7, <2>2, <1>b DEF GuestRestart, historyVars, TypeOK
<1>8. CASE Accept
  <2> DEFINE c == Head(backlog)
             x == [conn[c] EXCEPT !.host = "serving"]
  <2>0. c \in Conn /\ Tail(backlog) \in Seq(Conn)
    BY <1>8 DEF Accept, TypeOK
  <2>1. \/ conn' = [conn EXCEPT ![c] = x] /\ rx' = [rx EXCEPT !.pc = "read", !.c = c]
        \/ conn' = [conn EXCEPT ![c] = HostGone(conn[c])] /\ rx' = rx
    BY <1>8 DEF Accept
  <2> HIDE DEF c
  <2>2. ConnOK(x)
    BY <2>0, <1>a DEF ConnOK, ConnType
  <2> HIDE DEF x
  <2>3. conn' \in [Conn -> ConnType] /\ \A d \in Conn : ConnOK(conn'[d])
    BY <2>0, <2>1, <2>2, <1>a, <1>c, ConnUpdate
  <2> QED
    BY <1>8, <2>0, <2>1, <2>3, <1>b DEF Accept, historyVars, TypeOK
<1>9. CASE ReadFrame
  <2> DEFINE c == rx.c
             x == [conn[c] EXCEPT !.buf = Tail(@)]
  <2>0. c \in Conn /\ conn[c].buf # <<>>
    BY <1>9 DEF ReadFrame, ServingInv
  <2>1. conn' = [conn EXCEPT ![c] = x] /\ received' = Head(conn[c].buf)
        /\ rx' = [rx EXCEPT !.pc = "offer", !.snap = Head(conn[c].buf)]
    BY <1>9 DEF ReadFrame
  <2> HIDE DEF c
  <2>2. /\ Head(conn[c].buf) \in Frame /\ Tail(conn[c].buf) \in Seq(Frame)
        /\ Len(Tail(conn[c].buf)) <= BufferSize + 1
    BY <2>0, <1>a DEF ConnOK, ConnType
  <2>3. ConnOK(x)
    BY <2>0, <2>2, <1>a DEF ConnOK, ConnType
  <2> HIDE DEF x
  <2>4. conn' \in [Conn -> ConnType] /\ \A d \in Conn : ConnOK(conn'[d])
    BY <2>0, <2>1, <2>3, <1>a, ConnUpdate
  <2> QED
    BY <1>9, <2>1, <2>2, <2>4, <1>b DEF ReadFrame, Frame, TypeOK
<1>10. CASE ReadError
  <2>0. rx.c \in Conn
    BY <1>10 DEF ReadError, ServingInv
  <2>1. conn' \in [Conn -> ConnType] /\ \A d \in Conn : ConnOK(conn'[d])
    BY <1>10, <2>0, <1>a, <1>c, ConnUpdate DEF ReadError
  <2> QED
    BY <1>10, <2>1, <1>b DEF ReadError, historyVars, Idle, TypeOK
<1>11. Holding => ReceivedNow \in {<<s>> : s \in Snapshot}
  <2>1. Holding => [n |-> rx.snap, expired |-> FALSE] \in Snapshot
    BY DEF HoldInv, Snapshot, TypeOK
  <2> QED
    BY <2>1, Zenon DEF ReceivedNow
<1>12. CASE Offer
  <2>1. queue' \in {<<>>} \cup {<<s>> : s \in Snapshot}
    BY <1>12, <1>11 DEF Offer, Holding, TypeOK
  <2>2. rx'.pc \in {"read", "evict"} /\ rx'.c = rx.c /\ rx'.snap \in {0, rx.snap}
        /\ rx' = [pc |-> rx'.pc, c |-> rx'.c, snap |-> rx'.snap]
    BY <1>12 DEF Offer, TypeOK
  <2> QED
    BY <1>12, <2>1, <2>2 DEF Offer, historyVars, TypeOK
<1>13. CASE Evict
  BY <1>13 DEF Evict, historyVars, TypeOK
<1>14. CASE Insert
  <2>1. queue' \in {<<>>} \cup {<<s>> : s \in Snapshot}
    BY <1>14, <1>11 DEF Insert, Holding
  <2>2. rx' \in [pc : {"read"}, c : {rx.c}, snap : {0}]
    BY <1>14 DEF Insert, TypeOK
  <2> QED
    BY <1>14, <2>1, <2>2 DEF Insert, historyVars, TypeOK
<1>15. CASE Take
  BY <1>15 DEF Take, Snapshot, TypeOK
<1>16. CASE Publish
  BY <1>16 DEF Publish, historyVars, Snapshot, TypeOK
<1>17. CASE Discard
  BY <1>17 DEF Discard, historyVars, TypeOK
<1>18. CASE Expire
  <2>1. PICK s \in Snapshot : queue = <<s>>
    BY <1>18 DEF Expire, TypeOK
  <2>2. queue' = <<[s EXCEPT !.expired = TRUE]>> /\ [s EXCEPT !.expired = TRUE] \in Snapshot
    BY <1>18, <2>1 DEF Expire, Snapshot
  <2> QED
    BY <1>18, <2>2 DEF Expire, historyVars, TypeOK
<1>19. CASE HostRestart
  <2>1. conn' \in [Conn -> ConnType] /\ \A d \in Conn : ConnOK(conn'[d])
    BY <1>19, <1>a, <1>c, ConnTyped DEF HostRestart
  <2> QED
    BY <1>19, <2>1, <1>b DEF HostRestart, Idle, TypeOK
<1>20. CASE UNCHANGED vars
  BY <1>20 DEF vars, historyVars, TypeOK
<1> QED
  BY <1>2, <1>3, <1>4, <1>5, <1>6, <1>7, <1>8, <1>9, <1>10, <1>12, <1>13, <1>14,
     <1>15, <1>16, <1>17, <1>18, <1>19, <1>20 DEF Next, Receive, Consume

-----------------------------------------------------------------------------
(* What is left of a connection that the host gave up.                     *)
LEMMA HostGoneIs ==
    ASSUME NEW x \in ConnType
    PROVE  /\ HostGone(x).host = "closed" /\ HostGone(x).buf = <<>>
           /\ HostGone(x).guest = "open" <=> x.guest = "open"
           /\ x.guest = "open" => HostGone(x).peer = x.peer
BY DEF HostGone, Closed, ConnType

(* What is left of a connection that its other end gave up.                *)
LEMMA GuestGoneIs ==
    ASSUME NEW x \in ConnType, NEW how \in {"closed", "vanished"}
    PROVE  /\ GuestGone(x, how).host = x.host /\ GuestGone(x, how).guest # "open"
           /\ GuestGone(x, how).buf \in {<<>>, x.buf}
           /\ x.host # "closed" => GuestGone(x, how).peer = x.peer
           /\ x.host = "closed" => GuestGone(x, how).buf = <<>>
BY DEF GuestGone, Closed, ConnType

(* A new connection goes to the end of the backlog, with nothing in it.    *)
LEMMA Connects ==
    ASSUME TypeOK, NEW c \in Conn, NEW peer \in {"guest", "other"}, Connect(c, peer)
    PROVE  /\ conn[c].host = "closed" /\ conn[c].guest = "closed"
           /\ \A d \in Conn \ {c} : conn'[d] = conn[d]
           /\ conn'[c].peer = peer /\ conn'[c].guest = "open"
           /\ conn'[c].host = "backlog" /\ conn'[c].buf = <<>>
           /\ Len(backlog') = Len(backlog) + 1 /\ backlog'[Len(backlog) + 1] = c
           /\ \A j \in 1..Len(backlog) : backlog'[j] = backlog[j] /\ backlog[j] \in Conn
BY DEF TypeOK, Connect, Closed

(* A failed write, and a restart of the guest, end the publisher's own     *)
(* connection: nothing is added to it but possibly a torn frame.           *)
LEMMA GuestEnds ==
    ASSUME TypeOK, WriteError \/ GuestRestart
    PROVE  /\ own \in Conn /\ own' = None
           /\ \A d \in Conn \ {own} : conn'[d] = conn[d]
           /\ conn'[own].host = conn[own].host /\ conn'[own].guest # "open"
           /\ conn'[own].buf \in {<<>>, conn[own].buf, Append(conn[own].buf, Torn)}
           /\ conn[own].host # "closed" => conn'[own].peer = conn[own].peer
           /\ conn[own].host = "closed" => conn'[own].buf = <<>>
           /\ UNCHANGED <<backlog, written, rx, queue, taken, published, received>>
<1>1. own \in Conn /\ own' = None /\ conn \in [Conn -> ConnType]
  BY StreamAssumption DEF TypeOK, WriteError, GuestRestart, ConnType
<1>2. UNCHANGED <<backlog, written, rx, queue, taken, published, received>>
  BY DEF WriteError, GuestRestart, historyVars
<1>3. PICK x : /\ conn' = [conn EXCEPT ![own] = x]
               /\ \/ \E how \in {"closed", "vanished"} : x = GuestGone(conn[own], how)
                  \/ conn[own].host # "closed" /\ x = TornWrite(conn[own])
  <2>1. CASE WriteError
    BY <2>1 DEF WriteError
  <2>2. CASE GuestRestart
    BY <2>2 DEF GuestRestart
  <2> QED
    BY <2>1, <2>2
<1>4. /\ x.host = conn[own].host /\ x.guest # "open"
      /\ x.buf \in {<<>>, conn[own].buf, Append(conn[own].buf, Torn)}
      /\ conn[own].host # "closed" => x.peer = conn[own].peer
      /\ conn[own].host = "closed" => x.buf = <<>>
  <2>1. CASE conn[own].host # "closed" /\ x = TornWrite(conn[own])
    BY <1>1, <2>1 DEF TornWrite, ConnType
  <2>2. ASSUME NEW how \in {"closed", "vanished"}, x = GuestGone(conn[own], how)
        PROVE  <1>4
    BY <1>1, <2>2, GuestGoneIs
  <2> QED
    BY <1>3, <2>1, <2>2
<1> QED
  BY <1>1, <1>2, <1>3, <1>4

(* Accepting takes the oldest connection out of the backlog: the guest's   *)
(* is served, any other is closed.                                         *)
LEMMA Accepts ==
    ASSUME TypeOK, Accept
    PROVE  LET c == Head(backlog) IN
           /\ c \in Conn /\ backlog # <<>> /\ backlog' = Tail(backlog)
           /\ c = backlog[1] /\ Len(backlog') + 1 = Len(backlog)
           /\ \A j \in 1..Len(backlog') : backlog'[j] = backlog[j + 1]
           /\ \A d \in Conn \ {c} : conn'[d] = conn[d]
           /\ conn'[c].guest = "open" <=> conn[c].guest = "open"
           /\ conn[c].guest = "open" => conn'[c].peer = conn[c].peer
           /\ \/ /\ conn'[c].host = "serving" /\ conn'[c].buf = conn[c].buf
                 /\ conn[c].peer = "guest" /\ conn'[c].peer = "guest"
                 /\ rx'.pc = "read" /\ rx'.c = c
              \/ conn'[c].host = "closed" /\ conn'[c].buf = <<>> /\ rx' = rx
           /\ UNCHANGED <<own, written, queue, taken, published, received>>
<1>1. /\ Head(backlog) \in Conn /\ backlog # <<>> /\ backlog' = Tail(backlog)
      /\ Head(backlog) = backlog[1] /\ Len(backlog') + 1 = Len(backlog)
      /\ \A j \in 1..Len(backlog') : backlog'[j] = backlog[j + 1]
  BY DEF Accept, TypeOK
<1>2. conn \in [Conn -> ConnType]
  BY DEF TypeOK, ConnType
<1>3. UNCHANGED <<own, written, queue, taken, published, received>>
  BY DEF Accept, historyVars
<1>4. CASE conn[Head(backlog)].peer = "guest"
  <2>1. /\ rx' = [rx EXCEPT !.pc = "read", !.c = Head(backlog)]
        /\ conn' = [conn EXCEPT ![Head(backlog)].host = "serving"]
    BY <1>4 DEF Accept
  <2>2. rx'.pc = "read" /\ rx'.c = Head(backlog)
    BY <2>1 DEF TypeOK
  <2> QED
    BY <1>1, <1>2, <1>3, <1>4, <2>1, <2>2 DEF ConnType
<1>5. CASE conn[Head(backlog)].peer # "guest"
  <2>1. rx' = rx /\ conn' = [conn EXCEPT ![Head(backlog)] = HostGone(conn[Head(backlog)])]
    BY <1>5 DEF Accept
  <2> QED
    BY <1>1, <1>2, <1>3, <2>1, HostGoneIs
<1> QED
  BY <1>4, <1>5

(* A restart of the daemon leaves no connection with anything to read.     *)
LEMMA Restarts ==
    ASSUME TypeOK, HostRestart
    PROVE  /\ \A d \in Conn : /\ conn'[d].host = "closed" /\ conn'[d].buf = <<>>
                              /\ conn'[d].guest = "open" <=> conn[d].guest = "open"
                              /\ conn[d].guest = "open" => conn'[d].peer = conn[d].peer
           /\ backlog' = <<>> /\ rx'.pc = "accept" /\ own' = own
BY HostGoneIs DEF TypeOK, HostRestart, Idle, ConnType

-----------------------------------------------------------------------------
(* Only the open end of the publisher's own connection grows, and only     *)
(* while there is room.                                                    *)
LEMMA OwnStep == TypeOK /\ OwnInv /\ ServingInv /\ [Next]_vars => OwnInv'
<1> SUFFICES ASSUME TypeOK, OwnInv, ServingInv, [Next]_vars PROVE OwnInv'
  OBVIOUS
<1> USE StreamAssumption
<1>a. /\ conn \in [Conn -> ConnType] /\ own \in Conn \cup {None} /\ backlog \in Seq(Conn)
      /\ rx \in [pc : {"accept", "read", "offer", "evict", "insert"},
                 c : Conn \cup {None}, snap : 0..MaxSnap]
  BY DEF TypeOK, ConnType
<1>1. ASSUME NEW c \in Conn, Dial(c) PROVE OwnInv'
  BY <1>1, <1>a DEF Dial, Connect, Closed, historyVars, OwnInv, ServingInv, ConnType
<1>2. ASSUME NEW c \in Conn, DialOther(c) PROVE OwnInv'
  BY <1>2, <1>a DEF DialOther, Connect, Closed, historyVars, OwnInv, ServingInv, ConnType
<1>3. ASSUME NEW c \in Conn, OtherCloses(c) PROVE OwnInv'
  BY <1>3, <1>a DEF OtherCloses, GuestGone, Closed, historyVars, OwnInv, ServingInv, ConnType
<1>4. CASE WriteFrame
  BY <1>4, <1>a DEF WriteFrame, historyVars, OwnInv, ServingInv, ConnType
<1>5. CASE WriteError
  BY <1>5, <1>a, GuestEnds DEF OwnInv, ServingInv, ConnType
<1>6. CASE GuestRestart
  BY <1>6, <1>a, GuestEnds DEF OwnInv, ServingInv, ConnType
<1>7. CASE Accept
  <2> DEFINE c == Head(backlog)
  <2>1. \A d \in Conn : /\ conn'[d].guest = "open" => conn[d].guest = "open"
                        /\ conn'[d].buf \in {<<>>, conn[d].buf}
    BY <1>7, <1>a, Accepts
  <2>2. \A d \in Conn : conn[d].guest = "open" =>
                          conn'[d].guest = "open" /\ conn'[d].peer = conn[d].peer
    BY <1>7, <1>a, Accepts
  <2>3. own' = own
    BY <1>7, Accepts
  <2> QED
    BY <2>1, <2>2, <2>3, <1>a DEF OwnInv
<1>8. CASE ReadFrame
  BY <1>8, <1>a DEF ReadFrame, historyVars, OwnInv, ServingInv, ConnType
<1>9. CASE ReadError
  BY <1>9, <1>a DEF ReadError, HostGone, Closed, Idle, historyVars, OwnInv, ServingInv, ConnType
<1>10. CASE Offer
  BY <1>10, <1>a DEF Offer, historyVars, OwnInv, ServingInv, ConnType
<1>11. CASE Evict
  BY <1>11, <1>a DEF Evict, historyVars, OwnInv, ServingInv, ConnType
<1>12. CASE Insert
  BY <1>12, <1>a DEF Insert, historyVars, OwnInv, ServingInv, ConnType
<1>13. CASE Take
  BY <1>13, <1>a DEF Take, historyVars, OwnInv, ServingInv, ConnType
<1>14. CASE Publish
  BY <1>14, <1>a DEF Publish, historyVars, OwnInv, ServingInv, ConnType
<1>15. CASE Discard
  BY <1>15, <1>a DEF Discard, historyVars, OwnInv, ServingInv, ConnType
<1>16. CASE Expire
  BY <1>16, <1>a DEF Expire, historyVars, OwnInv, ServingInv, ConnType
<1>17. CASE HostRestart
  BY <1>17, <1>a, Restarts DEF OwnInv, ServingInv, ConnType
<1>18. CASE UNCHANGED vars
  BY <1>18, <1>a DEF vars, historyVars, OwnInv, ServingInv, ConnType
<1> QED
  BY <1>1, <1>2, <1>3, <1>4, <1>5, <1>6, <1>7, <1>8, <1>9,
     <1>10, <1>11, <1>12, <1>13, <1>14, <1>15, <1>16, <1>17, <1>18 DEF Next, Receive, Consume

(* The receiver keeps serving the connection it reads from.                *)
LEMMA ServingStep == TypeOK /\ OwnInv /\ ServingInv /\ [Next]_vars => ServingInv'
<1> SUFFICES ASSUME TypeOK, OwnInv, ServingInv, [Next]_vars PROVE ServingInv'
  OBVIOUS
<1> USE StreamAssumption
<1>a. /\ conn \in [Conn -> ConnType] /\ own \in Conn \cup {None} /\ backlog \in Seq(Conn)
      /\ rx \in [pc : {"accept", "read", "offer", "evict", "insert"},
                 c : Conn \cup {None}, snap : 0..MaxSnap]
  BY DEF TypeOK, ConnType
<1>b. ASSUME NEW c \in Conn, NEW peer \in {"guest", "other"}, Connect(c, peer), rx' = rx
      PROVE  ServingInv'
  <2>1. \A j \in 1..Len(backlog) : /\ backlog'[j] = backlog[j] /\ backlog[j] \in Conn \ {c}
                                   /\ conn'[backlog[j]].host = "backlog"
    BY <1>b, Connects DEF ServingInv
  <2>2. Len(backlog) \in Nat /\ Len(backlog') = Len(backlog) + 1
        /\ backlog'[Len(backlog) + 1] = c /\ conn'[c].host = "backlog"
    BY <1>b, <1>a, Connects
  <2>3. \A j \in 1..Len(backlog') : j \in 1..Len(backlog) \/ j = Len(backlog) + 1
    BY <2>2
  <2>4. \A j \in 1..Len(backlog') : conn'[backlog'[j]].host = "backlog"
    BY <2>1, <2>2, <2>3
  <2>5. \A i, j \in 1..Len(backlog') : i < j => backlog'[i] # backlog'[j]
    BY <2>1, <2>2, <2>3 DEF ServingInv
  <2>6. \A d \in Conn \ {c} : conn'[d] = conn[d]
    BY <1>b, Connects
  <2>7. conn[c].host = "closed"
    BY <1>b, Connects
  <2> QED
    BY <1>b, <2>2, <2>4, <2>5, <2>6, <2>7 DEF ServingInv
<1>1. ASSUME NEW c \in Conn, Dial(c) PROVE ServingInv'
  <2>1. Connect(c, "guest") /\ rx' = rx
    BY <1>1 DEF Dial
  <2> QED
    BY <2>1, <1>b
<1>2. ASSUME NEW c \in Conn, DialOther(c) PROVE ServingInv'
  <2>1. Connect(c, "other") /\ rx' = rx
    BY <1>2 DEF DialOther
  <2> QED
    BY <2>1, <1>b
<1>3. ASSUME NEW c \in Conn, OtherCloses(c) PROVE ServingInv'
  BY <1>3, <1>a DEF OtherCloses, GuestGone, Closed, historyVars, ServingInv, OwnInv, ConnType
<1>4. CASE WriteFrame
  BY <1>4, <1>a DEF WriteFrame, historyVars, ServingInv, OwnInv, ConnType
<1>5. CASE WriteError
  <2>1. (\A d \in Conn : conn'[d].host = conn[d].host) /\ rx' = rx /\ backlog' = backlog
    BY <1>5, GuestEnds
  <2> QED
    BY <2>1, <1>a DEF ServingInv
<1>6. CASE GuestRestart
  <2>1. (\A d \in Conn : conn'[d].host = conn[d].host) /\ rx' = rx /\ backlog' = backlog
    BY <1>6, GuestEnds
  <2> QED
    BY <2>1, <1>a DEF ServingInv
<1>7. CASE Accept
  <2> DEFINE c == Head(backlog)
  <2>1. \A d \in Conn : conn[d].host # "serving"
    BY <1>7 DEF Accept, ServingInv
  <2>2. /\ c \in Conn /\ c = backlog[1] /\ Len(backlog') + 1 = Len(backlog)
        /\ \A j \in 1..Len(backlog') : backlog'[j] = backlog[j + 1]
        /\ \A d \in Conn \ {c} : conn'[d] = conn[d]
    BY <1>7, Accepts
  <2>3. \/ conn'[c].host = "serving" /\ rx'.pc = "read" /\ rx'.c = c
        \/ conn'[c].host = "closed" /\ rx' = rx
    BY <1>7, Accepts
  <2>4. rx.pc = "accept"
    BY <1>7 DEF Accept
  <2> HIDE DEF c
  <2>5. \A i, j \in 1..Len(backlog') : i < j => backlog'[i] # backlog'[j]
    BY <2>2, <1>a DEF ServingInv
  <2>6. \A j \in 1..Len(backlog') : conn'[backlog'[j]].host = "backlog"
    <3> SUFFICES ASSUME NEW j \in 1..Len(backlog') PROVE conn'[backlog'[j]].host = "backlog"
      OBVIOUS
    <3>1. j + 1 \in 1..Len(backlog) /\ 1 \in 1..Len(backlog) /\ 1 < j + 1
      BY <2>2, <1>a
    <3>2. backlog[j + 1] # c /\ backlog[j + 1] \in Conn
      BY <2>2, <3>1, <1>a DEF ServingInv
    <3> QED
      BY <2>2, <3>1, <3>2 DEF ServingInv
  <2> QED
    BY <2>1, <2>2, <2>3, <2>4, <2>5, <2>6 DEF ServingInv
<1>8. CASE ReadFrame
  BY <1>8, <1>a DEF ReadFrame, historyVars, ServingInv, OwnInv, ConnType
<1>9. CASE ReadError
  BY <1>9, <1>a DEF ReadError, HostGone, Closed, Idle, historyVars, ServingInv, OwnInv, ConnType
<1>10. CASE Offer
  <2>1. rx'.pc # "accept" /\ rx'.c = rx.c /\ rx.pc # "accept"
    BY <1>10, <1>a DEF Offer
  <2> QED
    BY <1>10, <2>1 DEF Offer, ServingInv
<1>11. CASE Evict
  BY <1>11, <1>a DEF Evict, historyVars, ServingInv, OwnInv, ConnType
<1>12. CASE Insert
  BY <1>12, <1>a DEF Insert, historyVars, ServingInv, OwnInv, ConnType
<1>13. CASE Take
  BY <1>13, <1>a DEF Take, historyVars, ServingInv, OwnInv, ConnType
<1>14. CASE Publish
  BY <1>14, <1>a DEF Publish, historyVars, ServingInv, OwnInv, ConnType
<1>15. CASE Discard
  BY <1>15, <1>a DEF Discard, historyVars, ServingInv, OwnInv, ConnType
<1>16. CASE Expire
  BY <1>16, <1>a DEF Expire, historyVars, ServingInv, OwnInv, ConnType
<1>17. CASE HostRestart
  BY <1>17, <1>a, Restarts DEF ServingInv, OwnInv, ConnType
<1>18. CASE UNCHANGED vars
  BY <1>18, <1>a DEF vars, historyVars, ServingInv, OwnInv, ConnType
<1> QED
  BY <1>1, <1>2, <1>3, <1>4, <1>5, <1>6, <1>7, <1>8, <1>9,
     <1>10, <1>11, <1>12, <1>13, <1>14, <1>15, <1>16, <1>17, <1>18 DEF Next, Receive, Consume

(* sendLatestSnapshot hands over what was read last.                       *)
LEMMA HandStep ==
    /\ TypeOK /\ ServingInv /\ HoldInv /\ LatestWins /\ ReceiverNeverBlocks /\ [Next]_vars
    => HoldInv' /\ LatestWins' /\ ReceiverNeverBlocks'
<1> DEFINE Goal == HoldInv /\ LatestWins /\ ReceiverNeverBlocks
<1> SUFFICES ASSUME TypeOK, ServingInv, HoldInv, LatestWins, ReceiverNeverBlocks, [Next]_vars
             PROVE  Goal'
  OBVIOUS
<1> USE StreamAssumption
<1>a. /\ conn \in [Conn -> ConnType] /\ own \in Conn \cup {None} /\ backlog \in Seq(Conn)
      /\ rx \in [pc : {"accept", "read", "offer", "evict", "insert"},
                 c : Conn \cup {None}, snap : 0..MaxSnap]
  BY DEF TypeOK, ConnType
<1>1. ASSUME NEW c \in Conn, Dial(c) PROVE Goal'
  BY <1>1, <1>a DEF Dial, Connect, historyVars, HoldInv, Holding, LatestWins, ReceiverNeverBlocks
<1>2. ASSUME NEW c \in Conn, DialOther(c) PROVE Goal'
  BY <1>2, <1>a DEF DialOther, Connect, historyVars, HoldInv, Holding,
    LatestWins, ReceiverNeverBlocks
<1>3. ASSUME NEW c \in Conn, OtherCloses(c) PROVE Goal'
  BY <1>3, <1>a DEF OtherCloses, historyVars, HoldInv, Holding, LatestWins, ReceiverNeverBlocks
<1>4. CASE WriteFrame
  BY <1>4, <1>a DEF WriteFrame, historyVars, HoldInv, Holding, LatestWins, ReceiverNeverBlocks
<1>5. CASE WriteError
  BY <1>5, <1>a DEF WriteError, historyVars, HoldInv, Holding, LatestWins, ReceiverNeverBlocks
<1>6. CASE GuestRestart
  BY <1>6, <1>a DEF GuestRestart, historyVars, HoldInv, Holding, LatestWins, ReceiverNeverBlocks
<1>7. CASE Accept
  BY <1>7, <1>a DEF Accept, historyVars, HoldInv, Holding, LatestWins, ReceiverNeverBlocks
<1>8. CASE ReadFrame
  <2>1. rx.c \in Conn /\ Head(conn[rx.c].buf) \in Frame /\ Head(conn[rx.c].buf) # Torn
    BY <1>8, <1>a DEF ReadFrame, ServingInv, ConnType
  <2>2. rx'.pc = "offer" /\ rx'.snap = received' /\ received' = Head(conn[rx.c].buf)
    BY <1>8, <1>a DEF ReadFrame
  <2> QED
    BY <2>1, <2>2 DEF HoldInv, Holding, LatestWins, ReceiverNeverBlocks, Frame, Torn
<1>9. CASE ReadError
  BY <1>9, <1>a DEF ReadError, Idle, historyVars, HoldInv, Holding, LatestWins, ReceiverNeverBlocks
<1>10. CASE Offer
  <2>1. rx.snap = received /\ received > 0 /\ received' = received /\ lastTaken' = lastTaken
    BY <1>10 DEF Offer, HoldInv, Holding, historyVars
  <2>2. CASE queue' = ReceivedNow /\ rx' = [rx EXCEPT !.pc = "read", !.snap = 0]
    BY <2>1, <2>2, <1>a DEF HoldInv, Holding, LatestWins, ReceiverNeverBlocks, ReceivedNow
  <2>3. CASE queue' = queue /\ rx' = [rx EXCEPT !.pc = "evict"]
    BY <2>1, <2>3, <1>a DEF HoldInv, Holding, LatestWins, ReceiverNeverBlocks
  <2> QED
    BY <1>10, <2>2, <2>3 DEF Offer
<1>11. CASE Evict
  BY <1>11, <1>a DEF Evict, historyVars, HoldInv, Holding, LatestWins, ReceiverNeverBlocks
<1>12. CASE Insert
  BY <1>12, <1>a DEF Insert, ReceivedNow, historyVars, HoldInv, Holding,
    LatestWins, ReceiverNeverBlocks
<1>13. CASE Take
  BY <1>13, <1>a DEF Take, historyVars, HoldInv, Holding, LatestWins, ReceiverNeverBlocks
<1>14. CASE Publish
  BY <1>14, <1>a DEF Publish, historyVars, HoldInv, Holding, LatestWins, ReceiverNeverBlocks
<1>15. CASE Discard
  BY <1>15, <1>a DEF Discard, historyVars, HoldInv, Holding, LatestWins, ReceiverNeverBlocks
<1>16. CASE Expire
  <2>1. PICK s \in Snapshot : queue = <<s>>
    BY <1>16 DEF Expire, TypeOK
  <2>2. queue' # <<>> /\ queue'[1].n = queue[1].n
    BY <1>16, <2>1 DEF Expire, Snapshot
  <2> QED
    BY <1>16, <2>2 DEF Expire, historyVars, HoldInv, Holding, LatestWins, ReceiverNeverBlocks
<1>17. CASE HostRestart
  BY <1>17, <1>a DEF HostRestart, Idle, historyVars, HoldInv, Holding,
    LatestWins, ReceiverNeverBlocks
<1>18. CASE UNCHANGED vars
  BY <1>18, <1>a DEF vars, historyVars, HoldInv, Holding, LatestWins, ReceiverNeverBlocks
<1> QED
  BY <1>1, <1>2, <1>3, <1>4, <1>5, <1>6, <1>7, <1>8, <1>9,
     <1>10, <1>11, <1>12, <1>13, <1>14, <1>15, <1>16, <1>17, <1>18 DEF Next, Receive, Consume

(* The invariant of the hand-over holds in every reachable state.          *)
THEOREM HandInvariant == Spec => []HandInv
<1>1. Init => HandInv
  <2> SUFFICES ASSUME Init PROVE HandInv
    OBVIOUS
  <2>1. /\ OwnInv /\ ServingInv
    BY StreamAssumption DEF Init, OwnInv, ServingInv, Idle, Closed
  <2>2. HoldInv /\ LatestWins /\ ReceiverNeverBlocks
    BY DEF Init, HoldInv, Holding, LatestWins, ReceiverNeverBlocks, Idle
  <2> QED
    BY TypeInit, <2>1, <2>2 DEF HandInv
<1>2. HandInv /\ [Next]_vars => HandInv'
  BY TypeStep, OwnStep, ServingStep, HandStep DEF HandInv
<1> QED
  BY <1>1, <1>2, PTL DEF Spec

(* sendLatestSnapshot: once a snapshot has been handed over it waits in    *)
(* the channel or is the one the publication loop took last, and the last  *)
(* send never blocks, for every interleaving with a publication of any     *)
(* length, any number of connections and any buffer.                       *)
THEOREM HandsOverLatestHolds == Spec => []HandsOverLatest
<1>1. HandInv => HandsOverLatest
  BY DEF HandInv, HandsOverLatest
<1> QED
  BY <1>1, HandInvariant, PTL

-----------------------------------------------------------------------------
(* What a step that writes no snapshot can leave of a buffer.              *)
Derived(s) == {<<>>, s, Append(s, Torn)} \cup (IF s = <<>> THEN {} ELSE {Tail(s)})

(* Its frames are some of the buffer's, in the same order.                 *)
LEMMA DerivedIs ==
    ASSUME NEW s \in Seq(Frame), NEW r \in Derived(s)
    PROVE  /\ Sorted(s) => Sorted(r)
           /\ \A low, high \in Nat : Within(s, low, high) => Within(r, low, high)
           /\ \A high \in Nat : UpTo(s, high) => UpTo(r, high)
           /\ \A i \in 1..Len(r) : r[i] = Torn \/ \E k \in 1..Len(s) : r[i] = s[k]
           /\ r \in Seq(Frame)
<1> USE StreamAssumption DEF Frame, Torn
<1>1. CASE r = <<>>
  BY <1>1 DEF Sorted, Within, UpTo
<1>2. CASE r = s
  BY <1>2
<1>3. CASE r = Append(s, Torn)
  <2>1. /\ Len(r) = Len(s) + 1 /\ r[Len(s) + 1] = 0 /\ r \in Seq(Frame)
        /\ \A i \in 1..Len(s) : r[i] = s[i]
    BY <1>3
  <2>2. \A i \in 1..Len(r) : i \in 1..Len(s) \/ i = Len(s) + 1
    BY <2>1
  <2> QED
    BY <2>1, <2>2 DEF Sorted, Within, UpTo
<1>4. CASE s # <<>> /\ r = Tail(s)
  <2>1. /\ Len(r) = Len(s) - 1 /\ r \in Seq(Frame)
        /\ \A i \in 1..Len(r) : r[i] = s[i + 1] /\ i + 1 \in 1..Len(s)
    BY <1>4
  <2>2. ASSUME Sorted(s) PROVE Sorted(r)
    <3>1. ASSUME NEW i \in 1..Len(r), NEW j \in 1..Len(r), i < j, r[j] # Torn
          PROVE  r[i] < r[j]
      <4>1. i + 1 < j + 1 /\ i + 1 \in 1..Len(s) /\ j + 1 \in 1..Len(s)
        BY <2>1, <3>1
      <4>2. s[i + 1] < s[j + 1]
        BY <2>1, <2>2, <3>1, <4>1 DEF Sorted
      <4> QED
        BY <2>1, <4>2
    <3> QED
      BY <3>1 DEF Sorted
  <2>3. \A low, high \in Nat : Within(s, low, high) => Within(r, low, high)
    BY <2>1 DEF Within
  <2> QED
    BY <2>1, <2>2, <2>3 DEF UpTo
<1> QED
  BY <1>1, <1>2, <1>3, <1>4 DEF Derived

(* Deriving from either side keeps one buffer before another.              *)
LEMMA DerivedBefore ==
    ASSUME NEW s \in Seq(Frame), NEW t \in Seq(Frame), Before(s, t),
           NEW r \in Derived(s), NEW u \in Derived(t)
    PROVE  Before(r, u)
<1>1. /\ \A i \in 1..Len(r) : r[i] = Torn \/ \E k \in 1..Len(s) : r[i] = s[k]
      /\ \A i \in 1..Len(u) : u[i] = Torn \/ \E k \in 1..Len(t) : u[i] = t[k]
      /\ r \in Seq(Frame) /\ u \in Seq(Frame)
  BY DerivedIs
<1>2. \A j \in 1..Len(u) : u[j] \in Nat
  BY <1>1, StreamAssumption DEF Frame
<1>3. ASSUME NEW i \in 1..Len(r), NEW j \in 1..Len(u), u[j] # Torn
      PROVE  r[i] < u[j]
  <2>1. PICK m \in 1..Len(t) : u[j] = t[m]
    BY <1>1, <1>3
  <2>2. CASE r[i] = Torn
    BY <1>2, <1>3, <2>2 DEF Torn
  <2>3. CASE \E k \in 1..Len(s) : r[i] = s[k]
    BY <1>3, <2>1, <2>3 DEF Before
  <2> QED
    BY <1>1, <2>2, <2>3
<1> QED
  BY <1>3 DEF Before

(* A new snapshot at the end of a buffer.                                  *)
LEMMA AppendNew ==
    ASSUME NEW s \in Seq(Frame), NEW high \in Nat, high + 1 \in Frame,
           UpTo(s, high)
    PROVE  /\ Sorted(s) => Sorted(Append(s, high + 1))
           /\ UpTo(Append(s, high + 1), high + 1)
           /\ \A low \in 0..high :
                 Within(s, low, high) => Within(Append(s, high + 1), low, high + 1)
           /\ \A t \in Seq(Frame) :
                 UpTo(t, high) /\ Before(t, s) => Before(t, Append(s, high + 1))
<1> DEFINE r == Append(s, high + 1)
<1>1. /\ Len(r) = Len(s) + 1 /\ r[Len(s) + 1] = high + 1 /\ r \in Seq(Frame)
      /\ \A i \in 1..Len(s) : r[i] = s[i] /\ r[i] \in Nat
  BY StreamAssumption DEF Frame
<1>2. \A i \in 1..Len(r) : i \in 1..Len(s) \/ i = Len(s) + 1
  BY <1>1
<1> HIDE DEF r
<1>3. (Sorted(s) => Sorted(r)) /\ UpTo(r, high + 1)
  <2>1. Sorted(s) => Sorted(r)
    BY <1>1, <1>2 DEF Sorted, UpTo
  <2>2. UpTo(r, high + 1)
    BY <1>1, <1>2 DEF UpTo
  <2> QED
    BY <2>1, <2>2
<1>4. \A low \in 0..high : Within(s, low, high) => Within(r, low, high + 1)
  BY <1>1, <1>2 DEF Within
<1>5. ASSUME NEW t \in Seq(Frame), UpTo(t, high), Before(t, s)
      PROVE  Before(t, r)
  <2>1. \A i \in 1..Len(t) : t[i] \in Nat
    BY StreamAssumption DEF Frame
  <2> QED
    BY <1>1, <1>2, <1>5, <2>1 DEF Before, UpTo
<1> QED
  BY <1>3, <1>4, <1>5 DEF r

(* Reading the first frame leaves newer ones, in this buffer and in those  *)
(* behind it.                                                              *)
LEMMA HeadOldest ==
    ASSUME NEW s \in Seq(Frame), s # <<>>, NEW low \in Nat, NEW high \in Nat
    PROVE  /\ Sorted(s) /\ Within(s, low, high) => Within(Tail(s), Head(s), high)
           /\ \A t \in Seq(Frame) :
                 Before(s, t) /\ Within(t, low, high) => Within(t, Head(s), high)
           /\ Within(s, low, high) /\ Head(s) # Torn => low < Head(s) /\ Head(s) <= high
<1>1. /\ Head(s) = s[1] /\ 1 \in 1..Len(s) /\ Len(Tail(s)) = Len(s) - 1
      /\ \A i \in 1..Len(Tail(s)) : Tail(s)[i] = s[i + 1] /\ i + 1 \in 1..Len(s) /\ 1 < i + 1
  OBVIOUS
<1> QED
  BY <1>1 DEF Sorted, Within, Before

-----------------------------------------------------------------------------
(* NewerInv(low) in the next state, with the same bound.                   *)
NewerNext(low) ==
    /\ \A c \in Conn : conn'[c].host = "serving" => Within(conn'[c].buf, low, written')
    /\ \A j \in 1..Len(backlog') : Within(conn'[backlog'[j]].buf, low, written')
Ordered == OrderInv' /\ \A low \in 0..written : NewerInv(low) => NewerNext(low)

(* A step that writes no snapshot and accepts no connection keeps the      *)
(* order.                                                                  *)
LEMMA QuietStep ==
    ASSUME TypeOK, OrderInv, UNCHANGED <<backlog, written>>,
           \A d \in Conn : /\ conn'[d].buf \in Derived(conn[d].buf)
                           /\ conn'[d].host = "serving" => conn[d].host = "serving"
    PROVE  Ordered
<1>1. /\ \A d \in Conn : conn[d].buf \in Seq(Frame)
      /\ \A j \in 1..Len(backlog) : backlog[j] \in Conn
      /\ written \in Nat /\ \A low \in 0..written : low \in Nat
  BY StreamAssumption DEF TypeOK
<1>2. \A c \in Conn : Sorted(conn'[c].buf) /\ UpTo(conn'[c].buf, written')
  BY <1>1, DerivedIs DEF OrderInv
<1>3. ASSUME NEW c \in Conn, conn'[c].host = "serving", NEW j \in 1..Len(backlog)
      PROVE  Before(conn'[c].buf, conn'[backlog[j]].buf)
  BY <1>1, <1>3, DerivedBefore DEF OrderInv
<1>4. ASSUME NEW i \in 1..Len(backlog), NEW j \in 1..Len(backlog), i < j
      PROVE  Before(conn'[backlog[i]].buf, conn'[backlog[j]].buf)
  BY <1>1, <1>4, DerivedBefore DEF OrderInv
<1>5. ASSUME NEW low \in 0..written, NewerInv(low) PROVE NewerNext(low)
  BY <1>1, <1>5, DerivedIs DEF NewerInv, NewerNext
<1> QED
  BY <1>2, <1>3, <1>4, <1>5 DEF OrderInv, Ordered

(* A new connection is behind all others and holds nothing.                *)
LEMMA ConnectStep ==
    ASSUME TypeOK, ServingInv, OrderInv, NEW c \in Conn, NEW peer \in {"guest", "other"},
           Connect(c, peer), written' = written
    PROVE  Ordered
<1>1. /\ conn[c].host = "closed" /\ \A d \in Conn \ {c} : conn'[d] = conn[d]
      /\ conn'[c].host = "backlog" /\ conn'[c].buf = <<>>
      /\ Len(backlog') = Len(backlog) + 1 /\ backlog'[Len(backlog) + 1] = c
      /\ \A j \in 1..Len(backlog) : backlog'[j] = backlog[j] /\ backlog[j] \in Conn
      /\ Len(backlog) \in Nat
  BY Connects DEF TypeOK
<1>2. \A j \in 1..Len(backlog) : conn'[backlog'[j]] = conn[backlog[j]]
  BY <1>1 DEF ServingInv
<1>3. \A j \in 1..Len(backlog') : j \in 1..Len(backlog) \/ j = Len(backlog) + 1
  BY <1>1
<1>4. \A x : Before(x, <<>>) /\ Sorted(<<>>) /\ \A low, high : Within(<<>>, low, high)
                                                      /\ UpTo(<<>>, high)
  BY DEF Before, Sorted, Within, UpTo
<1>5. \A d \in Conn : Sorted(conn'[d].buf) /\ UpTo(conn'[d].buf, written')
  BY <1>1, <1>4 DEF OrderInv
<1>6. ASSUME NEW d \in Conn, conn'[d].host = "serving", NEW j \in 1..Len(backlog')
      PROVE  Before(conn'[d].buf, conn'[backlog'[j]].buf)
  BY <1>1, <1>2, <1>3, <1>4, <1>6 DEF OrderInv
<1>7. ASSUME NEW i \in 1..Len(backlog'), NEW j \in 1..Len(backlog'), i < j
      PROVE  Before(conn'[backlog'[i]].buf, conn'[backlog'[j]].buf)
  BY <1>1, <1>2, <1>3, <1>4, <1>7 DEF OrderInv
<1>8. ASSUME NEW low \in 0..written, NewerInv(low) PROVE NewerNext(low)
  BY <1>1, <1>2, <1>3, <1>4, <1>8 DEF NewerInv, NewerNext
<1> QED
  BY <1>5, <1>6, <1>7, <1>8 DEF OrderInv, Ordered

(* The connection that is served next was the first in the backlog.        *)
LEMMA AcceptStep ==
    ASSUME TypeOK, ServingInv, OrderInv, Accept
    PROVE  Ordered
<1> DEFINE c == Head(backlog)
<1>1. /\ c \in Conn /\ c = backlog[1] /\ Len(backlog') + 1 = Len(backlog)
      /\ \A j \in 1..Len(backlog') : backlog'[j] = backlog[j + 1]
      /\ \A d \in Conn \ {c} : conn'[d] = conn[d]
      /\ written' = written
      /\ \/ conn'[c].host = "serving" /\ conn'[c].buf = conn[c].buf
         \/ conn'[c].host = "closed" /\ conn'[c].buf = <<>>
  BY Accepts
<1>2. /\ Len(backlog) \in Nat /\ Len(backlog') \in Nat
      /\ \A j \in 1..Len(backlog) : backlog[j] \in Conn
  BY DEF TypeOK, Accept
<1>3. \A d \in Conn : conn[d].host # "serving"
  BY DEF Accept, ServingInv
<1> HIDE DEF c
<1>4. \A j \in 1..Len(backlog') : /\ j + 1 \in 1..Len(backlog) /\ 1 < j + 1
                                  /\ 1 \in 1..Len(backlog)
  BY <1>1, <1>2
<1>5. \A j \in 1..Len(backlog') : backlog'[j] \in Conn \ {c}
                                  /\ conn'[backlog'[j]] = conn[backlog[j + 1]]
  BY <1>1, <1>2, <1>4 DEF ServingInv
<1>6. \A d \in Conn : Sorted(conn'[d].buf) /\ UpTo(conn'[d].buf, written')
  BY <1>1 DEF OrderInv, Sorted, UpTo
<1>7. ASSUME NEW d \in Conn, conn'[d].host = "serving", NEW j \in 1..Len(backlog')
      PROVE  Before(conn'[d].buf, conn'[backlog'[j]].buf)
  BY <1>1, <1>3, <1>4, <1>5, <1>7 DEF OrderInv
<1>8. ASSUME NEW i \in 1..Len(backlog'), NEW j \in 1..Len(backlog'), i < j
      PROVE  Before(conn'[backlog'[i]].buf, conn'[backlog'[j]].buf)
  <2>1. i + 1 < j + 1
    BY <1>8, <1>2
  <2> QED
    BY <1>4, <1>5, <2>1 DEF OrderInv
<1>9. ASSUME NEW low \in 0..written, NewerInv(low) PROVE NewerNext(low)
  <2>1. \A d \in Conn : conn'[d].host = "serving" => Within(conn'[d].buf, low, written)
    <3>1. \A d \in Conn : conn'[d].host = "serving" => d = c
      BY <1>1, <1>3
    <3>2. Within(conn[c].buf, low, written)
      BY <1>1, <1>2, <1>9 DEF NewerInv
    <3> QED
      BY <1>1, <3>1, <3>2
  <2>2. \A j \in 1..Len(backlog') : Within(conn'[backlog'[j]].buf, low, written)
    BY <1>4, <1>5, <1>9 DEF NewerInv
  <2> QED
    BY <1>1, <2>1, <2>2 DEF NewerNext
<1> QED
  BY <1>6, <1>7, <1>8, <1>9 DEF OrderInv, Ordered

(* A snapshot is written to the last connection of the guest: everything   *)
(* ahead of it is older, and nothing is behind it.                         *)
LEMMA WriteStep ==
    ASSUME TypeOK, ServingInv, OwnInv, LastInv, OrderInv, WriteFrame
    PROVE  Ordered
<1> DEFINE r == Append(conn[own].buf, written + 1)
<1>1. /\ own \in Conn /\ written' = written + 1 /\ backlog' = backlog
      /\ written \in Nat /\ written + 1 \in Frame
      /\ \A d \in Conn : conn[d].buf \in Seq(Frame)
      /\ \A j \in 1..Len(backlog) : backlog[j] \in Conn
      /\ own # None
  BY StreamAssumption DEF TypeOK, WriteFrame, Frame
<1>2. /\ \A d \in Conn : conn'[d].host = conn[d].host
      /\ \A d \in Conn \ {own} : conn'[d].buf = conn[d].buf
      /\ conn'[own].buf = r
  BY <1>1 DEF WriteFrame, TypeOK
<1>3. /\ Sorted(r) /\ UpTo(r, written + 1)
      /\ \A low \in 0..written : Within(conn[own].buf, low, written) => Within(r, low, written + 1)
      /\ \A d \in Conn : Before(conn[d].buf, conn[own].buf) => Before(conn[d].buf, r)
  BY <1>1, AppendNew DEF OrderInv
<1> HIDE DEF r
<1>4. \A x : Before(x, <<>>)
  BY DEF Before
<1>5. \A d \in Conn : UpTo(conn[d].buf, written + 1)
  <2> SUFFICES ASSUME NEW d \in Conn, NEW i \in 1..Len(conn[d].buf)
               PROVE  conn[d].buf[i] <= written + 1
    BY DEF UpTo
  <2>1. conn[d].buf[i] \in Nat /\ conn[d].buf[i] <= written
    BY <1>1, StreamAssumption DEF OrderInv, UpTo, Frame
  <2> QED
    BY <1>1, <2>1
<1>6. \A d \in Conn : Sorted(conn'[d].buf) /\ UpTo(conn'[d].buf, written')
  BY <1>1, <1>2, <1>3, <1>5 DEF OrderInv
<1>7. ASSUME NEW c \in Conn, conn'[c].host = "serving", NEW j \in 1..Len(backlog)
      PROVE  Before(conn'[c].buf, conn'[backlog[j]].buf)
  <2>1. backlog[j] # c /\ Before(conn[c].buf, conn[backlog[j]].buf)
    BY <1>1, <1>2, <1>7 DEF ServingInv, OrderInv
  <2>2. CASE c = own
    BY <1>1, <1>2, <1>4, <1>7, <2>1, <2>2 DEF LastInv
  <2>3. CASE c # own
    BY <1>1, <1>2, <1>3, <2>1, <2>3
  <2> QED
    BY <2>2, <2>3
<1>8. ASSUME NEW i \in 1..Len(backlog), NEW j \in 1..Len(backlog), i < j
      PROVE  Before(conn'[backlog[i]].buf, conn'[backlog[j]].buf)
  <2>1. backlog[i] # backlog[j] /\ Before(conn[backlog[i]].buf, conn[backlog[j]].buf)
    BY <1>8 DEF ServingInv, OrderInv
  <2>2. CASE backlog[i] = own
    BY <1>1, <1>2, <1>4, <1>8, <2>1, <2>2 DEF LastInv
  <2>3. CASE backlog[i] # own
    BY <1>1, <1>2, <1>3, <2>1, <2>3
  <2> QED
    BY <2>2, <2>3
<1>9. ASSUME NEW low \in 0..written, NewerInv(low) PROVE NewerNext(low)
  <2>1. \A d \in Conn : Within(conn[d].buf, low, written) => Within(conn'[d].buf, low, written')
    <3>1. \A d \in Conn : Within(conn[d].buf, low, written) => Within(conn[d].buf, low, written + 1)
      BY <1>5 DEF Within, UpTo
    <3> QED
      BY <1>1, <1>2, <1>3, <3>1
  <2> QED
    BY <1>1, <1>2, <1>9, <2>1 DEF NewerInv, NewerNext
<1> QED
  BY <1>1, <1>6, <1>7, <1>8, <1>9 DEF OrderInv, Ordered

-----------------------------------------------------------------------------
(* Every step keeps the order of the frames on their way.                  *)
LEMMA OrderStep ==
    TypeOK /\ OwnInv /\ ServingInv /\ LastInv /\ OrderInv /\ [Next]_vars => Ordered
<1> SUFFICES ASSUME TypeOK, OwnInv, ServingInv, LastInv, OrderInv, [Next]_vars PROVE Ordered
  OBVIOUS
<1>a. conn \in [Conn -> ConnType]
  BY DEF TypeOK, ConnType
<1>b. ASSUME UNCHANGED <<conn, backlog, written>> PROVE Ordered
  BY <1>b, QuietStep DEF Derived
<1>1. ASSUME NEW c \in Conn, Dial(c) PROVE Ordered
  BY <1>1, ConnectStep DEF Dial
<1>2. ASSUME NEW c \in Conn, DialOther(c) PROVE Ordered
  BY <1>2, ConnectStep DEF DialOther
<1>3. ASSUME NEW c \in Conn, OtherCloses(c) PROVE Ordered
  <2>1. \A d \in Conn : /\ conn'[d].buf \in {<<>>, conn[d].buf}
                        /\ conn'[d].host = conn[d].host
    BY <1>3, <1>a, GuestGoneIs DEF OtherCloses
  <2> QED
    BY <1>3, <2>1, QuietStep DEF OtherCloses, Derived
<1>4. CASE WriteFrame
  BY <1>4, WriteStep
<1>5. CASE WriteError \/ GuestRestart
  <2>1. \A d \in Conn : /\ conn'[d].buf \in {<<>>, conn[d].buf, Append(conn[d].buf, Torn)}
                        /\ conn'[d].host = conn[d].host
    BY <1>5, GuestEnds
  <2>2. UNCHANGED <<backlog, written>>
    BY <1>5, GuestEnds
  <2> QED
    BY <2>1, <2>2, QuietStep DEF Derived
<1>6. CASE Accept
  BY <1>6, AcceptStep
<1>7. CASE ReadFrame
  <2>0. rx.c \in Conn
    BY <1>7 DEF ReadFrame, ServingInv
  <2>1. \A d \in Conn : /\ conn'[d].buf \in Derived(conn[d].buf)
                        /\ conn'[d].host = conn[d].host
    BY <1>7, <1>a, <2>0 DEF ReadFrame, Derived, ConnType
  <2> QED
    BY <1>7, <2>1, QuietStep DEF ReadFrame
<1>8. CASE ReadError
  <2>0. rx.c \in Conn
    BY <1>8 DEF ReadError, ServingInv
  <2>1. \A d \in Conn : /\ conn'[d].buf \in {<<>>, conn[d].buf}
                        /\ conn'[d].host = "serving" => conn[d].host = "serving"
    BY <1>8, <1>a, <2>0, HostGoneIs DEF ReadError
  <2> QED
    BY <1>8, <2>1, QuietStep DEF ReadError, Derived
<1>9. CASE HostRestart
  BY <1>9, Restarts DEF Ordered, OrderInv, NewerNext, Sorted, UpTo
<1>10. CASE Offer \/ Evict \/ Insert \/ Take \/ Publish \/ Discard \/ Expire
  BY <1>10, <1>b DEF Offer, Evict, Insert, Take, Publish, Discard, Expire
<1>11. CASE UNCHANGED vars
  BY <1>11, <1>b DEF vars
<1> QED
  BY <1>1, <1>2, <1>3, <1>4, <1>5, <1>6, <1>7, <1>8, <1>9, <1>10, <1>11
     DEF Next, Receive, Consume

(* Another peer's connection carries nothing, and the publisher dials only *)
(* after it has given up the connection before.                            *)
LEMMA LastStep ==
    TypeOK /\ OwnInv /\ ServingInv /\ LastInv /\ [Next]_vars => LastInv'
<1> SUFFICES ASSUME TypeOK, OwnInv, ServingInv, LastInv, [Next]_vars PROVE LastInv'
  OBVIOUS
<1>a. /\ conn \in [Conn -> ConnType] /\ own \in Conn \cup {None} /\ backlog \in Seq(Conn)
      /\ None \notin Conn
  BY StreamAssumption DEF TypeOK, ConnType
<1>b. ASSUME NEW c \in Conn, NEW peer \in {"guest", "other"}, Connect(c, peer)
      PROVE  /\ \A d \in Conn : conn'[d].peer # "guest" => conn'[d].buf = <<>>
             /\ \A j \in 1..Len(backlog) : /\ backlog'[j] = backlog[j] /\ backlog[j] # c
                                           /\ conn'[backlog[j]] = conn[backlog[j]]
             /\ Len(backlog) \in Nat /\ backlog'[Len(backlog) + 1] = c /\ conn'[c].peer = peer
             /\ conn'[c].host = "backlog" /\ conn[c].host = "closed" /\ conn[c].guest = "closed"
             /\ \A j \in 1..Len(backlog') : j \in 1..Len(backlog) \/ j = Len(backlog) + 1
             /\ \A d \in Conn \ {c} : conn'[d] = conn[d]
  BY <1>a, <1>b, Connects DEF LastInv, ServingInv
<1>1. ASSUME NEW c \in Conn, Dial(c) PROVE LastInv'
  <2>1. Connect(c, "guest") /\ own' = c
    BY <1>1 DEF Dial
  <2> QED
    BY <1>b, <2>1 DEF LastInv
<1>2. ASSUME NEW c \in Conn, DialOther(c) PROVE LastInv'
  <2>1. Connect(c, "other") /\ own' = own
    BY <1>2 DEF DialOther
  <2>2. own # c
    BY <1>a, <1>b, <2>1 DEF OwnInv
  <2> QED
    BY <1>a, <1>b, <2>1, <2>2 DEF LastInv
<1>3. ASSUME NEW c \in Conn, OtherCloses(c) PROVE LastInv'
  <2>1. \A d \in Conn : conn'[d].host = conn[d].host /\ conn'[d].buf \in {<<>>, conn[d].buf}
    BY <1>3, <1>a, GuestGoneIs DEF OtherCloses
  <2>2. \A d \in Conn : conn[d].host # "closed" => conn'[d].peer = conn[d].peer
    BY <1>3, <1>a, GuestGoneIs DEF OtherCloses
  <2>3. \A d \in Conn \ {c} : conn'[d] = conn[d]
    BY <1>3, <1>a DEF OtherCloses
  <2>4. conn[c].buf = <<>>
    BY <1>3 DEF OtherCloses, LastInv
  <2>5. own' = own /\ backlog' = backlog
    BY <1>3 DEF OtherCloses
  <2> QED
    BY <1>a, <2>1, <2>2, <2>3, <2>4, <2>5 DEF LastInv, ServingInv
<1>4. CASE WriteFrame
  <2>1. \A d \in Conn : /\ conn'[d].peer = conn[d].peer /\ conn'[d].host = conn[d].host
                        /\ d # own => conn'[d] = conn[d]
    BY <1>4, <1>a DEF WriteFrame, ConnType
  <2>2. own' = own /\ backlog' = backlog /\ own \in Conn /\ conn[own].peer = "guest"
    BY <1>4, <1>a DEF WriteFrame, OwnInv
  <2> QED
    BY <1>a, <2>1, <2>2 DEF LastInv
<1>5. CASE WriteError \/ GuestRestart
  <2>1. /\ own \in Conn /\ own' = None /\ conn[own].peer = "guest"
        /\ \A d \in Conn \ {own} : conn'[d] = conn[d]
        /\ conn[own].host # "closed" => conn'[own].peer = conn[own].peer
        /\ conn[own].host = "closed" => conn'[own].buf = <<>>
    BY <1>5, <1>a, GuestEnds DEF OwnInv
  <2> QED
    BY <2>1 DEF LastInv
<1>6. CASE Accept
  <2> DEFINE c == Head(backlog)
  <2>1. /\ c \in Conn /\ c = backlog[1] /\ Len(backlog') + 1 = Len(backlog)
        /\ \A j \in 1..Len(backlog') : backlog'[j] = backlog[j + 1]
        /\ \A d \in Conn \ {c} : conn'[d] = conn[d]
        /\ own' = own
        /\ \/ conn'[c].host = "serving" /\ conn'[c].peer = "guest"
           \/ conn'[c].host = "closed" /\ conn'[c].buf = <<>>
    BY <1>6, Accepts
  <2>2. Len(backlog) \in Nat /\ Len(backlog') \in Nat
    BY <1>6, <1>a DEF Accept
  <2>3. \A d \in Conn : conn[d].host # "serving"
    BY <1>6 DEF Accept, ServingInv
  <2> HIDE DEF c
  <2>4. \A j \in 1..Len(backlog') : j + 1 \in 1..Len(backlog) /\ 1 < j + 1
                                    /\ 1 \in 1..Len(backlog)
    BY <2>1, <2>2
  <2>5. \A j \in 1..Len(backlog') : backlog'[j] \in Conn \ {c}
                                    /\ conn'[backlog'[j]] = conn[backlog[j + 1]]
    BY <1>a, <2>1, <2>4 DEF ServingInv
  <2>6. \A d \in Conn : conn'[d].peer # "guest" => conn'[d].buf = <<>>
    BY <2>1 DEF LastInv
  <2>7. ASSUME own # None, conn'[own].host = "serving", NEW j \in 1..Len(backlog')
        PROVE  conn'[backlog'[j]].peer # "guest"
    <3>1. own = c
      BY <1>a, <2>1, <2>3, <2>7
    <3> QED
      BY <2>1, <2>4, <2>5, <2>7, <3>1 DEF LastInv
  <2>8. ASSUME own # None, NEW i \in 1..Len(backlog'), NEW j \in 1..Len(backlog'), i < j,
               backlog'[i] = own
        PROVE  conn'[backlog'[j]].peer # "guest"
    <3>1. i + 1 < j + 1
      BY <2>8, <2>2
    <3> QED
      BY <2>1, <2>4, <2>5, <2>8, <3>1 DEF LastInv
  <2> QED
    BY <2>1, <2>6, <2>7, <2>8 DEF LastInv
<1>7. CASE ReadFrame
  <2>0. rx.c \in Conn /\ conn[rx.c].peer = "guest"
    BY <1>7 DEF ReadFrame, ServingInv, LastInv
  <2>1. /\ \A d \in Conn \ {rx.c} : conn'[d] = conn[d]
        /\ conn'[rx.c].peer = conn[rx.c].peer /\ conn'[rx.c].host = conn[rx.c].host
    BY <1>7, <1>a, <2>0 DEF ReadFrame, ConnType
  <2> QED
    BY <1>7, <1>a, <2>0, <2>1 DEF ReadFrame, LastInv
<1>8. CASE ReadError
  <2>0. rx.c \in Conn
    BY <1>8 DEF ReadError, ServingInv
  <2>1. /\ \A d \in Conn \ {rx.c} : conn'[d] = conn[d]
        /\ conn'[rx.c].host = "closed" /\ conn'[rx.c].buf = <<>>
    BY <1>8, <1>a, <2>0, HostGoneIs DEF ReadError
  <2>2. \A j \in 1..Len(backlog) : conn'[backlog[j]] = conn[backlog[j]]
    BY <1>8, <1>a, <2>0, <2>1 DEF ReadError, ServingInv
  <2>3. own' = own /\ backlog' = backlog
    BY <1>8 DEF ReadError
  <2> QED
    BY <1>a, <2>0, <2>1, <2>2, <2>3 DEF LastInv
<1>9. CASE HostRestart
  BY <1>9, <1>a, Restarts DEF LastInv
<1>10. CASE Offer \/ Evict \/ Insert \/ Take \/ Publish \/ Discard \/ Expire
  BY <1>10 DEF Offer, Evict, Insert, Take, Publish, Discard, Expire, LastInv
<1>11. CASE UNCHANGED vars
  BY <1>11 DEF vars, LastInv
<1> QED
  BY <1>1, <1>2, <1>3, <1>4, <1>5, <1>6, <1>7, <1>8, <1>9, <1>10, <1>11
     DEF Next, Receive, Consume

(* Every step keeps what is on its way newer than what was read and        *)
(* published, and the channel newer than what was taken from it.           *)
LEMMA ChannelStep == IndInv /\ [Next]_vars =>
    NewerInv(received)' /\ NewerInv(published)' /\ ChannelInv'
<1> DEFINE Goal == NewerInv(received)' /\ NewerInv(published)' /\ ChannelInv'
<1> SUFFICES ASSUME IndInv, [Next]_vars PROVE Goal
  OBVIOUS
<1> USE StreamAssumption
<1>a. /\ TypeOK /\ ServingInv /\ HoldInv /\ ReceiverNeverBlocks /\ OrderInv /\ ChannelInv
      /\ NewerInv(received) /\ NewerInv(published)
  BY DEF IndInv, HandInv
<1>b. /\ written \in Nat /\ received \in 0..written /\ published \in 0..written
      /\ rx \in [pc : {"accept", "read", "offer", "evict", "insert"},
                 c : Conn \cup {None}, snap : 0..MaxSnap]
      /\ queue # <<>> => queue[1].n \in Nat
      /\ taken # <<>> => taken[1].n \in Nat
  BY <1>a DEF TypeOK, ChannelInv, Snapshot
<1>c. NewerNext(received) /\ NewerNext(published)
  BY <1>a, <1>b, OrderStep DEF Ordered, IndInv, HandInv
<1>d. ASSUME UNCHANGED <<rx, queue, taken, published, received>>,
             written' \in {written, written + 1}
      PROVE  Goal
  <2>1. NewerInv(received)' /\ NewerInv(published)'
    BY <1>c, <1>d DEF NewerNext, NewerInv
  <2>2. received <= written' /\ published <= written'
    BY <1>b, <1>d
  <2> QED
    BY <1>a, <1>d, <2>1, <2>2 DEF ChannelInv, Holding
<1>e. ASSUME UNCHANGED <<published, received>> PROVE NewerInv(received)' /\ NewerInv(published)'
  BY <1>c, <1>e DEF NewerNext, NewerInv
<1>1. CASE (\E c \in Conn : Dial(c) \/ DialOther(c) \/ OtherCloses(c))
           \/ WriteFrame \/ WriteError \/ GuestRestart
  BY <1>1, <1>d DEF Dial, DialOther, OtherCloses, WriteFrame, WriteError, GuestRestart,
                    historyVars
<1>2. CASE Accept \/ ReadError
  <2>1. /\ UNCHANGED <<queue, taken, published, received, written>>
        /\ ~Holding /\ ~Holding'
    <3>1. CASE Accept
      <4>1. rx'.pc \in {"accept", "read"} /\ rx.pc = "accept"
        BY <3>1, <1>a, Accepts DEF Accept
      <4> QED
        BY <3>1, <4>1 DEF Accept, historyVars, Holding
    <3>2. CASE ReadError
      BY <3>2 DEF ReadError, historyVars, Idle, Holding
    <3> QED
      BY <1>2, <3>1, <3>2
  <2> QED
    BY <1>a, <1>e, <2>1 DEF ChannelInv
<1>3. CASE ReadFrame
  <2> DEFINE c == rx.c
             s == conn[c].buf
  <2>1. /\ c \in Conn /\ conn[c].host = "serving" /\ s \in Seq(Frame) /\ s # <<>>
        /\ Head(s) # Torn /\ received' = Head(s)
        /\ UNCHANGED <<backlog, queue, taken, published, written>>
    BY <1>3, <1>a DEF ReadFrame, ServingInv, TypeOK
  <2>2. /\ \A d \in Conn : conn'[d].host = conn[d].host
        /\ \A d \in Conn \ {c} : conn'[d] = conn[d]
        /\ conn'[c].buf = Tail(s)
    BY <1>3, <1>a, <2>1 DEF ReadFrame, TypeOK
  <2>3. /\ \A d \in Conn : conn[d].host = "serving" => d = c
        /\ \A j \in 1..Len(backlog) : backlog[j] \in Conn \ {c}
        /\ \A d \in Conn : conn[d].buf \in Seq(Frame)
    BY <1>a, <2>1 DEF ServingInv, TypeOK
  <2>4. Within(s, received, written) /\ Within(s, published, written)
    BY <1>a, <2>1 DEF NewerInv
  <2> HIDE DEF c
  <2>5. /\ received < Head(s) /\ published < Head(s) /\ Head(s) <= written
        /\ Within(Tail(s), Head(s), written)
    BY <1>a, <1>b, <2>1, <2>4, HeadOldest DEF OrderInv
  <2>6. \A j \in 1..Len(backlog) : Within(conn[backlog[j]].buf, Head(s), written)
    <3>1. ASSUME NEW j \in 1..Len(backlog)
          PROVE  Within(conn[backlog[j]].buf, Head(s), written)
      <4>1. Before(s, conn[backlog[j]].buf) /\ Within(conn[backlog[j]].buf, received, written)
            /\ conn[backlog[j]].buf \in Seq(Frame)
        BY <1>a, <2>1, <2>3 DEF OrderInv, NewerInv
      <4> QED
        BY <1>b, <2>1, <4>1, HeadOldest
    <3> QED
      BY <3>1
  <2>7. NewerInv(received)'
    BY <2>1, <2>2, <2>3, <2>5, <2>6 DEF NewerInv
  <2>8. NewerInv(published)'
    BY <1>c, <2>1 DEF NewerInv, NewerNext
  <2>9. Head(s) \in Nat
    BY <2>1 DEF Frame
  <2> HIDE DEF s
  <2>10. ChannelInv'
    BY <1>a, <1>b, <2>1, <2>5, <2>9 DEF ChannelInv
  <2> QED
    BY <2>7, <2>8, <2>10
<1>4. CASE Offer \/ Insert
  <2>1. /\ UNCHANGED <<taken, published, received, written>>
        /\ Holding /\ rx.snap = received
        /\ \/ queue' = ReceivedNow /\ ~Holding'
           \/ queue' = queue
    BY <1>4, <1>a, <1>b DEF Offer, Insert, historyVars, Holding, HoldInv
  <2>2. queue' = ReceivedNow => queue' # <<>> /\ queue'[1].n = received
    BY <2>1 DEF ReceivedNow
  <2>3. CASE queue' = ReceivedNow /\ ~Holding'
    BY <1>a, <1>b, <1>e, <2>1, <2>2, <2>3 DEF ChannelInv
  <2>4. CASE queue' = queue
    BY <1>a, <1>b, <1>e, <2>1, <2>4 DEF ChannelInv
  <2> QED
    BY <2>1, <2>3, <2>4
<1>5. CASE Evict
  <2>1. /\ UNCHANGED <<taken, published, received, written>> /\ queue' = <<>> /\ Holding
    BY <1>5 DEF Evict, historyVars, Holding
  <2> QED
    BY <1>a, <1>e, <2>1 DEF ChannelInv
<1>6. CASE Take
  <2>1. /\ UNCHANGED <<rx, published, received, written>>
        /\ queue # <<>> /\ taken' = queue /\ queue' = <<>>
    BY <1>6 DEF Take
  <2> QED
    BY <1>a, <1>e, <2>1 DEF ChannelInv, Holding
<1>7. CASE Publish
  <2>1. /\ UNCHANGED <<conn, backlog, rx, queue, received, written>>
        /\ taken # <<>> /\ taken' = <<>> /\ published' = taken[1].n
    BY <1>7 DEF Publish, historyVars
  <2>2. taken[1].n <= received /\ taken[1].n \in Nat
    BY <1>a, <1>b, <2>1 DEF ChannelInv
  <2>3. ASSUME NEW t \in Seq(Frame), Within(t, received, written)
        PROVE  Within(t, taken[1].n, written)
    BY <1>b, <2>2, <2>3 DEF Within, Frame
  <2>4. NewerInv(published)'
    BY <1>a, <2>1, <2>3 DEF NewerInv, TypeOK
  <2>5. NewerInv(received)'
    BY <1>c, <2>1 DEF NewerInv, NewerNext
  <2>6. ChannelInv'
    BY <1>a, <1>b, <2>1, <2>2 DEF ChannelInv, Holding
  <2> QED
    BY <2>4, <2>5, <2>6
<1>8. CASE Discard
  <2>1. UNCHANGED <<rx, queue, published, received, written>> /\ taken' = <<>>
    BY <1>8 DEF Discard, historyVars
  <2> QED
    BY <1>a, <1>e, <2>1 DEF ChannelInv, Holding
<1>9. CASE Expire
  <2>1. PICK s \in Snapshot : queue = <<s>>
    BY <1>9, <1>a DEF Expire, TypeOK
  <2>2. queue' # <<>> /\ queue'[1].n = queue[1].n /\ queue # <<>>
    BY <1>9, <2>1 DEF Expire, Snapshot
  <2>3. UNCHANGED <<rx, taken, published, received, written>>
    BY <1>9 DEF Expire, historyVars
  <2> QED
    BY <1>a, <1>e, <2>2, <2>3 DEF ChannelInv, Holding
<1>10. CASE HostRestart
  <2>1. /\ UNCHANGED <<published, written>> /\ queue' = <<>> /\ taken' = <<>>
        /\ received' = 0 /\ rx'.pc = "accept" /\ backlog' = <<>>
        /\ \A d \in Conn : conn'[d].host = "closed"
    BY <1>10, <1>a, Restarts DEF HostRestart
  <2>2. NewerInv(received)' /\ NewerInv(published)'
    BY <2>1 DEF NewerInv
  <2>3. ChannelInv'
    BY <1>b, <2>1 DEF ChannelInv, Holding
  <2> QED
    BY <2>2, <2>3
<1>11. CASE UNCHANGED vars
  BY <1>11, <1>d DEF vars, historyVars
<1> HIDE DEF Goal
<1> QED
  BY <1>1, <1>2, <1>3, <1>4, <1>5, <1>6, <1>7, <1>8, <1>9, <1>10, <1>11
     DEF Next, Receive, Consume

(* The whole invariant holds in every reachable state.                     *)
THEOREM StreamInvariant == Spec => []IndInv
<1>1. Init => LastInv /\ OrderInv /\ NewerInv(received) /\ NewerInv(published) /\ ChannelInv
  BY StreamAssumption
     DEF Init, LastInv, OrderInv, NewerInv, ChannelInv, Sorted, UpTo, Idle, Holding, Closed
<1>2. IndInv /\ [Next]_vars => (LastInv /\ OrderInv)'
  BY LastStep, OrderStep DEF IndInv, HandInv, Ordered
<1>3. HandInv /\ LastInv /\ OrderInv /\ NewerInv(received) /\ NewerInv(published) /\ ChannelInv
      <=> IndInv
  BY DEF IndInv
<1> QED
  BY <1>1, <1>2, <1>3, ChannelStep, HandInvariant, PTL DEF Spec

(* Snapshots are published in the order in which the guest wrote them, and *)
(* none twice, across reconnections, restarts of either side, replacements *)
(* in the channel and torn frames, for any number of each.                 *)
THEOREM PublishedInOrderHolds == Spec => PublishedInOrder
<1>1. IndInv /\ [Next]_vars => [Publish => taken[1].n > published]_vars
  <2> SUFFICES ASSUME IndInv, Publish PROVE taken[1].n > published
    OBVIOUS
  <2>1. published < taken[1].n
    BY DEF IndInv, ChannelInv, Publish
  <2>2. taken[1].n \in Nat /\ published \in Nat
    BY StreamAssumption DEF IndInv, HandInv, TypeOK, Publish, Snapshot
  <2> QED
    BY <2>1, <2>2
<1> QED
  BY <1>1, StreamInvariant, PTL DEF Spec, PublishedInOrder

-----------------------------------------------------------------------------
(* From snapshots to sensors: the theorems of Samples. The loop over the   *)
(* disks of a group is a recursive function, so what it computes is shown  *)
(* by induction on the number of disks visited; the rest is an invariant   *)
(* of the publication.                                                     *)


(* Induction on the natural numbers, for a set instead of a predicate: the *)
(* least number outside the set has a predecessor in it.                   *)
LEMMA SetInduction ==
    ASSUME NEW S \in SUBSET Nat, 0 \in S, \A n \in S : n + 1 \in S
    PROVE  S = Nat
<1> SUFFICES ASSUME Nat \ S # {} PROVE FALSE
  OBVIOUS
<1>1. IsWellFoundedOn(OpToRel(<, Nat), Nat)
  BY NatLessThanWellFounded
<1> DEFINE R == OpToRel(<, Nat)
           T == Nat \ S
<1>2. PICK x \in T : \A y \in T : ~(<<y, x>> \in R)
  <2> HIDE DEF R
  <2> QED BY <1>1, WFMin DEF R
<1>3. x # 0 /\ x - 1 \in Nat /\ x - 1 < x
  OBVIOUS
<1>4. <<x - 1, x>> \in R
  BY <1>3 DEF OpToRel
<1>5. x - 1 \in S
  BY <1>2, <1>3, <1>4
<1> QED
  BY <1>3, <1>5

(* f[n] is what a loop has computed after n turns: it starts with start,   *)
(* and turn d makes Turn[d] of what it has.                                *)
IsLoop(f, V, N, start, Turn) ==
    /\ f \in [0..N -> V]
    /\ f[0] = start
    /\ \A d \in 1..N : f[d] = Turn[d][f[d - 1]]

(* Every loop over 1..N has its sequence of results, so that a recursive   *)
(* function such as the one in Total is what its equations say.            *)
LEMMA LoopExists ==
    ASSUME NEW V, NEW N \in Nat, NEW start \in V, NEW Turn \in [1..N -> [V -> V]]
    PROVE  \E f : IsLoop(f, V, N, start, Turn)
<1> DEFINE Upto(f, n) == /\ f[0] = start
                         /\ \A d \in 1..n : f[d] = Turn[d][f[d - 1]]
           S == {n \in Nat : n <= N => \E f \in [0..n -> V] : Upto(f, n)}
<1>1. 0 \in S
  <2>1. [d \in 0..0 |-> start] \in [0..0 -> V] /\ Upto([d \in 0..0 |-> start], 0)
    OBVIOUS
  <2> QED
    BY <2>1
<1>2. ASSUME NEW n \in S PROVE n + 1 \in S
  <2> SUFFICES ASSUME n + 1 <= N PROVE \E f \in [0..(n + 1) -> V] : Upto(f, n + 1)
    OBVIOUS
  <2>1. PICK f \in [0..n -> V] : Upto(f, n)
    OBVIOUS
  <2> DEFINE h == [d \in 0..(n + 1) |-> IF d = n + 1 THEN Turn[n + 1][f[n]] ELSE f[d]]
  <2>2. Turn[n + 1][f[n]] \in V
    OBVIOUS
  <2>3. h \in [0..(n + 1) -> V]
    BY <2>2
  <2>4. \A d \in 0..n : h[d] = f[d]
    OBVIOUS
  <2>5. h[n + 1] = Turn[n + 1][f[n]]
    OBVIOUS
  <2> HIDE DEF h
  <2>6. h[0] = start
    BY <2>1, <2>4
  <2>7. ASSUME NEW d \in 1..(n + 1) PROVE h[d] = Turn[d][h[d - 1]]
    <3>1. CASE d = n + 1
      BY <3>1, <2>4, <2>5
    <3>2. CASE d # n + 1
      BY <3>2, <2>1, <2>4
    <3> QED
      BY <3>1, <3>2
  <2> QED
    BY <2>3, <2>6, <2>7
<1>3. N \in S
  <2> HIDE DEF S
  <2>1. S \in SUBSET Nat
    BY DEF S
  <2> QED
    BY <1>1, <1>2, <2>1, SetInduction
<1> QED
  BY <1>3 DEF IsLoop

(* What the pass over the disks of a group computes.                       *)
Totals == [count : Nat, maximum : Int, unavailable : BOOLEAN]

(* The members of a group among the first n disks, and what the pass must  *)
(* have computed of them.                                                  *)
MembersUpto(g, n) == {d \in 1..n : IsMember(g, d)}

Right(t, g, n) ==
    /\ t.count = Cardinality(MembersUpto(g, n))
    /\ t.unavailable <=> \E d \in MembersUpto(g, n) : disks[d].unavailable
    /\ MembersUpto(g, n) # {} =>
          /\ \E d \in MembersUpto(g, n) : disks[d].temp = t.maximum
          /\ \A d \in MembersUpto(g, n) : disks[d].temp <= t.maximum

(* A guest has a number of disks and of HBAs.                              *)
LEMMA Guest ==
    ASSUME SamplesTypeOK
    PROVE  guest.disks \in Nat /\ guest.hbas \in Nat
BY SamplesAssumption DEF SamplesTypeOK

(* The reading of a disk that the snapshot names.                          *)
LEMMA MemberReading ==
    ASSUME SamplesTypeOK, NEW d \in Disk, disks[d] # NoReading
    PROVE  disks[d] \in DiskReadings /\ disks[d] \in DiskReading
           /\ disks[d].temp \in Int /\ disks[d].unavailable \in BOOLEAN
<1>1. disks[d] \in DiskReadings
  BY DEF SamplesTypeOK
<1> QED
  BY <1>1, SamplesAssumption DEF DiskReading

(* The pass over the disks, turn by turn: the function in Total satisfies  *)
(* its equations.                                                          *)
LEMMA Scanned ==
    ASSUME SamplesTypeOK, NEW g \in Group
    PROVE  \E f \in [0..guest.disks -> Totals] :
              /\ f[0] = Nobody
              /\ \A d \in Disk : f[d] = IF IsMember(g, d) THEN Visit(f[d - 1], disks[d])
                                        ELSE f[d - 1]
              /\ Total(g) = f[guest.disks]
<1> DEFINE N == guest.disks
           Turn == [d \in 1..N |->
                       [t \in Totals |-> IF IsMember(g, d) THEN Visit(t, disks[d]) ELSE t]]
           Loop(f) == f = [d \in 0..N |-> IF d = 0 THEN Nobody
                              ELSE IF IsMember(g, d) THEN Visit(f[d - 1], disks[d]) ELSE f[d - 1]]
           scan == CHOOSE f : f = [d \in 0..N |-> IF d = 0 THEN Nobody
                              ELSE IF IsMember(g, d) THEN Visit(f[d - 1], disks[d]) ELSE f[d - 1]]
<1>1. N \in Nat
  BY Guest
<1>2. Nobody \in Totals
  BY DEF Nobody, Totals
<1>3. ASSUME NEW d \in 1..N, NEW t \in Totals, IsMember(g, d)
      PROVE  Visit(t, disks[d]) \in Totals
  <2>1. disks[d].temp \in Int /\ disks[d].unavailable \in BOOLEAN
    BY <1>3, MemberReading DEF Disk, IsMember
  <2>2. t.count \in Nat /\ t.maximum \in Int /\ t.unavailable \in BOOLEAN
    BY DEF Totals
  <2>3. (t.unavailable \/ disks[d].unavailable) \in BOOLEAN
    BY <2>1, <2>2
  <2> QED
    BY <2>1, <2>2, <2>3 DEF Totals, Visit
<1>4. Turn \in [1..N -> [Totals -> Totals]]
  BY <1>3
<1>5. PICK f : IsLoop(f, Totals, N, Nobody, Turn)
  <2> HIDE DEF Turn, N
  <2> QED
    BY <1>1, <1>2, <1>4, LoopExists
<1>6. Loop(f)
  <2>1. ASSUME NEW d \in 0..N
        PROVE  f[d] = (IF d = 0 THEN Nobody
                    ELSE IF IsMember(g, d) THEN Visit(f[d - 1], disks[d]) ELSE f[d - 1])
    <3>1. CASE d # 0
      <4>1. d \in 1..N /\ f[d - 1] \in Totals
        BY <3>1, <1>1, <1>5 DEF IsLoop
      <4>2. f[d] = Turn[d][f[d - 1]]
        BY <4>1, <1>5 DEF IsLoop
      <4> QED
        BY <3>1, <4>1, <4>2
    <3> QED
      BY <3>1, <1>5 DEF IsLoop
  <2> QED
    BY <1>5, <2>1 DEF IsLoop
<1>7. Loop(scan)
  BY <1>6
<1>8. Total(g) = scan[N]
  BY DEF Total
<1> HIDE DEF scan
<1>9. scan \in [0..N -> Totals] /\ scan[0] = Nobody
      /\ \A d \in 1..N : scan[d] = IF IsMember(g, d) THEN Visit(scan[d - 1], disks[d])
                                        ELSE scan[d - 1]
  <2>1. DOMAIN scan = 0..N
    BY <1>7
  <2>2. scan[0] = Nobody
    BY <1>7, <1>1
  <2>3. \A d \in 1..N : scan[d] = IF IsMember(g, d) THEN Visit(scan[d - 1], disks[d])
                                        ELSE scan[d - 1]
    <3> SUFFICES ASSUME NEW d \in 1..N
                 PROVE scan[d] = IF IsMember(g, d) THEN Visit(scan[d - 1], disks[d])
                                        ELSE scan[d - 1]
      OBVIOUS
    <3>1. d \in 0..N /\ d # 0
      BY <1>1
    <3> QED
      BY <1>7, <3>1
  <2> DEFINE S == {n \in Nat : n <= N => scan[n] \in Totals}
  <2>4. 0 \in S
    BY <2>2, <1>2
  <2>5. ASSUME NEW n \in S PROVE n + 1 \in S
    <3> SUFFICES ASSUME n + 1 <= N PROVE scan[n + 1] \in Totals
      OBVIOUS
    <3>1. n + 1 \in 1..N /\ (n + 1) - 1 = n /\ scan[n] \in Totals
      BY <1>1
    <3> QED
      BY <3>1, <2>3, <1>3
  <2>6. S = Nat
    <3> HIDE DEF S
    <3>1. S \in SUBSET Nat
      BY DEF S
    <3> QED
      BY <2>4, <2>5, <3>1, SetInduction
  <2>7. \A n \in 0..N : scan[n] \in Totals
    BY <2>6, <1>1
  <2>8. scan \in [0..N -> Totals]
    BY <2>1, <2>7, <1>7
  <2> QED
    BY <2>2, <2>3, <2>8
<1> QED
  BY <1>8, <1>9 DEF Disk

(* One more disk is one more member, or none.                              *)
LEMMA MoreMembers ==
    ASSUME NEW g, NEW n \in Nat
    PROVE  /\ IsFiniteSet(MembersUpto(g, n)) /\ Cardinality(MembersUpto(g, n)) \in Nat
           /\ n + 1 \notin MembersUpto(g, n)
           /\ IsMember(g, n + 1) => MembersUpto(g, n + 1) = MembersUpto(g, n) \cup {n + 1}
           /\ ~IsMember(g, n + 1) => MembersUpto(g, n + 1) = MembersUpto(g, n)
<1>1. IsFiniteSet(1..n)
  BY FS_Interval
<1>2. IsFiniteSet(MembersUpto(g, n))
  BY <1>1, FS_Subset DEF MembersUpto
<1>3. Cardinality(MembersUpto(g, n)) \in Nat
  BY <1>2, FS_CardinalityType
<1> QED
  BY <1>2, <1>3 DEF MembersUpto

(* Before the first disk the totals are right.                             *)
LEMMA NobodyRight ==
    ASSUME NEW g
    PROVE  Right(Nobody, g, 0)
<1>1. MembersUpto(g, 0) = {}
  BY DEF MembersUpto
<1> QED
  BY <1>1, FS_EmptySet DEF Right, Nobody

(* Visiting a member keeps the totals right: the count grows by one, the   *)
(* first member sets the maximum whatever its sign.                        *)
LEMMA VisitRight ==
    ASSUME SamplesTypeOK, NEW g \in Group, NEW n \in Nat, n + 1 \in Disk,
           NEW t \in Totals, Right(t, g, n), IsMember(g, n + 1)
    PROVE  Right(Visit(t, disks[n + 1]), g, n + 1)
<1> DEFINE M == MembersUpto(g, n)
           r == disks[n + 1]
           u == Visit(t, r)
<1>1. /\ IsFiniteSet(M) /\ Cardinality(M) \in Nat /\ n + 1 \notin M
      /\ MembersUpto(g, n + 1) = M \cup {n + 1}
  BY MoreMembers
<1>2. Cardinality(M \cup {n + 1}) = Cardinality(M) + 1
  BY <1>1, FS_AddElement
<1>3. r.temp \in Int /\ r.unavailable \in BOOLEAN
  BY MemberReading DEF IsMember
<1>4. t.count \in Nat /\ t.maximum \in Int /\ t.unavailable \in BOOLEAN
  BY DEF Totals
<1>5. /\ u.count = t.count + 1 /\ u.unavailable = (t.unavailable \/ r.unavailable)
      /\ u.maximum = IF t.count = 0 \/ r.temp > t.maximum THEN r.temp ELSE t.maximum
  BY DEF Visit
<1>6. t.count = Cardinality(M) /\ (t.unavailable <=> \E d \in M : disks[d].unavailable)
      /\ (M # {} => /\ \E d \in M : disks[d].temp = t.maximum
                    /\ \A d \in M : disks[d].temp <= t.maximum)
  BY DEF Right
<1>7. M = {} <=> t.count = 0
  BY <1>1, <1>6, FS_EmptySet
<1>8. \A d \in M : disks[d].temp \in Int
  <2> SUFFICES ASSUME NEW d \in M PROVE disks[d].temp \in Int
    OBVIOUS
  <2>1. d \in 1..n /\ IsMember(g, d)
    BY DEF MembersUpto
  <2>2. d \in Disk
    BY <2>1, Guest DEF Disk
  <2> QED
    BY <2>1, <2>2, MemberReading DEF IsMember
<1> HIDE DEF u, r, M
<1>9. u.unavailable <=> \E d \in M \cup {n + 1} : disks[d].unavailable
  BY <1>5, <1>6 DEF r
<1>10. u.count = Cardinality(M \cup {n + 1})
  BY <1>2, <1>5, <1>6
<1>11. \E d \in M \cup {n + 1} : disks[d].temp = u.maximum
  BY <1>5, <1>6, <1>7 DEF r
<1>12. \A d \in M \cup {n + 1} : disks[d].temp <= u.maximum
  <2> SUFFICES ASSUME NEW d \in M \cup {n + 1} PROVE disks[d].temp <= u.maximum
    OBVIOUS
  <2>1. CASE d = n + 1
    BY <2>1, <1>3, <1>4, <1>5 DEF r
  <2>2. CASE d \in M
    <3>1. disks[d].temp <= t.maximum /\ t.count # 0 /\ disks[d].temp \in Int
      BY <2>2, <1>6, <1>7, <1>8
    <3> QED
      BY <3>1, <1>3, <1>4, <1>5
  <2> QED
    BY <2>1, <2>2
<1> QED
  BY <1>1, <1>9, <1>10, <1>11, <1>12 DEF Right, u, r, M

(* The pass as a whole is right, by induction on the number of disks       *)
(* visited.                                                                *)
LEMMA TotalRight ==
    ASSUME SamplesTypeOK, NEW g \in Group
    PROVE  Total(g) \in Totals /\ Right(Total(g), g, guest.disks)
<1>1. PICK f \in [0..guest.disks -> Totals] :
              /\ f[0] = Nobody
              /\ \A d \in Disk : f[d] = IF IsMember(g, d) THEN Visit(f[d - 1], disks[d])
                                        ELSE f[d - 1]
              /\ Total(g) = f[guest.disks]
  BY Scanned
<1>2. guest.disks \in Nat
  BY Guest
<1> DEFINE S == {n \in Nat : n <= guest.disks => Right(f[n], g, n)}
<1>3. 0 \in S
  BY <1>1, NobodyRight
<1>4. ASSUME NEW n \in S PROVE n + 1 \in S
  <2> SUFFICES ASSUME n + 1 <= guest.disks PROVE Right(f[n + 1], g, n + 1)
    OBVIOUS
  <2>1. /\ n \in Nat /\ n + 1 \in Disk /\ (n + 1) - 1 = n
        /\ f[n] \in Totals /\ Right(f[n], g, n)
    BY <1>2 DEF Disk
  <2>2. CASE IsMember(g, n + 1)
    <3>1. f[n + 1] = Visit(f[n], disks[n + 1])
      BY <1>1, <2>1, <2>2
    <3> QED
      BY <3>1, <2>1, <2>2, VisitRight
  <2>3. CASE ~IsMember(g, n + 1)
    <3>1. f[n + 1] = f[n] /\ MembersUpto(g, n + 1) = MembersUpto(g, n)
      BY <1>1, <2>1, <2>3, MoreMembers
    <3> QED
      BY <3>1, <2>1 DEF Right
  <2> QED
    BY <2>2, <2>3
<1>5. S = Nat
  <2> HIDE DEF S
  <2>1. S \in SUBSET Nat
    BY DEF S
  <2> QED
    BY <1>3, <1>4, <2>1, SetInduction
<1>6. Right(f[guest.disks], g, guest.disks)
  BY <1>2, <1>5
<1> QED
  BY <1>1, <1>2, <1>6

(* The inductive invariant. A family that does not ask for a               *)
(* reconciliation knows which sensors of it the kernel has.                *)
KnownInv == \A f \in Family : ~inv[f].needsReconcile => Existing(f) = inv[f].sensors

(* After a snapshot applied without an error, both families have the       *)
(* sensors of the snapshot, with the values of its samples, written at one *)
(* time.                                                                   *)
CleanInv ==
    clean /\ pc = "idle" => \A f \in Family :
        /\ ~inv[f].needsReconcile /\ inv[f].sensors = SensorsFromSamples(f)
        /\ \A x \in SamplesOf(f) : ~x.skip => kernel[x.sensor].milli = Milli(x.temp)
        /\ \A x, y \in SamplesOf(f) :
              ~x.skip /\ ~y.skip => kernel[x.sensor].age = kernel[y.sensor].age

(* A sensor with another value than the failsafe was last written no later *)
(* than its reading became incomplete.                                     *)
OutInv ==
    \A s \in DOMAIN kernel : kernel[s].milli = Milli(Failsafe) \/ kernel[s].age >= out[s]

(* All of it.                                                              *)
SamplesInv == SamplesTypeOK /\ KnownInv /\ CleanInv /\ OutInv

(* Totals and samples depend on the snapshot only.                         *)
LEMMA SameTotals ==
    ASSUME guest' = guest, disks' = disks, NEW g
    PROVE  Total(g)' = Total(g)
BY DEF Total, IsMember, Visit

(* The same for what is made of the totals.                                *)
LEMMA SameSamples ==
    ASSUME guest' = guest, disks' = disks, hbas' = hbas
    PROVE  /\ \A f : SamplesOf(f)' = SamplesOf(f)
           /\ \A f : SensorsFromSamples(f)' = SensorsFromSamples(f)
           /\ \A f : SensorOf(f)' = SensorOf(f)
           /\ Sensor' = Sensor
           /\ \A s : Missing(s)' <=> Missing(s)
<1>1. GroupSamples' = GroupSamples
  BY SameTotals DEF GroupSamples
<1>2. DiskSamples' = DiskSamples /\ HbaSamples' = HbaSamples
  BY DEF DiskSamples, HbaSamples, Disk, Hba
<1>3. ASSUME NEW f PROVE SamplesOf(f)' = SamplesOf(f)
  BY <1>1, <1>2 DEF SamplesOf
<1>4. ASSUME NEW f PROVE SensorsFromSamples(f)' = SensorsFromSamples(f)
  BY <1>3 DEF SensorsFromSamples
<1>5. Sensor' = Sensor
  BY DEF Sensor, Disk, Hba
<1>6. ASSUME NEW f PROVE SensorOf(f)' = SensorOf(f)
  BY <1>5 DEF SensorOf
<1>7. ASSUME NEW s PROVE Missing(s)' <=> Missing(s)
  BY DEF Missing, IsMember, Disk
<1> QED
  BY <1>3, <1>4, <1>5, <1>6, <1>7

(* The families share no sensor.                                           *)
LEMMA FamiliesApart ==
    /\ SensorOf("disk") \cap SensorOf("hba") = {}
    /\ Sensor = SensorOf("disk") \cup SensorOf("hba")
BY DEF SensorOf, Sensor

(* A group without a maximum is a group with a missing reading.            *)
LEMMA UnavailableMembers ==
    ASSUME SamplesTypeOK, NEW g \in Group
    PROVE  Total(g).unavailable <=> Missing([kind |-> "group", of |-> g])
<1>1. Total(g).unavailable <=> \E d \in MembersUpto(g, guest.disks) : disks[d].unavailable
  BY TotalRight DEF Right
<1>2. MembersUpto(g, guest.disks) = {d \in Disk : IsMember(g, d)}
  BY DEF MembersUpto, Disk
<1> QED
  BY <1>1, <1>2 DEF Missing

(* Every sample of a family has a sensor of its own in that family.        *)
SampleOK(x, f) ==
    /\ x.sensor \in SensorOf(f) /\ x.temp \in Int /\ x.skip \in BOOLEAN
    /\ Missing(x.sensor) <=> x.skip
    /\ x.skip => x.temp = Failsafe

(* Samples of groups, of disks and of HBAs are as SampleOK says.           *)
LEMMA GroupSamplesOK ==
    ASSUME SamplesTypeOK, NEW x \in GroupSamples
    PROVE  SampleOK(x, "disk") /\ x.sensor.kind = "group"
<1>1. PICK g \in Group : x = Sample([kind |-> "group", of |-> g], Total(g).maximum,
                                    Total(g).unavailable)
  BY DEF GroupSamples
<1>2. Total(g).maximum \in Int /\ Total(g).unavailable \in BOOLEAN
  BY TotalRight DEF Totals
<1>3. x.sensor = [kind |-> "group", of |-> g] /\ x.skip = Total(g).unavailable
      /\ x.temp = IF Total(g).unavailable THEN Failsafe ELSE Total(g).maximum
  BY <1>1 DEF Sample
<1>4. x.sensor \in SensorOf("disk")
  BY <1>3 DEF SensorOf, Sensor
<1> QED
  BY <1>2, <1>3, <1>4, UnavailableMembers, SamplesAssumption DEF SampleOK

(* The samples of disks.                                                   *)
LEMMA DiskSamplesOK ==
    ASSUME SamplesTypeOK, NEW x \in DiskSamples
    PROVE  SampleOK(x, "disk") /\ x.sensor.kind = "disk"
<1>1. PICK d \in Disk : /\ disks[d] # NoReading
                        /\ x = Sample([kind |-> "disk", of |-> d], disks[d].temp,
                                      disks[d].unavailable)
  BY DEF DiskSamples
<1>2. disks[d].temp \in Int /\ disks[d].unavailable \in BOOLEAN
  BY <1>1, MemberReading
<1>3. x.sensor = [kind |-> "disk", of |-> d] /\ x.skip = disks[d].unavailable
      /\ x.temp = IF disks[d].unavailable THEN Failsafe ELSE disks[d].temp
  BY <1>1 DEF Sample
<1>4. x.sensor \in SensorOf("disk")
  BY <1>3 DEF SensorOf, Sensor
<1> QED
  BY <1>1, <1>2, <1>3, <1>4, SamplesAssumption DEF SampleOK, Missing

(* The temperatures that an HBA reports.                                   *)
LEMMA HbaProbes ==
    ASSUME SamplesTypeOK, NEW h \in Hba, hbas[h] # NoReading
    PROVE  /\ hbas[h].ioc \in Int \cup {NoReading} /\ hbas[h].board \in Int \cup {NoReading}
           /\ hbas[h].legacy \in Int /\ NoReading \notin Int
           /\ IocOf(hbas[h]) \in Int \cup {NoReading}
<1>1. hbas[h] \in HbaReading /\ NoReading \notin Int
  BY SamplesAssumption DEF SamplesTypeOK
<1> QED
  BY <1>1 DEF HbaReading, IocOf

(* The samples of HBAs.                                                    *)
LEMMA HbaSamplesOK ==
    ASSUME SamplesTypeOK, NEW x \in HbaSamples
    PROVE  SampleOK(x, "hba")
<1>1. \/ \E h \in Hba : /\ hbas[h] # NoReading /\ IocOf(hbas[h]) # NoReading
                        /\ x = Sample([kind |-> "hba", of |-> h], IocOf(hbas[h]), FALSE)
      \/ \E h \in Hba : /\ hbas[h] # NoReading /\ hbas[h].board # NoReading
                        /\ x = Sample([kind |-> "board", of |-> h], hbas[h].board, FALSE)
  BY DEF HbaSamples
<1>2. PICK h \in Hba, k \in {"hba", "board"}, t \in Int :
          x = Sample([kind |-> k, of |-> h], t, FALSE)
  BY <1>1, HbaProbes
<1>3. x.sensor = [kind |-> k, of |-> h] /\ x.skip = FALSE /\ x.temp = t
  BY <1>2 DEF Sample
<1>4. x.sensor \in SensorOf("hba")
  BY <1>3 DEF SensorOf, Sensor
<1>5. x.sensor.kind # "disk" /\ x.sensor.kind # "group"
  BY <1>3
<1>6. ~Missing(x.sensor)
  BY <1>5 DEF Missing
<1> QED
  BY <1>3, <1>4, <1>6 DEF SampleOK

(* The samples of a family.                                                *)
LEMMA SamplesOK ==
    ASSUME SamplesTypeOK, NEW f \in Family, NEW x \in SamplesOf(f)
    PROVE  SampleOK(x, f)
BY GroupSamplesOK, DiskSamplesOK, HbaSamplesOK DEF SamplesOf, Family

(* A sample of an HBA is determined by its sensor.                         *)
LEMMA HbaSampleOf ==
    ASSUME NEW x \in HbaSamples
    PROVE  /\ x.sensor.kind \in {"hba", "board"} /\ x.skip = FALSE
           /\ x.temp = IF x.sensor.kind = "hba" THEN IocOf(hbas[x.sensor.of])
                       ELSE hbas[x.sensor.of].board
           /\ x = [sensor |-> x.sensor, temp |-> x.temp, skip |-> x.skip]
<1>1. CASE \E h \in Hba : x = Sample([kind |-> "hba", of |-> h], IocOf(hbas[h]), FALSE)
  BY <1>1 DEF Sample
<1>2. CASE \E h \in Hba : x = Sample([kind |-> "board", of |-> h], hbas[h].board, FALSE)
  BY <1>2 DEF Sample
<1> QED
  BY <1>1, <1>2 DEF HbaSamples

(* So is every sample: makeHWMonSamples names no sensor twice.             *)
LEMMA OneSampleEach ==
    ASSUME SamplesTypeOK, NEW f \in Family, NEW x \in SamplesOf(f), NEW y \in SamplesOf(f),
           x.sensor = y.sensor
    PROVE  x = y
<1>1. CASE x \in GroupSamples /\ y \in GroupSamples
  BY <1>1 DEF GroupSamples, Sample
<1>2. CASE x \in DiskSamples /\ y \in DiskSamples
  BY <1>2 DEF DiskSamples, Sample
<1>3. CASE x \in HbaSamples /\ y \in HbaSamples
  BY <1>3, HbaSampleOf
<1>4. ~(x \in GroupSamples /\ y \in DiskSamples) /\ ~(y \in GroupSamples /\ x \in DiskSamples)
  BY GroupSamplesOK, DiskSamplesOK
<1> QED
  BY <1>1, <1>2, <1>3, <1>4 DEF SamplesOf, Family

(* What the kernel keeps of a sensor.                                      *)
Value == [milli : Int, age : 0..Timeout]

(* Every sensor of the kernel has such a value.                            *)
LEMMA KernelValue ==
    ASSUME SamplesTypeOK, NEW s \in DOMAIN kernel
    PROVE  kernel[s] \in Value /\ kernel[s].milli \in Int /\ kernel[s].age \in 0..Timeout
BY DEF SamplesTypeOK, Value

(* What a family's turn leaves of its sensors.                             *)
TurnOK(f, t) ==
    /\ DOMAIN Written(f, t) \subseteq SensorOf(f)
    /\ \A s \in DOMAIN Written(f, t) : Written(f, t)[s] \in Value
    /\ \A s \in DOMAIN Written(f, t) : Missing(s) =>
          \/ Written(f, t)[s].milli = Milli(Failsafe)
          \/ s \in DOMAIN kernel /\ Written(f, t)[s] = kernel[s]
    /\ ~Reconciles(f) => DOMAIN Written(f, t) = Existing(f)
    /\ t.ok => /\ DOMAIN Written(f, t) = SensorsFromSamples(f)
               /\ \A x \in SamplesOf(f) : ~x.skip =>
                     Written(f, t)[x.sensor] = [milli |-> Milli(x.temp), age |-> 0]

(* Every turn of a family, finished or cut short by a failed write, is as  *)
(* TurnOK says.                                                            *)
LEMMA TurnLemma ==
    ASSUME SamplesTypeOK, KnownInv, NEW f \in Family, NEW t \in Turns(f)
    PROVE  TurnOK(f, t)
<1> DEFINE W == Written(f, t)
<1>1. /\ t.wrote \subseteq SamplesOf(f) /\ t.removed \subseteq Stale(f) /\ t.ok \in BOOLEAN
      /\ t.removed # {} => Reconciles(f) /\ t.wrote = SamplesOf(f)
      /\ t.ok => t.wrote = SamplesOf(f) /\ (Reconciles(f) => t.removed = Stale(f))
  BY DEF Turns
<1>2. /\ DOMAIN W = (Existing(f) \ t.removed) \cup {x.sensor : x \in t.wrote}
      /\ \A s \in DOMAIN W : W[s] = IF Fresh(f, t, s) = {} THEN kernel[s]
                ELSE [milli |-> Milli((CHOOSE x \in Fresh(f, t, s) : TRUE).temp), age |-> 0]
  BY DEF Written
<1> HIDE DEF W
<1>3. DOMAIN W \subseteq SensorOf(f)
  BY <1>1, <1>2, SamplesOK DEF Existing, SampleOK
<1>4. ~Reconciles(f) => /\ Existing(f) = SensorsFromSamples(f) /\ t.removed = {}
                        /\ DOMAIN W = Existing(f)
  <2> SUFFICES ASSUME ~Reconciles(f)
               PROVE  /\ Existing(f) = SensorsFromSamples(f) /\ t.removed = {}
                      /\ DOMAIN W = Existing(f)
    OBVIOUS
  <2>1. Existing(f) = SensorsFromSamples(f)
    BY DEF Reconciles, KnownInv
  <2>2. {x.sensor : x \in t.wrote} \subseteq SensorsFromSamples(f)
    BY <1>1 DEF SensorsFromSamples
  <2> QED
    BY <1>1, <1>2, <2>1, <2>2
<1>5. ASSUME NEW x \in t.wrote, Writes(x, Reconciles(f))
      PROVE  W[x.sensor] = [milli |-> Milli(x.temp), age |-> 0]
  <2>1. x \in Fresh(f, t, x.sensor) /\ \A y \in Fresh(f, t, x.sensor) : y = x
    BY <1>1, <1>5, OneSampleEach DEF Fresh
  <2>2. (CHOOSE y \in Fresh(f, t, x.sensor) : TRUE) = x
    BY <2>1
  <2>3. x.sensor \in DOMAIN W
    BY <1>2
  <2> QED
    BY <1>2, <2>1, <2>2, <2>3
<1>6. ASSUME NEW s \in DOMAIN W, \A x \in t.wrote : x.sensor = s => ~Writes(x, Reconciles(f))
      PROVE  s \in DOMAIN kernel /\ W[s] = kernel[s]
  <2>1. Fresh(f, t, s) = {}
    BY <1>6 DEF Fresh
  <2>2. W[s] = kernel[s]
    BY <1>2, <2>1
  <2>3. s \in Existing(f)
    <3>1. CASE Reconciles(f)
      BY <1>2, <1>6, <3>1 DEF Writes
    <3>2. CASE ~Reconciles(f)
      BY <1>4, <3>2
    <3> QED
      BY <3>1, <3>2
  <2> QED
    BY <2>2, <2>3 DEF Existing
<1>7. ASSUME NEW s \in DOMAIN W PROVE W[s] \in Value
  <2>1. CASE \A x \in t.wrote : x.sensor = s => ~Writes(x, Reconciles(f))
    BY <1>6, <2>1, KernelValue
  <2>2. ASSUME NEW x \in t.wrote, x.sensor = s, Writes(x, Reconciles(f)) PROVE W[s] \in Value
    <3>1. W[s] = [milli |-> Milli(x.temp), age |-> 0]
      BY <1>5, <2>2
    <3>2. x.temp \in Int
      BY <1>1, SamplesOK DEF SampleOK
    <3>3. Milli(x.temp) \in Int /\ 0 \in 0..Timeout
      BY <3>2, SamplesAssumption DEF Milli
    <3> QED
      BY <3>1, <3>3 DEF Value
  <2> QED
    BY <2>1, <2>2
<1>8. ASSUME NEW s \in DOMAIN W, Missing(s)
      PROVE  W[s].milli = Milli(Failsafe) \/ (s \in DOMAIN kernel /\ W[s] = kernel[s])
  <2>1. CASE \A x \in t.wrote : x.sensor = s => ~Writes(x, Reconciles(f))
    BY <1>6, <2>1
  <2>2. ASSUME NEW x \in t.wrote, x.sensor = s, Writes(x, Reconciles(f))
        PROVE  W[s].milli = Milli(Failsafe)
    <3>1. W[s] = [milli |-> Milli(x.temp), age |-> 0]
      BY <1>5, <2>2
    <3>2. x.temp = Failsafe
      BY <1>1, <1>8, <2>2, SamplesOK DEF SampleOK
    <3> QED
      BY <3>1, <3>2
  <2> QED
    BY <2>1, <2>2
<1>9. ASSUME t.ok PROVE DOMAIN W = SensorsFromSamples(f)
  <2>1. {x.sensor : x \in t.wrote} = SensorsFromSamples(f)
    BY <1>1, <1>9 DEF SensorsFromSamples
  <2>2. CASE Reconciles(f)
    BY <1>1, <1>2, <1>9, <2>1, <2>2 DEF Stale
  <2>3. CASE ~Reconciles(f)
    BY <1>4, <2>3
  <2> QED
    BY <2>2, <2>3
<1>10. ASSUME t.ok, NEW x \in SamplesOf(f), ~x.skip
       PROVE  W[x.sensor] = [milli |-> Milli(x.temp), age |-> 0]
  <2>1. x \in t.wrote /\ Writes(x, Reconciles(f))
    BY <1>1, <1>10 DEF Writes
  <2> QED
    BY <1>5, <2>1
<1> QED
  BY <1>3, <1>4, <1>7, <1>8, <1>9, <1>10 DEF TurnOK, W

(* The invariant holds before the first snapshot.                          *)
LEMMA InitSamples == SamplesInit => SamplesInv
<1> SUFFICES ASSUME SamplesInit PROVE SamplesInv
  OBVIOUS
<1>1. SamplesTypeOK
  <2>1. DOMAIN kernel = {} /\ kernel \in [DOMAIN kernel -> Value]
    BY DEF SamplesInit
  <2>2. inv \in [Family -> [sensors : SUBSET Sensor, needsReconcile : BOOLEAN]]
        /\ \A f \in Family : inv[f].sensors \subseteq SensorOf(f)
    BY DEF SamplesInit
  <2>3. disks \in [Disk -> DiskReadings \cup {NoReading}]
        /\ hbas \in [Hba -> HbaReadings \cup {NoReading}]
    BY DEF SamplesInit
  <2>4. out \in [Sensor -> 0..Timeout] /\ faults \in 0..MaxFaults
    BY SamplesAssumption DEF SamplesInit
  <2> QED
    BY <2>1, <2>2, <2>3, <2>4 DEF SamplesInit, SamplesTypeOK, Value
<1>2. \A f \in Family : SamplesOf(f) = {}
  <2>1. DiskSamples = {} /\ HbaSamples = {}
    BY DEF SamplesInit, DiskSamples, HbaSamples
  <2>2. ASSUME NEW g \in Group PROVE ~(Total(g).count >= MinGroupSize)
    <3>1. MembersUpto(g, guest.disks) = {}
      BY DEF SamplesInit, MembersUpto, IsMember, Disk
    <3>2. Total(g).count = 0
      BY <1>1, <3>1, TotalRight, FS_EmptySet DEF Right
    <3> QED
      BY <3>2, SamplesAssumption
  <2>3. GroupSamples = {}
    BY <2>2 DEF GroupSamples
  <2> QED
    BY <2>1, <2>3 DEF SamplesOf
<1>3. \A f \in Family : SensorsFromSamples(f) = {} /\ inv[f].sensors = {}
                        /\ ~inv[f].needsReconcile
  BY <1>2 DEF SensorsFromSamples, SamplesInit
<1>4. DOMAIN kernel = {}
  BY DEF SamplesInit
<1>5. KnownInv
  BY <1>3, <1>4 DEF KnownInv, Existing
<1>6. CleanInv
  BY <1>2, <1>3 DEF CleanInv
<1>7. OutInv
  BY <1>4 DEF OutInv
<1> QED
  BY <1>1, <1>5, <1>6, <1>7 DEF SamplesInv

(* Receiving a snapshot changes no sensor; the claims about a clean state  *)
(* rest until it is published.                                             *)
LEMMA ReceiveStep == SamplesInv /\ ReceiveReadings => SamplesInv'
<1> SUFFICES ASSUME SamplesInv, ReceiveReadings PROVE SamplesInv'
  OBVIOUS
<1>1. /\ pc' = "publish" /\ guest' = guest /\ inv' = inv /\ kernel' = kernel /\ out' = out
      /\ clean' = clean /\ faults' = faults
      /\ disks' \in [Disk -> DiskReadings \cup {NoReading}]
      /\ hbas' \in [Hba -> HbaReadings \cup {NoReading}]
  BY DEF ReceiveReadings
<1>2. Disk' = Disk /\ Hba' = Hba
  BY <1>1 DEF Disk, Hba
<1>3. Sensor' = Sensor /\ \A f : SensorOf(f)' = SensorOf(f)
  BY <1>2 DEF Sensor, SensorOf
<1>4. SamplesTypeOK'
  BY <1>1, <1>2, <1>3 DEF SamplesInv, SamplesTypeOK
<1>5. KnownInv'
  BY <1>1, <1>3 DEF SamplesInv, KnownInv, Existing
<1>6. CleanInv' /\ OutInv'
  BY <1>1 DEF SamplesInv, CleanInv, OutInv
<1> QED
  BY <1>4, <1>5, <1>6 DEF SamplesInv

(* Ages grow together and stop at the timeout.                             *)
LEMMA OlderOK ==
    ASSUME NEW n \in 0..Timeout, NEW m \in 0..Timeout
    PROVE  Older(n) \in 0..Timeout /\ (n >= m => Older(n) >= Older(m)) /\ Older(n) >= n
BY SamplesAssumption DEF Older

(* Time passes for every sensor alike, so the members of a group and the   *)
(* group go stale together.                                                *)
LEMMA TickStep == SamplesInv /\ Tick => SamplesInv'
<1> SUFFICES ASSUME SamplesInv, Tick PROVE SamplesInv'
  OBVIOUS
<1>1. /\ pc' = pc /\ guest' = guest /\ disks' = disks /\ hbas' = hbas /\ inv' = inv
      /\ clean' = clean /\ faults' = faults
      /\ kernel' = [s \in DOMAIN kernel |-> [kernel[s] EXCEPT !.age = Older(@)]]
      /\ out' = [s \in Sensor |-> IF Missing(s) THEN Older(out[s]) ELSE out[s]]
  BY DEF Tick
<1>2. SamplesTypeOK /\ KnownInv /\ CleanInv /\ OutInv
  BY DEF SamplesInv
<1>3. Disk' = Disk /\ Hba' = Hba /\ Sensor' = Sensor /\ \A f : SensorOf(f)' = SensorOf(f)
  BY <1>1, SameSamples DEF Disk, Hba
<1>4. DOMAIN kernel' = DOMAIN kernel /\ \A s \in DOMAIN kernel :
          kernel'[s].milli = kernel[s].milli /\ kernel'[s].age = Older(kernel[s].age)
          /\ kernel'[s] \in Value
  <2>1. DOMAIN kernel' = DOMAIN kernel
    BY <1>1
  <2>2. ASSUME NEW s \in DOMAIN kernel
        PROVE  kernel'[s].milli = kernel[s].milli /\ kernel'[s].age = Older(kernel[s].age)
               /\ kernel'[s] \in Value
    <3>1. kernel[s] \in Value /\ kernel[s].age \in 0..Timeout
      BY <1>2, KernelValue
    <3>2. Older(kernel[s].age) \in 0..Timeout
      BY <3>1, OlderOK
    <3>3. kernel'[s] = [kernel[s] EXCEPT !.age = Older(kernel[s].age)]
      BY <1>1
    <3> QED
      BY <3>1, <3>2, <3>3 DEF Value
  <2> QED
    BY <2>1, <2>2
<1>5. \A s \in Sensor : out[s] \in 0..Timeout /\ out'[s] \in 0..Timeout
                        /\ (out'[s] = out[s] \/ out'[s] = Older(out[s]))
  BY <1>1, <1>2, OlderOK DEF SamplesTypeOK
<1>6. SamplesTypeOK'
  <2>1. out' \in [Sensor -> 0..Timeout]
    BY <1>1, <1>5
  <2>2. kernel' \in [DOMAIN kernel -> Value]
    BY <1>1, <1>4
  <2> QED
    BY <1>1, <1>2, <1>3, <1>4, <2>1, <2>2 DEF SamplesTypeOK, Value
<1>7. KnownInv'
  BY <1>1, <1>2, <1>3, <1>4 DEF KnownInv, Existing
<1>8. CleanInv'
  <2>1. ASSUME clean, pc = "idle", NEW f \in Family
        PROVE  /\ ~inv'[f].needsReconcile /\ inv'[f].sensors = SensorsFromSamples(f)'
               /\ \A x \in SamplesOf(f)' : ~x.skip => kernel'[x.sensor].milli = Milli(x.temp)
               /\ \A x, y \in SamplesOf(f)' : ~x.skip /\ ~y.skip =>
                      kernel'[x.sensor].age = kernel'[y.sensor].age
    <3>1. SamplesOf(f)' = SamplesOf(f) /\ SensorsFromSamples(f)' = SensorsFromSamples(f)
      BY <1>1, SameSamples
    <3>2. \A x \in SamplesOf(f) : x.sensor \in DOMAIN kernel
      BY <1>2, <2>1 DEF CleanInv, KnownInv, Existing, SensorsFromSamples
    <3>3. inv' = inv
      BY <1>1
    <3> QED
      BY <1>2, <1>4, <2>1, <3>1, <3>2, <3>3 DEF CleanInv
  <2> QED
    BY <1>1, <2>1 DEF CleanInv
<1>9. OutInv'
  <2> SUFFICES ASSUME NEW s \in DOMAIN kernel
               PROVE  kernel'[s].milli = Milli(Failsafe) \/ kernel'[s].age >= out'[s]
    BY <1>4 DEF OutInv
  <2>1. s \in Sensor /\ kernel[s].age \in 0..Timeout
    BY <1>2, KernelValue DEF SamplesTypeOK
  <2>2. CASE kernel[s].milli = Milli(Failsafe)
    BY <1>4, <2>2
  <2>3. CASE kernel[s].age >= out[s]
    <3>1. Older(kernel[s].age) >= Older(out[s]) /\ Older(kernel[s].age) >= kernel[s].age
          /\ Older(kernel[s].age) \in 0..Timeout
      BY <1>5, <2>1, <2>3, OlderOK
    <3> QED
      BY <1>4, <1>5, <2>1, <2>3, <3>1
  <2> QED
    BY <1>2, <2>2, <2>3 DEF OutInv
<1> QED
  BY <1>6, <1>7, <1>8, <1>9 DEF SamplesInv

(* What a turn leaves in the inventory of its family.                      *)
LEMMA AppliedCases ==
    ASSUME NEW f, NEW t
    PROVE  /\ ~Reconciles(f) => Applied(f, t) = inv[f]
           /\ Reconciles(f) /\ t.ok =>
                 Applied(f, t) = [sensors |-> SensorsFromSamples(f), needsReconcile |-> FALSE]
           /\ Reconciles(f) /\ ~t.ok =>
                 Applied(f, t) = [sensors |-> inv[f].sensors, needsReconcile |-> TRUE]
BY DEF Applied

(* Publishing: one turn of each family, neither of which touches the       *)
(* sensors of the other.                                                   *)
LEMMA PublishStep == SamplesInv /\ PublishSamples => SamplesInv'
<1> SUFFICES ASSUME SamplesInv, PublishSamples PROVE SamplesInv'
  OBVIOUS
<1>1. SamplesTypeOK /\ KnownInv /\ OutInv
  BY DEF SamplesInv
<1>2. PICK t \in Turns("disk"), u \in Turns("hba") :
          /\ kernel' = [s \in DOMAIN Written("disk", t) \cup DOMAIN Written("hba", u) |->
                           IF s \in DOMAIN Written("disk", t) THEN Written("disk", t)[s]
                           ELSE Written("hba", u)[s]]
          /\ inv' = [f \in Family |-> IF f = "disk" THEN Applied("disk", t)
                                      ELSE Applied("hba", u)]
          /\ clean' = (t.ok /\ u.ok)
          /\ faults' = faults + (IF t.ok THEN 0 ELSE 1) + (IF u.ok THEN 0 ELSE 1)
          /\ faults' <= MaxFaults
  BY DEF PublishSamples
<1>3. /\ pc' = "idle" /\ guest' = guest /\ disks' = disks /\ hbas' = hbas
      /\ out' = [s \in Sensor |-> IF Missing(s) THEN out[s] ELSE 0]
  BY DEF PublishSamples
<1> DEFINE turn(f) == IF f = "disk" THEN t ELSE u
           W(f) == Written(f, turn(f))
<1>4. ASSUME NEW f \in Family PROVE turn(f) \in Turns(f) /\ TurnOK(f, turn(f))
  <2>1. turn(f) \in Turns(f)
    BY <1>2 DEF Family
  <2> QED
    BY <1>1, <2>1, TurnLemma
<1>5. ASSUME NEW f \in Family PROVE inv'[f] = Applied(f, turn(f))
  BY <1>2 DEF Family
<1>6. ASSUME NEW f \in Family
      PROVE  /\ DOMAIN kernel' \cap SensorOf(f) = DOMAIN W(f)
             /\ \A s \in DOMAIN W(f) : kernel'[s] = W(f)[s]
  <2>1. /\ DOMAIN W("disk") \subseteq SensorOf("disk")
        /\ DOMAIN W("hba") \subseteq SensorOf("hba")
    BY <1>4 DEF TurnOK, Family
  <2>2. /\ DOMAIN kernel' = DOMAIN W("disk") \cup DOMAIN W("hba")
        /\ \A s \in DOMAIN W("disk") : kernel'[s] = W("disk")[s]
        /\ \A s \in DOMAIN W("hba") : s \notin DOMAIN W("disk") => kernel'[s] = W("hba")[s]
    BY <1>2
  <2> HIDE DEF W
  <2> QED
    BY <2>1, <2>2, FamiliesApart DEF Family
<1>7. DOMAIN kernel' \subseteq Sensor
  <2>1. DOMAIN kernel' = DOMAIN W("disk") \cup DOMAIN W("hba")
    BY <1>2
  <2>2. DOMAIN W("disk") \subseteq SensorOf("disk") /\ DOMAIN W("hba") \subseteq SensorOf("hba")
    BY <1>4 DEF TurnOK, Family
  <2> QED
    BY <2>1, <2>2, FamiliesApart
<1>8. ASSUME NEW s \in DOMAIN kernel' PROVE \E f \in Family : s \in DOMAIN W(f)
  <2>1. \E f \in Family : s \in SensorOf(f)
    BY <1>7, FamiliesApart DEF Family
  <2> QED
    BY <1>6, <2>1
<1>9. Disk' = Disk /\ Hba' = Hba /\ Sensor' = Sensor /\ \A f : SensorOf(f)' = SensorOf(f)
  BY <1>3, SameSamples DEF Disk, Hba
<1>10. ASSUME NEW f \in Family
       PROVE SamplesOf(f)' = SamplesOf(f) /\ SensorsFromSamples(f)' = SensorsFromSamples(f)
  BY <1>3, SameSamples
<1>11. ASSUME NEW s \in DOMAIN kernel' PROVE kernel'[s] \in Value
  <2>1. PICK f \in Family : s \in DOMAIN W(f)
    BY <1>8
  <2> QED
    BY <1>4, <1>6, <2>1 DEF TurnOK
<1>12. ASSUME NEW f \in Family
       PROVE  SensorsFromSamples(f) \subseteq SensorOf(f)
  BY <1>1, SamplesOK DEF SensorsFromSamples, SampleOK
<1> HIDE DEF W, turn
<1>13. SamplesTypeOK'
  <2>1. ASSUME NEW f \in Family
        PROVE  inv'[f] \in [sensors : SUBSET Sensor, needsReconcile : BOOLEAN]
               /\ inv'[f].sensors \subseteq SensorOf(f)
    <3>1. SensorOf(f) \subseteq Sensor
      BY DEF SensorOf
    <3>2. inv[f] \in [sensors : SUBSET Sensor, needsReconcile : BOOLEAN]
          /\ inv[f].sensors \subseteq SensorOf(f)
      BY <1>1 DEF SamplesTypeOK
    <3>3. SensorsFromSamples(f) \in SUBSET Sensor
      BY <1>12, <3>1
    <3>4. \/ inv'[f] = inv[f]
          \/ inv'[f] = [sensors |-> SensorsFromSamples(f), needsReconcile |-> FALSE]
          \/ inv'[f] = [sensors |-> inv[f].sensors, needsReconcile |-> TRUE]
      BY <1>5, AppliedCases
    <3>5. CASE inv'[f] = inv[f]
      BY <3>2, <3>5
    <3>6. CASE inv'[f] = [sensors |-> SensorsFromSamples(f), needsReconcile |-> FALSE]
      <4>1. inv'[f].sensors = SensorsFromSamples(f)
        BY <3>6
      <4> QED
        BY <1>12, <3>3, <3>6, <4>1
    <3>7. CASE inv'[f] = [sensors |-> inv[f].sensors, needsReconcile |-> TRUE]
      <4>1. inv'[f].sensors = inv[f].sensors /\ inv[f].sensors \in SUBSET Sensor
        BY <3>2, <3>7
      <4> QED
        BY <3>2, <3>7, <4>1
    <3> QED
      BY <3>4, <3>5, <3>6, <3>7
  <2>2. inv' \in [Family -> [sensors : SUBSET Sensor, needsReconcile : BOOLEAN]]
    BY <1>2, <2>1
  <2>3. out' \in [Sensor -> 0..Timeout]
    BY <1>1, <1>3, SamplesAssumption DEF SamplesTypeOK
  <2>4. kernel' \in [DOMAIN kernel' -> Value]
    BY <1>2, <1>11
  <2>5. faults' \in 0..MaxFaults /\ clean' \in BOOLEAN
    BY <1>1, <1>2, SamplesAssumption DEF SamplesTypeOK, Turns
  <2>6. disks' \in [Disk -> DiskReadings \cup {NoReading}]
        /\ hbas' \in [Hba -> HbaReadings \cup {NoReading}] /\ guest' \in Guests
    BY <1>1, <1>3 DEF SamplesTypeOK
  <2> QED
    BY <1>3, <1>7, <1>9, <2>1, <2>2, <2>3, <2>4, <2>5, <2>6 DEF SamplesTypeOK, Value
<1>14. KnownInv'
  <2> SUFFICES ASSUME NEW f \in Family, ~inv'[f].needsReconcile
               PROVE  DOMAIN kernel' \cap SensorOf(f) = inv'[f].sensors
    BY <1>9 DEF KnownInv, Existing
  <2>1. CASE ~Reconciles(f)
    <3>1. inv'[f] = inv[f] /\ DOMAIN W(f) = Existing(f)
      BY <1>4, <1>5, <2>1 DEF Applied, TurnOK, W
    <3> QED
      BY <1>1, <1>6, <3>1 DEF KnownInv
  <2>2. CASE Reconciles(f)
    <3>1. turn(f).ok /\ inv'[f].sensors = SensorsFromSamples(f)
      BY <1>5, <2>2, AppliedCases
    <3>2. DOMAIN W(f) = SensorsFromSamples(f)
      BY <1>4, <3>1 DEF TurnOK, W
    <3> QED
      BY <1>6, <3>1, <3>2
  <2> QED
    BY <2>1, <2>2
<1>15. CleanInv'
  <2>1. ASSUME clean', NEW f \in Family
        PROVE  /\ ~inv'[f].needsReconcile /\ inv'[f].sensors = SensorsFromSamples(f)'
               /\ \A x \in SamplesOf(f)' : ~x.skip => kernel'[x.sensor].milli = Milli(x.temp)
               /\ \A x, y \in SamplesOf(f)' : ~x.skip /\ ~y.skip =>
                      kernel'[x.sensor].age = kernel'[y.sensor].age
    <3>1. turn(f).ok
      BY <1>2, <2>1 DEF turn, Family
    <3>2. ~inv'[f].needsReconcile /\ inv'[f].sensors = SensorsFromSamples(f)
      BY <1>5, <3>1, AppliedCases DEF Reconciles
    <3>3. /\ DOMAIN W(f) = SensorsFromSamples(f)
          /\ \A x \in SamplesOf(f) : ~x.skip =>
                W(f)[x.sensor] = [milli |-> Milli(x.temp), age |-> 0]
      BY <1>4, <3>1 DEF TurnOK, W
    <3>4. ASSUME NEW x \in SamplesOf(f), ~x.skip
          PROVE  kernel'[x.sensor].milli = Milli(x.temp) /\ kernel'[x.sensor].age = 0
      <4>1. x.sensor \in DOMAIN W(f)
        BY <3>3 DEF SensorsFromSamples
      <4>2. kernel'[x.sensor] = [milli |-> Milli(x.temp), age |-> 0]
        BY <1>6, <3>3, <3>4, <4>1
      <4> QED
        BY <4>2
    <3> QED
      BY <1>10, <3>2, <3>4
  <2> QED
    BY <2>1 DEF CleanInv
<1>16. OutInv'
  <2> SUFFICES ASSUME NEW s \in DOMAIN kernel'
               PROVE  kernel'[s].milli = Milli(Failsafe) \/ kernel'[s].age >= out'[s]
    BY DEF OutInv
  <2>1. s \in Sensor /\ kernel'[s].age \in 0..Timeout
    BY <1>7, <1>11 DEF Value
  <2>2. CASE ~Missing(s)
    BY <1>3, <2>1, <2>2, SamplesAssumption
  <2>3. CASE Missing(s)
    <3>1. out'[s] = out[s]
      BY <1>3, <2>1, <2>3
    <3>2. PICK f \in Family : s \in DOMAIN W(f)
      BY <1>8
    <3>3. \/ kernel'[s].milli = Milli(Failsafe)
          \/ s \in DOMAIN kernel /\ kernel'[s] = kernel[s]
      BY <1>4, <1>6, <2>3, <3>2 DEF TurnOK, W
    <3> QED
      BY <1>1, <3>1, <3>3 DEF OutInv
  <2> QED
    BY <2>2, <2>3
<1> QED
  BY <1>13, <1>14, <1>15, <1>16 DEF SamplesInv

(* Every step keeps the invariant.                                         *)
LEMMA SamplesStep == SamplesInv /\ [SamplesNext]_samplesVars => SamplesInv'
<1> SUFFICES ASSUME SamplesInv, [SamplesNext]_samplesVars PROVE SamplesInv'
  OBVIOUS
<1>1. CASE UNCHANGED samplesVars
  <2>1. /\ guest' = guest /\ disks' = disks /\ hbas' = hbas /\ inv' = inv /\ kernel' = kernel
        /\ out' = out /\ clean' = clean /\ faults' = faults /\ pc' = pc
    BY <1>1 DEF samplesVars
  <2>2. /\ Disk' = Disk /\ Hba' = Hba /\ Sensor' = Sensor
        /\ \A f : SensorOf(f)' = SensorOf(f)
        /\ \A f : SamplesOf(f)' = SamplesOf(f)
        /\ \A f : SensorsFromSamples(f)' = SensorsFromSamples(f)
    BY <2>1, SameSamples DEF Disk, Hba
  <2>3. SamplesTypeOK'
    BY <2>1, <2>2 DEF SamplesInv, SamplesTypeOK
  <2>4. KnownInv' /\ OutInv'
    BY <2>1, <2>2 DEF SamplesInv, KnownInv, OutInv, Existing
  <2>5. CleanInv'
    BY <2>1, <2>2 DEF SamplesInv, CleanInv
  <2> QED
    BY <2>3, <2>4, <2>5 DEF SamplesInv
<1> QED
  BY <1>1, ReceiveStep, PublishStep, TickStep DEF SamplesNext

(* The sensors of the kernel, the inventories of hwmon.go and the last     *)
(* snapshot agree as SamplesInv says, for guests with any number of disks  *)
(* and HBAs and any readings.                                              *)
THEOREM SamplesInvariant == SamplesSpec => []SamplesInv
<1>1. SamplesInit => SamplesInv
  BY InitSamples
<1>2. SamplesInv /\ [SamplesNext]_samplesVars => SamplesInv'
  BY SamplesStep
<1> QED
  BY <1>1, <1>2, PTL DEF SamplesSpec

(* The sensors by name.                                                    *)
GroupSensor(g) == [kind |-> "group", of |-> g]
DiskSensor(d) == [kind |-> "disk", of |-> d]
IocSensor(h) == [kind |-> "hba", of |-> h]
BoardSensor(h) == [kind |-> "board", of |-> h]

(* The sensors of a snapshot, by the disks and probes it names.            *)
DiskSensors ==
    {GroupSensor(g) : g \in {h \in Group :
        Cardinality({d \in Disk : IsMember(h, d)}) >= MinGroupSize}}
    \cup {DiskSensor(d) : d \in {e \in Disk : disks[e] # NoReading}}

(* The probes for which a reading has a temperature.                       *)
HasIoc(r) == r # NoReading /\ (r.ioc # NoReading \/ r.board = NoReading)
HasBoard(r) == r # NoReading /\ r.board # NoReading

(* The sensors of the HBAs.                                                *)
HbaSensors ==
    {IocSensor(h) : h \in {i \in Hba : HasIoc(hbas[i])}}
    \cup {BoardSensor(h) : h \in {i \in Hba : HasBoard(hbas[i])}}

(* What Total means for the members of a group.                            *)
LEMMA TotalIs ==
    ASSUME SamplesTypeOK, NEW g \in Group
    PROVE  LET M == {d \in Disk : IsMember(g, d)}
           IN  /\ Total(g).count = Cardinality(M)
               /\ Total(g).maximum \in Int
               /\ Total(g).unavailable <=> Missing(GroupSensor(g))
               /\ Total(g).count >= MinGroupSize =>
                     /\ \E d \in M : disks[d].temp = Total(g).maximum
                     /\ \A d \in M : disks[d].temp <= Total(g).maximum
<1> DEFINE M == {d \in Disk : IsMember(g, d)}
<1>1. MembersUpto(g, guest.disks) = M
  BY DEF MembersUpto, Disk
<1>2. Total(g) \in Totals /\ Right(Total(g), g, guest.disks)
  BY TotalRight
<1>3. Total(g).count >= MinGroupSize => M # {}
  <2>1. M = {} => Total(g).count = 0
    BY <1>1, <1>2, FS_EmptySet DEF Right
  <2> QED
    BY <2>1, SamplesAssumption
<1> QED
  BY <1>1, <1>2, <1>3, UnavailableMembers DEF Right, Totals, GroupSensor

(* The sensor of a sample.                                                 *)
LEMMA SampleSensor ==
    ASSUME NEW s, NEW t, NEW b
    PROVE  Sample(s, t, b).sensor = s
BY DEF Sample

(* The sample of a probe, which is never skipped.                          *)
Probe(s, t) == Sample(s, t, FALSE)

(* What is in it.                                                          *)
LEMMA ProbeIs ==
    ASSUME NEW s, NEW t
    PROVE  Probe(s, t).sensor = s /\ Probe(s, t).temp = t /\ ~Probe(s, t).skip
BY DEF Sample, Probe

(* The samples of disks and groups name DiskSensors.                       *)
LEMMA DiskSensorsAre == SamplesTypeOK => SensorsFromSamples("disk") = DiskSensors
<1> SUFFICES ASSUME SamplesTypeOK PROVE SensorsFromSamples("disk") = DiskSensors
  OBVIOUS
<1>1. {x.sensor : x \in DiskSamples} = {DiskSensor(d) : d \in {e \in Disk : disks[e] # NoReading}}
  <2>1. DiskSamples = {Sample(DiskSensor(d), disks[d].temp, disks[d].unavailable) :
                           d \in {e \in Disk : disks[e] # NoReading}}
    BY DEF DiskSamples, DiskSensor
  <2> QED
    BY <2>1, SampleSensor
<1>2. {x.sensor : x \in GroupSamples}
         = {GroupSensor(g) : g \in {h \in Group : Total(h).count >= MinGroupSize}}
  <2>1. GroupSamples = {Sample(GroupSensor(g), Total(g).maximum, Total(g).unavailable) :
                            g \in {h \in Group : Total(h).count >= MinGroupSize}}
    BY DEF GroupSamples, GroupSensor
  <2> QED
    BY <2>1, SampleSensor
<1>3. {h \in Group : Total(h).count >= MinGroupSize}
         = {h \in Group : Cardinality({d \in Disk : IsMember(h, d)}) >= MinGroupSize}
  BY TotalIs
<1>4. SensorsFromSamples("disk")
         = {x.sensor : x \in GroupSamples} \cup {x.sensor : x \in DiskSamples}
  BY DEF SensorsFromSamples, SamplesOf
<1> QED
  BY <1>1, <1>2, <1>3, <1>4 DEF DiskSensors

(* An HBA has an IOC sample when it reports an IOC probe or no probe at    *)
(* all.                                                                    *)
LEMMA IocPresent ==
    ASSUME SamplesTypeOK, NEW h \in Hba, hbas[h] # NoReading
    PROVE  /\ HasIoc(hbas[h]) <=> IocOf(hbas[h]) # NoReading
           /\ HasIoc(hbas[h]) => IocOf(hbas[h]) = IF hbas[h].ioc # NoReading THEN hbas[h].ioc
                                                  ELSE hbas[h].legacy
BY HbaProbes DEF IocOf, HasIoc

(* The samples of HBAs name HbaSensors.                                    *)
LEMMA HbaSensorsAre == SamplesTypeOK => SensorsFromSamples("hba") = HbaSensors
<1> SUFFICES ASSUME SamplesTypeOK PROVE SensorsFromSamples("hba") = HbaSensors
  OBVIOUS
<1> DEFINE withIoc == {i \in {h \in Hba : hbas[h] # NoReading} : IocOf(hbas[i]) # NoReading}
           withBoard == {i \in {h \in Hba : hbas[h] # NoReading} : hbas[i].board # NoReading}
<1>1. withIoc = {i \in Hba : HasIoc(hbas[i])} /\ withBoard = {i \in Hba : HasBoard(hbas[i])}
  BY IocPresent DEF HasIoc, HasBoard
<1> DEFINE iocs == {Probe(IocSensor(h), IocOf(hbas[h])) : h \in withIoc}
           boards == {Probe(BoardSensor(h), hbas[h].board) : h \in withBoard}
<1>2. HbaSamples = iocs \cup boards
  BY DEF HbaSamples, Probe, IocSensor, BoardSensor
<1> HIDE DEF withIoc, withBoard
<1>3. {x.sensor : x \in iocs} = {IocSensor(h) : h \in withIoc}
  <2>1. \A h \in withIoc : Probe(IocSensor(h), IocOf(hbas[h])).sensor = IocSensor(h)
    BY ProbeIs
  <2>2. \A h \in withIoc : Probe(IocSensor(h), IocOf(hbas[h])) \in iocs
    OBVIOUS
  <2>3. \A x \in iocs : \E h \in withIoc : x = Probe(IocSensor(h), IocOf(hbas[h]))
    OBVIOUS
  <2> HIDE DEF iocs
  <2> QED
    BY <2>1, <2>2, <2>3
<1>4. {x.sensor : x \in boards} = {BoardSensor(h) : h \in withBoard}
  <2>1. \A h \in withBoard : Probe(BoardSensor(h), hbas[h].board).sensor = BoardSensor(h)
    BY ProbeIs
  <2>2. \A h \in withBoard : Probe(BoardSensor(h), hbas[h].board) \in boards
    OBVIOUS
  <2>3. \A x \in boards : \E h \in withBoard : x = Probe(BoardSensor(h), hbas[h].board)
    OBVIOUS
  <2> HIDE DEF boards
  <2> QED
    BY <2>1, <2>2, <2>3
<1> HIDE DEF iocs, boards
<1>5. {x.sensor : x \in HbaSamples}
         = {IocSensor(h) : h \in withIoc}
           \cup {BoardSensor(h) : h \in withBoard}
  BY <1>2, <1>3, <1>4
<1> QED
  BY <1>1, <1>5 DEF SensorsFromSamples, SamplesOf, HbaSensors

(* Both together, in this state and the next.                              *)
SensorsKnown == /\ SensorsFromSamples("disk") = DiskSensors
                /\ SensorsFromSamples("hba") = HbaSensors

(* In this state.                                                          *)
LEMMA SensorsAre == SamplesTypeOK => SensorsKnown
BY DiskSensorsAre, HbaSensorsAre DEF SensorsKnown

(* In the next state.                                                      *)
LEMMA SensorsAreNext == SamplesTypeOK' => SensorsKnown'
BY SensorsAre, PTL

(* First part of SensorsTellTruth: a value that hides a missing reading is *)
(* as old as the gap, and stale when the gap is as long as the timeout.    *)
LEMMA MissingShown == SamplesInv => MissingReachesFailsafe
<1> SUFFICES ASSUME SamplesInv, NEW s \in DOMAIN kernel, out[s] = Timeout
             PROVE  Shows(s) \in {KernelFailsafe, Milli(Failsafe)}
  BY DEF MissingReachesFailsafe
<1>1. kernel[s].milli = Milli(Failsafe) \/ kernel[s].age >= Timeout
  BY DEF SamplesInv, OutInv
<1> QED
  BY <1>1 DEF Shows

(* After a clean publication the kernel has exactly the sensors of the     *)
(* snapshot.                                                               *)
LEMMA PublishedSensors ==
    ASSUME SamplesInv, clean, pc = "idle"
    PROVE  /\ DOMAIN kernel \cap SensorOf("disk") = DiskSensors
           /\ DOMAIN kernel \cap SensorOf("hba") = HbaSensors
BY SensorsAre DEF SensorsKnown, SamplesInv, CleanInv, KnownInv, Existing, Family

(* Second part: a group of known members and its members were written at   *)
(* one time, so they are stale together or show the maximum.               *)
LEMMA GroupShown == SamplesInv => GroupIsMaximum
<1> SUFFICES ASSUME SamplesInv, clean, pc = "idle", NEW g \in Group
             PROVE  LET sensor  == GroupSensor(g)
                        members == {d \in Disk : IsMember(g, d)}
                        shown(d) == Shows(DiskSensor(d))
                    IN  /\ sensor \in DOMAIN kernel <=> Cardinality(members) >= MinGroupSize
                        /\ sensor \in DOMAIN kernel /\ ~Missing(sensor) =>
                              /\ \A d \in members : Shows(sensor) >= shown(d)
                              /\ \E d \in members : Shows(sensor) = shown(d)
  BY DEF GroupIsMaximum, GroupSensor, DiskSensor
<1> DEFINE sensor == GroupSensor(g)
           members == {d \in Disk : IsMember(g, d)}
<1>1. SamplesTypeOK
  BY DEF SamplesInv
<1>2. sensor \in SensorOf("disk")
  BY DEF GroupSensor, SensorOf, Sensor
<1>3. sensor \in DOMAIN kernel <=> Cardinality(members) >= MinGroupSize
  <2>1. sensor \in DOMAIN kernel <=> sensor \in DiskSensors
    BY <1>2, PublishedSensors
  <2> QED
    BY <2>1 DEF DiskSensors, GroupSensor, DiskSensor
<1>4. ASSUME sensor \in DOMAIN kernel, ~Missing(sensor)
      PROVE  /\ \A d \in members : Shows(sensor) >= Shows(DiskSensor(d))
             /\ \E d \in members : Shows(sensor) = Shows(DiskSensor(d))
  <2> DEFINE x == Sample(sensor, Total(g).maximum, Total(g).unavailable)
             y(d) == Sample(DiskSensor(d), disks[d].temp, disks[d].unavailable)
  <2>1. Total(g).count >= MinGroupSize /\ ~Total(g).unavailable
    BY <1>1, <1>3, <1>4, TotalIs
  <2>2. x \in SamplesOf("disk") /\ x.sensor = sensor /\ ~x.skip /\ x.temp = Total(g).maximum
    BY <2>1 DEF SamplesOf, GroupSamples, Sample, GroupSensor
  <2>3. ASSUME NEW d \in members
        PROVE  /\ y(d) \in SamplesOf("disk") /\ y(d).sensor = DiskSensor(d)
               /\ ~y(d).skip /\ y(d).temp = disks[d].temp
    <3>1. d \in Disk /\ disks[d] # NoReading /\ ~disks[d].unavailable
      BY <1>4 DEF Missing, IsMember, GroupSensor
    <3> QED
      BY <3>1 DEF SamplesOf, DiskSamples, Sample, DiskSensor
  <2>4. "disk" \in Family
    BY DEF Family
  <2>5. kernel[sensor].milli = Milli(Total(g).maximum)
    BY <2>2, <2>4 DEF SamplesInv, CleanInv
  <2>6. ASSUME NEW d \in members
        PROVE  /\ kernel[DiskSensor(d)].milli = Milli(disks[d].temp)
               /\ kernel[DiskSensor(d)].age = kernel[sensor].age
    <3> HIDE DEF x, y
    <3> QED
      BY <2>2, <2>3, <2>4 DEF SamplesInv, CleanInv
  <2>7. Total(g).maximum \in Int /\ \A d \in members : disks[d].temp \in Int
    BY <1>1, TotalIs, MemberReading DEF IsMember
  <2>8. /\ \E d \in members : disks[d].temp = Total(g).maximum
        /\ \A d \in members : disks[d].temp <= Total(g).maximum
    BY <1>1, <2>1, TotalIs
  <2>9. KernelFailsafe \in Int
    BY SamplesAssumption
  <2> HIDE DEF sensor, members
  <2>10. ASSUME NEW d \in members PROVE Shows(sensor) >= Shows(DiskSensor(d))
    <3>1. disks[d].temp <= Total(g).maximum /\ disks[d].temp \in Int /\ Total(g).maximum \in Int
      BY <2>7, <2>8
    <3>2. Milli(disks[d].temp) <= Milli(Total(g).maximum)
      BY <3>1 DEF Milli
    <3>3. Milli(disks[d].temp) \in Int /\ Milli(Total(g).maximum) \in Int
      BY <3>1 DEF Milli
    <3> QED
      BY <2>5, <2>6, <2>9, <3>2, <3>3 DEF Shows
  <2>11. \E d \in members : Shows(sensor) = Shows(DiskSensor(d))
    BY <2>5, <2>6, <2>8 DEF Shows
  <2> QED
    BY <2>10, <2>11
<1> QED
  BY <1>3, <1>4

(* The kernel has the values of the probes.                                *)
LEMMA ProbeValues ==
    ASSUME SamplesInv, clean, pc = "idle", NEW h \in Hba, hbas[h] # NoReading
    PROVE  /\ HasIoc(hbas[h]) => kernel[IocSensor(h)].milli = Milli(IocOf(hbas[h]))
           /\ HasBoard(hbas[h]) =>
                 kernel[BoardSensor(h)].milli = Milli(hbas[h].board)
<1>1. SamplesTypeOK
  BY DEF SamplesInv
<1>2. \A x \in SamplesOf("hba") : ~x.skip => kernel[x.sensor].milli = Milli(x.temp)
  BY DEF SamplesInv, CleanInv, Family
<1>3. ASSUME HasIoc(hbas[h])
      PROVE  Probe(IocSensor(h), IocOf(hbas[h])) \in SamplesOf("hba")
  BY <1>1, <1>3, IocPresent DEF SamplesOf, HbaSamples, IocSensor, Probe
<1>4. ASSUME HasBoard(hbas[h])
      PROVE  Probe(BoardSensor(h), hbas[h].board) \in SamplesOf("hba")
  BY <1>4 DEF SamplesOf, HbaSamples, HasBoard, BoardSensor, Probe
<1> QED
  BY <1>2, <1>3, <1>4, ProbeIs

(* Third part: one sensor per probe.                                       *)
LEMMA ProbesAreShown == SamplesInv => ProbesShown
<1> SUFFICES ASSUME SamplesInv, clean, pc = "idle", NEW h \in Hba
             PROVE  LET r == hbas[h]
                        ioc == IocSensor(h)
                        board == BoardSensor(h)
                    IN  /\ ioc \in DOMAIN kernel <=> HasIoc(r)
                        /\ ioc \in DOMAIN kernel =>
                              kernel[ioc].milli = Milli(IF r.ioc # NoReading THEN r.ioc
                                                        ELSE r.legacy)
                        /\ board \in DOMAIN kernel <=> HasBoard(r)
                        /\ board \in DOMAIN kernel => kernel[board].milli = Milli(r.board)
  BY DEF ProbesShown, HasIoc, HasBoard, IocSensor, BoardSensor
<1> DEFINE ioc == IocSensor(h)
           board == BoardSensor(h)
<1>1. SamplesTypeOK
  BY DEF SamplesInv
<1>2. ioc \in SensorOf("hba") /\ board \in SensorOf("hba")
  BY DEF SensorOf, Sensor, IocSensor, BoardSensor
<1>3. ioc \in DOMAIN kernel <=> HasIoc(hbas[h])
  <2>1. ioc \in DOMAIN kernel <=> ioc \in HbaSensors
    BY <1>2, PublishedSensors
  <2> QED
    BY <2>1 DEF HbaSensors, IocSensor, BoardSensor
<1>4. board \in DOMAIN kernel <=> HasBoard(hbas[h])
  <2>1. board \in DOMAIN kernel <=> board \in HbaSensors
    BY <1>2, PublishedSensors
  <2> QED
    BY <2>1 DEF HbaSensors, IocSensor, BoardSensor
<1>5. HasIoc(hbas[h]) => kernel[ioc].milli = Milli(IF hbas[h].ioc # NoReading THEN hbas[h].ioc
                                                   ELSE hbas[h].legacy)
  BY <1>1, ProbeValues, IocPresent DEF HasIoc
<1>6. HasBoard(hbas[h]) => kernel[board].milli = Milli(hbas[h].board)
  BY ProbeValues DEF HasBoard
<1> QED
  BY <1>3, <1>4, <1>5, <1>6

(* What the kernel shows follows from what the guest reports: a missing    *)
(* reading is hidden no longer than the timeout, a group shows its hottest *)
(* member, each probe has one sensor. makeHWMonSamples and the writes of   *)
(* hwmon_device.go, for any number of disks and any failures of writes.    *)
THEOREM SensorsTellTruthHolds == SamplesSpec => []SensorsTellTruth
<1>1. SamplesInv => SensorsTellTruth
  BY MissingShown, GroupShown, ProbesAreShown DEF SamplesInv, SensorsTellTruth
<1> QED
  BY <1>1, SamplesInvariant, PTL

(* The sensors of a snapshot depend on its disks, their kinds and the      *)
(* probes of its HBAs, and on no temperature.                              *)
LEMMA SameIdentity ==
    ASSUME SamplesTypeOK, SamplesTypeOK', guest' = guest,
           Identity(disks, hbas) = Identity(disks', hbas')
    PROVE  DiskSensors' = DiskSensors /\ HbaSensors' = HbaSensors
<1>1. Disk' = Disk /\ Hba' = Hba
  BY DEF Disk, Hba
<1> DEFINE A(ds) == {<<d, ds[d].is>> : d \in {e \in Disk : ds[e] # NoReading}}
           B(hs) == {<<h, hs[h].ioc = NoReading, hs[h].board = NoReading>> :
                        h \in {i \in Hba : hs[i] # NoReading}}
<1>2. A(disks) = A(disks') /\ B(hbas) = B(hbas')
  BY DEF Identity
<1>3. ASSUME NEW d \in Disk
      PROVE  /\ disks[d] # NoReading <=> disks'[d] # NoReading
             /\ disks[d] # NoReading => disks[d].is = disks'[d].is
  <2>1. disks[d] # NoReading => <<d, disks[d].is>> \in A(disks')
    BY <1>2
  <2>2. disks'[d] # NoReading => <<d, disks'[d].is>> \in A(disks)
    BY <1>2
  <2> QED
    BY <2>1, <2>2
<1>4. ASSUME NEW h \in Hba
      PROVE  /\ hbas[h] # NoReading <=> hbas'[h] # NoReading
             /\ hbas[h] # NoReading =>
                   /\ (hbas[h].ioc = NoReading) = (hbas'[h].ioc = NoReading)
                   /\ (hbas[h].board = NoReading) = (hbas'[h].board = NoReading)
  <2>1. hbas[h] # NoReading =>
            <<h, hbas[h].ioc = NoReading, hbas[h].board = NoReading>> \in B(hbas')
    BY <1>2
  <2>2. hbas'[h] # NoReading =>
            <<h, hbas'[h].ioc = NoReading, hbas'[h].board = NoReading>> \in B(hbas)
    BY <1>2
  <2> QED
    BY <2>1, <2>2
<1>5. ASSUME NEW g \in Group
      PROVE  {d \in Disk : IsMember(g, d)}' = {d \in Disk : IsMember(g, d)}
  BY <1>1, <1>3 DEF IsMember
<1>6. DiskSensors' = DiskSensors
  BY <1>1, <1>3, <1>5 DEF DiskSensors
<1>7. HbaSensors' = HbaSensors
  BY <1>1, <1>4 DEF HbaSensors, HasIoc, HasBoard
<1> QED
  BY <1>6, <1>7

(* Temperatures and failing disks never reconfigure the host: a snapshot   *)
(* of the same disks, kinds and probes names the sensors that are already  *)
(* there, after a snapshot that was applied without an error (planFamily   *)
(* in hwmon.go).                                                           *)
THEOREM ChurnFreeHolds == SamplesSpec => ChurnFree
<1>1. ASSUME SamplesInv, SamplesInv', [SamplesNext]_samplesVars
      PROVE  [pc = "idle" /\ clean /\ Identity(disks, hbas) = Identity(disks', hbas')
                 => \A f \in Family : SensorsFromSamples(f)' = inv[f].sensors]_samplesVars
  <2> SUFFICES ASSUME pc = "idle", clean, Identity(disks, hbas) = Identity(disks', hbas'),
                      NEW f \in Family
               PROVE  SensorsFromSamples(f)' = inv[f].sensors
    OBVIOUS
  <2>1. guest' = guest
    BY <1>1 DEF SamplesNext, ReceiveReadings, PublishSamples, Tick, samplesVars
  <2>2. SensorsKnown /\ SensorsKnown'
    BY <1>1, SensorsAre, SensorsAreNext DEF SamplesInv
  <2>3. DiskSensors' = DiskSensors /\ HbaSensors' = HbaSensors
    BY <1>1, <2>1, SameIdentity DEF SamplesInv
  <2>4. SensorsFromSamples(f)' = SensorsFromSamples(f)
    BY <2>2, <2>3 DEF SensorsKnown, Family
  <2> QED
    BY <1>1, <2>4 DEF SamplesInv, CleanInv
<1> QED
  BY <1>1, SamplesInvariant, PTL DEF SamplesSpec, ChurnFree

-----------------------------------------------------------------------------
(* The disk inventory: the theorems of Inventory. Both loops over the rows *)
(* of a file are recursive functions again; by induction on the rows read, *)
(* what they return is a matter of the sets of rows, and the properties    *)
(* follow from that.                                                       *)

(* The invariant: the files hold rows within the bound, one section per    *)
(* name.                                                                   *)
FilesInv ==
    /\ disksIni \in Seq(AssignedRow) /\ devsIni \in Seq(UnassignedRow) /\ policies \in Policies
    /\ Len(disksIni) + Len(devsIni) <= MaxRows
    /\ \A i, j \in 1..Len(disksIni) : disksIni[i].name = disksIni[j].name => i = j
    /\ \A i, j \in 1..Len(devsIni) : devsIni[i].name = devsIni[j].name => i = j

(* A row with a new name keeps the names of a file different.              *)
LEMMA OneMoreRow ==
    ASSUME NEW R, NEW s \in Seq(R), NEW row \in R, row.name \notin Names(s),
           \A i, j \in 1..Len(s) : s[i].name = s[j].name => i = j
    PROVE  LET t == Append(s, row)
           IN  /\ t \in Seq(R) /\ Len(t) = Len(s) + 1
               /\ \A i, j \in 1..Len(t) : t[i].name = t[j].name => i = j
<1> DEFINE t == Append(s, row)
<1>1. t \in Seq(R) /\ Len(t) = Len(s) + 1 /\ Len(s) \in Nat
  OBVIOUS
<1>2. \A i \in 1..Len(s) : t[i] = s[i]
  OBVIOUS
<1>3. t[Len(s) + 1] = row
  OBVIOUS
<1>4. \A i \in 1..Len(s) : s[i].name # row.name
  BY DEF Names, Range
<1> HIDE DEF t
<1>5. ASSUME NEW i \in 1..Len(t), NEW j \in 1..Len(t), t[i].name = t[j].name PROVE i = j
  <2>1. CASE i \in 1..Len(s) /\ j \in 1..Len(s)
    BY <1>2, <1>5, <2>1
  <2>2. CASE i = Len(s) + 1 /\ j = Len(s) + 1
    BY <2>2
  <2>3. CASE i = Len(s) + 1 /\ j \in 1..Len(s)
    BY <1>2, <1>3, <1>4, <1>5, <2>3
  <2>4. CASE i \in 1..Len(s) /\ j = Len(s) + 1
    BY <1>2, <1>3, <1>4, <1>5, <2>4
  <2> QED
    BY <1>1, <2>1, <2>2, <2>3, <2>4
<1> QED
  BY <1>1, <1>5 DEF t

(* Whatever Unraid writes and whatever policies the WebUI sets, the two    *)
(* files are lists of rows with different names. The claims about what     *)
(* disk_inventory.go makes of them are about every such pair of files.     *)
THEOREM FilesInvariant == InventorySpec => []FilesInv
<1>1. InventoryInit => FilesInv
  BY NumbersAssumption DEF InventoryInit, FilesInv
<1>2. FilesInv /\ [InventoryNext]_inventoryVars => FilesInv'
  <2> SUFFICES ASSUME FilesInv, [InventoryNext]_inventoryVars PROVE FilesInv'
    OBVIOUS
  <2>1. CASE \E row \in AssignedRows : WriteDisks(row)
    <3>1. PICK row \in AssignedRows : WriteDisks(row)
      BY <2>1
    <3>2. row \in AssignedRow
      BY RowsAssumption
    <3>3. /\ disksIni' \in Seq(AssignedRow) /\ Len(disksIni') = Len(disksIni) + 1
          /\ \A i, j \in 1..Len(disksIni') : disksIni'[i].name = disksIni'[j].name => i = j
      BY <3>1, <3>2, OneMoreRow DEF FilesInv, WriteDisks
    <3>4. Len(disksIni) \in Nat /\ Len(devsIni) \in Nat /\ MaxRows \in Nat
      BY NumbersAssumption DEF FilesInv
    <3> QED
      BY <3>1, <3>3, <3>4 DEF FilesInv, WriteDisks, Room
  <2>2. CASE \E row \in UnassignedRows : WriteDevs(row)
    <3>1. PICK row \in UnassignedRows : WriteDevs(row)
      BY <2>2
    <3>2. row \in UnassignedRow
      BY RowsAssumption
    <3>3. /\ devsIni' \in Seq(UnassignedRow) /\ Len(devsIni') = Len(devsIni) + 1
          /\ \A i, j \in 1..Len(devsIni') : devsIni'[i].name = devsIni'[j].name => i = j
      BY <3>1, <3>2, OneMoreRow DEF FilesInv, WriteDevs
    <3>4. Len(disksIni) \in Nat /\ Len(devsIni) \in Nat /\ MaxRows \in Nat
      BY NumbersAssumption DEF FilesInv
    <3> QED
      BY <3>1, <3>3, <3>4 DEF FilesInv, WriteDevs, Room
  <2>3. CASE SetPolicy
    BY <2>3 DEF FilesInv, SetPolicy
  <2>4. CASE UNCHANGED inventoryVars
    BY <2>4 DEF FilesInv, inventoryVars
  <2> QED
    BY <2>1, <2>2, <2>3, <2>4 DEF InventoryNext
<1> QED
  BY <1>1, <1>2, PTL DEF InventorySpec

(* The first rows of a file, and a file with one section per name.         *)
Rows(s, n) == {s[i] : i \in 1..n}
Named(s) == \A i, j \in 1..Len(s) : s[i].name = s[j].name => i = j

(* Types of entries and of what a loop over the rows has so far.           *)
AllEntries == [name : Name, id : ID \cup {NoID}, device : Device \cup {NoDevice},
               source : {"assigned", "unassigned"}, selected : BOOLEAN, invalid : BOOLEAN]
Accs == [err : BOOLEAN, entries : SUBSET AllEntries]

(* The fields of an entry.                                                 *)
LEMMA EntryIs ==
    ASSUME NEW pol, NEW row, NEW source
    PROVE  LET e == Entry(pol, row, source)
           IN  /\ e.name = row.name /\ e.id = row.id /\ e.device = row.raw.base
               /\ e.source = source
               /\ e.selected = Selected(pol, row.id, row.name, row.raw.base)
               /\ e.invalid = Invalid(row.id, row.raw.base, row.thermal)
BY DEF Entry, NormalizeDiskDevice

(* The type of an entry.                                                   *)
LEMMA EntryType ==
    ASSUME NEW pol, NEW row \in AssignedRow \cup UnassignedRow,
           NEW source \in {"assigned", "unassigned"}
    PROVE  Entry(pol, row, source) \in AllEntries
<1>1. Selected(pol, row.id, row.name, row.raw.base) \in BOOLEAN
  BY DEF Selected
<1>2. Invalid(row.id, row.raw.base, row.thermal) \in BOOLEAN
  BY DEF Invalid
<1>3. row.name \in Name /\ row.id \in ID \cup {NoID} /\ row.raw.base \in Device \cup {NoDevice}
  BY DEF AssignedRow, UnassignedRow, RawDevice
<1> QED
  BY <1>1, <1>2, <1>3 DEF Entry, NormalizeDiskDevice, AllEntries

(* One turn of the loop of readAssignedEntries keeps the type.             *)
LEMMA AddAssignedType ==
    ASSUME NEW pol, NEW acc \in Accs, NEW row \in AssignedRow
    PROVE  AddAssigned(pol, acc, row) \in Accs
<1>1. Entry(pol, row, "assigned") \in AllEntries
  BY EntryType
<1> QED
  BY <1>1 DEF AddAssigned, Accs, Success, Failure

(* One turn of the loop of readUnassignedEntries keeps the type.           *)
LEMMA AddUnassignedType ==
    ASSUME NEW pol, NEW assigned, NEW acc \in Accs, NEW row \in UnassignedRow
    PROVE  AddUnassigned(pol, assigned, acc, row) \in Accs
<1>1. Entry(pol, row, "unassigned") \in AllEntries
  BY EntryType
<1> HIDE DEF AllEntries
<1> QED
  BY <1>1 DEF AddUnassigned, Accs, Success, Failure

(* readAssignedEntries turn by turn: the recursive function in             *)
(* ReadAssigned satisfies its equations.                                   *)
LEMMA AssignedLoop ==
    ASSUME NEW pol, NEW rows \in Seq(AssignedRow)
    PROVE  \E f \in [0..Len(rows) -> Accs] :
              /\ f[0] = Success({})
              /\ \A n \in 1..Len(rows) : f[n] = AddAssigned(pol, f[n - 1], rows[n])
              /\ Len(rows) # 0 => ReadAssigned(pol, rows) = f[Len(rows)]
<1> DEFINE N == Len(rows)
           Turn == [n \in 1..N |-> [acc \in Accs |-> AddAssigned(pol, acc, rows[n])]]
           Loop(f) == f = [n \in 0..N |-> IF n = 0 THEN Success({})
                              ELSE AddAssigned(pol, f[n - 1], rows[n])]
           read == CHOOSE f : f = [n \in 0..N |-> IF n = 0 THEN Success({})
                              ELSE AddAssigned(pol, f[n - 1], rows[n])]
<1>1. N \in Nat
  OBVIOUS
<1>2. Success({}) \in Accs
  BY DEF Success, Accs
<1>3. ASSUME NEW n \in 1..N, NEW acc \in Accs
      PROVE  AddAssigned(pol, acc, rows[n]) \in Accs
  <2>1. rows[n] \in AssignedRow
    OBVIOUS
  <2> QED
    BY <2>1, AddAssignedType
<1>4. Turn \in [1..N -> [Accs -> Accs]]
  BY <1>3
<1>5. PICK f : IsLoop(f, Accs, N, Success({}), Turn)
  <2> HIDE DEF Turn, N
  <2> QED
    BY <1>1, <1>2, <1>4, LoopExists
<1>6. Loop(f)
  <2>1. ASSUME NEW n \in 0..N
        PROVE  f[n] = (IF n = 0 THEN Success({}) ELSE AddAssigned(pol, f[n - 1], rows[n]))
    <3>1. CASE n # 0
      <4>1. n \in 1..N /\ f[n - 1] \in Accs
        BY <3>1, <1>1, <1>5 DEF IsLoop
      <4>2. f[n] = Turn[n][f[n - 1]]
        BY <4>1, <1>5 DEF IsLoop
      <4> QED
        BY <3>1, <4>1, <4>2
    <3> QED
      BY <3>1, <1>5 DEF IsLoop
  <2> QED
    BY <1>5, <2>1 DEF IsLoop
<1>7. Loop(read)
  BY <1>6
<1>8. Len(rows) # 0 => ReadAssigned(pol, rows) = read[N]
  BY DEF ReadAssigned
<1> HIDE DEF read
<1>9. read \in [0..N -> Accs] /\ read[0] = Success({})
      /\ \A n \in 1..N : read[n] = AddAssigned(pol, read[n - 1], rows[n])
  <2>1. DOMAIN read = 0..N
    BY <1>7
  <2>2. read[0] = Success({})
    BY <1>7, <1>1
  <2>3. ASSUME NEW n \in 1..N PROVE read[n] = AddAssigned(pol, read[n - 1], rows[n])
    <3>1. n \in 0..N /\ n # 0
      BY <1>1
    <3> QED
      BY <1>7, <3>1
  <2> DEFINE S == {n \in Nat : n <= N => read[n] \in Accs}
  <2>4. 0 \in S
    BY <2>2, <1>2
  <2>5. ASSUME NEW n \in S PROVE n + 1 \in S
    <3> SUFFICES ASSUME n + 1 <= N PROVE read[n + 1] \in Accs
      OBVIOUS
    <3>1. n + 1 \in 1..N /\ (n + 1) - 1 = n /\ read[n] \in Accs
      BY <1>1
    <3>2. read[n + 1] = AddAssigned(pol, read[n], rows[n + 1])
      BY <3>1, <2>3
    <3> QED
      BY <3>1, <3>2, <1>3
  <2>6. S = Nat
    <3> HIDE DEF S
    <3>1. S \in SUBSET Nat
      BY DEF S
    <3> QED
      BY <2>4, <2>5, <3>1, SetInduction
  <2>7. \A n \in 0..N : read[n] \in Accs
    BY <2>6, <1>1
  <2>8. read \in [0..N -> Accs]
    BY <2>1, <2>7, <1>7
  <2> QED
    BY <2>2, <2>3, <2>8
<1> QED
  BY <1>8, <1>9

(* The same for readUnassignedEntries.                                     *)
LEMMA UnassignedLoop ==
    ASSUME NEW pol, NEW rows \in Seq(UnassignedRow), NEW assigned
    PROVE  \E f \in [0..Len(rows) -> Accs] :
              /\ f[0] = Success({})
              /\ \A n \in 1..Len(rows) : f[n] = AddUnassigned(pol, assigned, f[n - 1], rows[n])
              /\ ReadUnassigned(pol, assigned, rows) = f[Len(rows)]
<1> DEFINE N == Len(rows)
           Turn == [n \in 1..N |-> [acc \in Accs |-> AddUnassigned(pol, assigned, acc, rows[n])]]
           Loop(f) == f = [n \in 0..N |-> IF n = 0 THEN Success({})
                              ELSE AddUnassigned(pol, assigned, f[n - 1], rows[n])]
           read == CHOOSE f : f = [n \in 0..N |-> IF n = 0 THEN Success({})
                              ELSE AddUnassigned(pol, assigned, f[n - 1], rows[n])]
<1>1. N \in Nat
  OBVIOUS
<1>2. Success({}) \in Accs
  BY DEF Success, Accs
<1>3. ASSUME NEW n \in 1..N, NEW acc \in Accs
      PROVE  AddUnassigned(pol, assigned, acc, rows[n]) \in Accs
  <2>1. rows[n] \in UnassignedRow
    OBVIOUS
  <2> QED
    BY <2>1, AddUnassignedType
<1>4. Turn \in [1..N -> [Accs -> Accs]]
  BY <1>3
<1>5. PICK f : IsLoop(f, Accs, N, Success({}), Turn)
  <2> HIDE DEF Turn, N
  <2> QED
    BY <1>1, <1>2, <1>4, LoopExists
<1>6. Loop(f)
  <2>1. ASSUME NEW n \in 0..N
        PROVE  f[n] = (IF n = 0 THEN Success({})
                       ELSE AddUnassigned(pol, assigned, f[n - 1], rows[n]))
    <3>1. CASE n # 0
      <4>1. n \in 1..N /\ f[n - 1] \in Accs
        BY <3>1, <1>1, <1>5 DEF IsLoop
      <4>2. f[n] = Turn[n][f[n - 1]]
        BY <4>1, <1>5 DEF IsLoop
      <4> QED
        BY <3>1, <4>1, <4>2
    <3> QED
      BY <3>1, <1>5 DEF IsLoop
  <2> QED
    BY <1>5, <2>1 DEF IsLoop
<1>7. Loop(read)
  BY <1>6
<1>8. ReadUnassigned(pol, assigned, rows) = read[N]
  BY DEF ReadUnassigned
<1> HIDE DEF read
<1>9. read \in [0..N -> Accs] /\ read[0] = Success({})
      /\ \A n \in 1..N : read[n] = AddUnassigned(pol, assigned, read[n - 1], rows[n])
  <2>1. DOMAIN read = 0..N
    BY <1>7
  <2>2. read[0] = Success({})
    BY <1>7, <1>1
  <2>3. ASSUME NEW n \in 1..N PROVE read[n] = AddUnassigned(pol, assigned, read[n - 1], rows[n])
    <3>1. n \in 0..N /\ n # 0
      BY <1>1
    <3> QED
      BY <1>7, <3>1
  <2> DEFINE S == {n \in Nat : n <= N => read[n] \in Accs}
  <2>4. 0 \in S
    BY <2>2, <1>2
  <2>5. ASSUME NEW n \in S PROVE n + 1 \in S
    <3> SUFFICES ASSUME n + 1 <= N PROVE read[n + 1] \in Accs
      OBVIOUS
    <3>1. n + 1 \in 1..N /\ (n + 1) - 1 = n /\ read[n] \in Accs
      BY <1>1
    <3>2. read[n + 1] = AddUnassigned(pol, assigned, read[n], rows[n + 1])
      BY <3>1, <2>3
    <3> QED
      BY <3>1, <3>2, <1>3
  <2>6. S = Nat
    <3> HIDE DEF S
    <3>1. S \in SUBSET Nat
      BY DEF S
    <3> QED
      BY <2>4, <2>5, <3>1, SetInduction
  <2>7. \A n \in 0..N : read[n] \in Accs
    BY <2>6, <1>1
  <2>8. read \in [0..N -> Accs]
    BY <2>1, <2>7, <1>7
  <2> QED
    BY <2>2, <2>3, <2>8
<1> QED
  BY <1>8, <1>9

(* One more row is a new one, since its name is.                           *)
LEMMA MoreRows ==
    ASSUME NEW R, NEW s \in Seq(R), Named(s), NEW n \in Nat, n + 1 <= Len(s)
    PROVE  Rows(s, n + 1) = Rows(s, n) \cup {s[n + 1]} /\ s[n + 1] \notin Rows(s, n)
<1>1. 1..(n + 1) = (1..n) \cup {n + 1}
  OBVIOUS
<1>2. ASSUME NEW i \in 1..n PROVE s[i] # s[n + 1]
  <2>1. i \in 1..Len(s) /\ n + 1 \in 1..Len(s) /\ i # n + 1
    OBVIOUS
  <2> QED
    BY <2>1 DEF Named
<1> QED
  BY <1>1, <1>2 DEF Rows

(* The reference sets of Inventory, for any rows: what counts, and when    *)
(* two rows claim one ID.                                                  *)
ActiveIn(R) == {r \in R : ~r.np}
Clash(R) == \E a, b \in R : a # b /\ a.id = b.id /\ a.id # NoID
EntriesOf(pol, R, source) == {Entry(pol, r, source) : r \in R}

(* What readAssignedEntries must return for the rows R.                    *)
AssignedOK(acc, pol, R) ==
    acc = IF Clash(ActiveIn(R)) THEN Failure
          ELSE Success(EntriesOf(pol, ActiveIn(R), "assigned"))

(* The two kinds of results.                                               *)
LEMMA Results ==
    /\ Failure.err = TRUE /\ Failure.entries = {}
    /\ \A E : Success(E).err = FALSE /\ Success(E).entries = E
BY DEF Failure, Success

(* An ID has been seen when a row before had it.                           *)
LEMMA SeenIs ==
    ASSUME NEW pol, NEW R, NEW source, NEW id
    PROVE  Seen(EntriesOf(pol, R, source), id) # {} <=> id # NoID /\ \E r \in R : r.id = id
<1>1. \A r \in R : Entry(pol, r, source).id = r.id
  BY EntryIs
<1> QED
  BY <1>1 DEF Seen, EntriesOf

(* One turn of readAssignedEntries.                                        *)
LEMMA AssignedStep ==
    ASSUME NEW pol, NEW acc, NEW R, NEW row, row \notin R, AssignedOK(acc, pol, R)
    PROVE  AssignedOK(AddAssigned(pol, acc, row), pol, R \cup {row})
<1> DEFINE A == ActiveIn(R)
           B == ActiveIn(R \cup {row})
<1>1. CASE row.np
  <2>1. B = A
    BY <1>1 DEF ActiveIn
  <2>2. AddAssigned(pol, acc, row) = acc
    BY <1>1 DEF AddAssigned
  <2> QED
    BY <2>1, <2>2 DEF AssignedOK
<1>2. CASE ~row.np
  <2>1. B = A \cup {row} /\ row \notin A
    BY <1>2 DEF ActiveIn
  <2> HIDE DEF A, B
  <2>2. CASE Clash(A)
    <3>1. Clash(B)
      BY <2>1, <2>2 DEF Clash
    <3>2. acc = Failure /\ acc.err
      BY <2>2, Results DEF AssignedOK, A
    <3>3. AddAssigned(pol, acc, row) = acc
      BY <3>2 DEF AddAssigned
    <3> QED
      BY <3>1, <3>2, <3>3 DEF AssignedOK, B
  <2>3. CASE ~Clash(A)
    <3>1. acc = Success(EntriesOf(pol, A, "assigned"))
      BY <2>3 DEF AssignedOK, A
    <3>2. ~acc.err /\ acc.entries = EntriesOf(pol, A, "assigned")
      BY <3>1, Results
    <3>3. Seen(acc.entries, row.id) # {} <=> Clash(B)
      <4>1. Seen(acc.entries, row.id) # {} <=> row.id # NoID /\ \E r \in A : r.id = row.id
        BY <3>2, SeenIs
      <4> QED
        BY <4>1, <2>1, <2>3 DEF Clash
    <3>4. EntriesOf(pol, B, "assigned") = acc.entries \cup {Entry(pol, row, "assigned")}
      BY <3>2, <2>1 DEF EntriesOf
    <3> QED
      BY <3>2, <3>3, <3>4, <1>2 DEF AssignedOK, AddAssigned, B
  <2> QED
    BY <2>2, <2>3
<1> QED
  BY <1>1, <1>2

(* readAssignedEntries as a whole, by induction on the rows read.          *)
LEMMA AssignedRight ==
    ASSUME NEW pol, NEW rows \in Seq(AssignedRow), Named(rows), Len(rows) # 0
    PROVE  AssignedOK(ReadAssigned(pol, rows), pol, Range(rows))
<1>1. PICK f \in [0..Len(rows) -> Accs] :
              /\ f[0] = Success({})
              /\ \A n \in 1..Len(rows) : f[n] = AddAssigned(pol, f[n - 1], rows[n])
              /\ Len(rows) # 0 => ReadAssigned(pol, rows) = f[Len(rows)]
  BY AssignedLoop
<1> DEFINE S == {n \in Nat : n <= Len(rows) => AssignedOK(f[n], pol, Rows(rows, n))}
<1>2. 0 \in S
  <2>1. Rows(rows, 0) = {}
    BY DEF Rows
  <2> QED
    BY <1>1, <2>1 DEF AssignedOK, ActiveIn, Clash, EntriesOf
<1>3. ASSUME NEW n \in S PROVE n + 1 \in S
  <2> SUFFICES ASSUME n + 1 <= Len(rows) PROVE AssignedOK(f[n + 1], pol, Rows(rows, n + 1))
    OBVIOUS
  <2>1. /\ n \in Nat /\ n + 1 \in 1..Len(rows) /\ (n + 1) - 1 = n
        /\ AssignedOK(f[n], pol, Rows(rows, n))
    OBVIOUS
  <2>2. f[n + 1] = AddAssigned(pol, f[n], rows[n + 1])
    BY <1>1, <2>1
  <2>3. Rows(rows, n + 1) = Rows(rows, n) \cup {rows[n + 1]} /\ rows[n + 1] \notin Rows(rows, n)
    BY <2>1, MoreRows
  <2> QED
    BY <2>1, <2>2, <2>3, AssignedStep
<1>4. S = Nat
  <2> HIDE DEF S
  <2>1. S \in SUBSET Nat
    BY DEF S
  <2> QED
    BY <1>2, <1>3, <2>1, SetInduction
<1>5. AssignedOK(f[Len(rows)], pol, Rows(rows, Len(rows)))
  BY <1>4
<1>6. Rows(rows, Len(rows)) = Range(rows)
  BY DEF Rows, Range
<1> QED
  BY <1>1, <1>5, <1>6

(* A row of devs.ini that no row of A shadows, and those that can be read. *)
SeenBy(A, r) ==
    /\ \A a \in A : a.id = r.id => a.id = NoID
    /\ \A a \in A : a.name = FlashName /\ a.raw.base # NoDevice => a.raw.base # r.raw.base
VisibleIn(A, R) == {r \in R : SeenBy(A, r)}
UsableIn(V) == {r \in V : r.raw.base # NoDevice}

(* The maps assignedIDs and flashDevices decide exactly that.              *)
LEMMA ShadowedIs ==
    ASSUME NEW pol, NEW A, NEW row
    PROVE  Shadowed(EntriesOf(pol, A, "assigned"), row) <=> ~SeenBy(A, row)
<1> DEFINE E == EntriesOf(pol, A, "assigned")
<1>1. \A a \in A : LET e == Entry(pol, a, "assigned")
                   IN  e.id = a.id /\ e.name = a.name /\ e.device = a.raw.base
  BY EntryIs
<1>2. row.id \in AssignedIDs(E) <=> \E a \in A : a.id = row.id /\ a.id # NoID
  BY <1>1 DEF AssignedIDs, EntriesOf
<1>3. row.raw.base \in FlashDevices(E) <=>
          \E a \in A : a.name = FlashName /\ a.raw.base # NoDevice /\ a.raw.base = row.raw.base
  BY <1>1 DEF FlashDevices, EntriesOf
<1> QED
  BY <1>2, <1>3 DEF Shadowed, SeenBy, NormalizeDiskDevice

(* What readUnassignedEntries must keep of the visible rows V: nothing     *)
(* else, every row without an ID, one entry per ID, and of two rows of one *)
(* ID the one with a device. Which of several rows without a device stays  *)
(* depends on their order; nothing else does.                              *)
KeptOK(E, pol, V) ==
    /\ \A e \in E : \E r \in V : e = Entry(pol, r, "unassigned")
    /\ \A r \in V : r.id = NoID => Entry(pol, r, "unassigned") \in E
    /\ \A r \in V : r.id # NoID => \E e \in E : e.id = r.id
    /\ \A r \in UsableIn(V) : Entry(pol, r, "unassigned") \in E
    /\ \A e, f \in E : e.id = f.id /\ e.id # NoID => e = f

(* What it must return.                                                    *)
UnassignedOK(acc, pol, V) ==
    IF Clash(UsableIn(V)) THEN acc = Failure ELSE ~acc.err /\ KeptOK(acc.entries, pol, V)

(* One turn of readUnassignedEntries with a row that is not shadowed.      *)
LEMMA UnassignedStep ==
    ASSUME NEW pol, NEW assigned, NEW acc, NEW V, NEW row, row \notin V,
           ~Shadowed(assigned, row), UnassignedOK(acc, pol, V)
    PROVE  UnassignedOK(AddUnassigned(pol, assigned, acc, row), pol, V \cup {row})
<1> DEFINE E == acc.entries
           W == V \cup {row}
           entry == Entry(pol, row, "unassigned")
           seen == Seen(E, row.id)
           next == AddUnassigned(pol, assigned, acc, row)
<1>1. /\ entry.id = row.id /\ entry.device = row.raw.base
      /\ \A r : LET e == Entry(pol, r, "unassigned") IN e.id = r.id /\ e.device = r.raw.base
  BY EntryIs
<1>2. seen = {e \in E : e.id = row.id /\ row.id # NoID}
  BY DEF Seen
<1>3. UsableIn(W) = IF row.raw.base = NoDevice THEN UsableIn(V) ELSE UsableIn(V) \cup {row}
  BY DEF UsableIn
<1>4. CASE Clash(UsableIn(V))
  <2>1. acc = Failure /\ acc.err
    BY <1>4, Results DEF UnassignedOK
  <2>2. Clash(UsableIn(W))
    BY <1>3, <1>4 DEF Clash
  <2>3. next = acc
    BY <2>1 DEF AddUnassigned
  <2> QED
    BY <2>1, <2>2, <2>3 DEF UnassignedOK
<1>5. CASE ~Clash(UsableIn(V))
  <2>1. ~acc.err /\ KeptOK(E, pol, V)
    BY <1>5 DEF UnassignedOK
  <2>2. next = IF row.raw.base = NoDevice /\ seen # {} THEN acc
               ELSE IF \E e \in seen : e.device # NoDevice THEN Failure
               ELSE Success((E \ seen) \cup {entry})
    BY <2>1, <1>1 DEF AddUnassigned
  <2>a. \A r \in V : r \in W
    OBVIOUS
  <2> HIDE DEF next, entry, seen, E
  <2>3. CASE row.raw.base = NoDevice /\ seen # {}
    <3>1. next = acc /\ UsableIn(W) = UsableIn(V)
      BY <2>2, <2>3, <1>3
    <3>2. row.id # NoID /\ \E e \in E : e.id = row.id
      BY <2>3, <1>2
    <3>3. KeptOK(E, pol, W)
      BY <2>1, <3>1, <3>2 DEF KeptOK
    <3> QED
      BY <1>5, <2>1, <3>1, <3>3 DEF UnassignedOK, next, E
  <2>4. CASE ~(row.raw.base = NoDevice /\ seen # {}) /\ \E e \in seen : e.device # NoDevice
    <3>1. row.raw.base # NoDevice /\ next = Failure
      BY <2>2, <2>4
    <3>2. PICK e \in E : e.device # NoDevice /\ e.id = row.id /\ row.id # NoID
      BY <2>4, <1>2
    <3>3. PICK r \in V : e = Entry(pol, r, "unassigned")
      BY <2>1 DEF KeptOK
    <3>4. r \in UsableIn(V) /\ r.id = row.id /\ r # row
      BY <3>2, <3>3, <1>1 DEF UsableIn
    <3>5. Clash(UsableIn(W))
      BY <3>1, <3>2, <3>4, <1>3 DEF Clash
    <3> QED
      BY <3>1, <3>5 DEF UnassignedOK, next
  <2>5. CASE ~(row.raw.base = NoDevice /\ seen # {}) /\ ~\E e \in seen : e.device # NoDevice
    <3> DEFINE F == (E \ seen) \cup {entry}
    <3>1. next = Success(F) /\ ~next.err /\ next.entries = F
      BY <2>2, <2>5, Results
    <3>2. \A r \in UsableIn(V) : Entry(pol, r, "unassigned") \notin seen
      BY <2>5, <1>1 DEF UsableIn
    <3>3. ~Clash(UsableIn(W))
      <4>1. ASSUME NEW a \in UsableIn(V), a.id = row.id, a.id # NoID PROVE FALSE
        <5>1. Entry(pol, a, "unassigned") \in E
          BY <2>1 DEF KeptOK
        <5>2. Entry(pol, a, "unassigned") \in seen
          BY <5>1, <4>1, <1>1, <1>2
        <5> QED
          BY <5>2, <3>2
      <4> QED
        BY <4>1, <1>3, <1>5 DEF Clash
    <3>4. \A e \in F : \E r \in W : e = Entry(pol, r, "unassigned")
      BY <2>1 DEF KeptOK, entry
    <3>5. \A r \in W : r.id = NoID => Entry(pol, r, "unassigned") \in F
      BY <2>1, <1>1, <1>2 DEF KeptOK, entry
    <3>6. ASSUME NEW r \in W, r.id # NoID PROVE \E e \in F : e.id = r.id
      <4>1. CASE r.id = row.id
        BY <4>1, <1>1
      <4>2. CASE r.id # row.id
        <5>1. r \in V
          BY <4>2
        <5>2. PICK e \in E : e.id = r.id
          BY <5>1, <3>6, <2>1 DEF KeptOK
        <5> QED
          BY <5>2, <4>2, <1>2
      <4> QED
        BY <4>1, <4>2
    <3>7. \A r \in UsableIn(W) : Entry(pol, r, "unassigned") \in F
      <4>1. \A r \in UsableIn(V) : Entry(pol, r, "unassigned") \in F
        BY <2>1, <3>2 DEF KeptOK
      <4> QED
        BY <4>1, <1>3 DEF entry
    <3>8. ASSUME NEW e \in F, NEW f \in F, e.id = f.id, e.id # NoID PROVE e = f
      <4>1. \A g \in E \ seen : g.id = row.id => g.id = NoID
        BY <1>2
      <4> QED
        BY <4>1, <3>8, <2>1, <1>1 DEF KeptOK
    <3>9. KeptOK(F, pol, W)
      BY <3>4, <3>5, <3>6, <3>7, <3>8 DEF KeptOK
    <3> QED
      BY <3>1, <3>3, <3>9 DEF UnassignedOK, next
  <2> QED
    BY <2>3, <2>4, <2>5
<1> QED
  BY <1>4, <1>5

(* readUnassignedEntries as a whole, by induction on the rows read.        *)
LEMMA UnassignedRight ==
    ASSUME NEW pol, NEW rows \in Seq(UnassignedRow), Named(rows), NEW A
    PROVE  UnassignedOK(ReadUnassigned(pol, EntriesOf(pol, A, "assigned"), rows), pol,
                        VisibleIn(A, Range(rows)))
<1> DEFINE assigned == EntriesOf(pol, A, "assigned")
<1>1. PICK f \in [0..Len(rows) -> Accs] :
              /\ f[0] = Success({})
              /\ \A n \in 1..Len(rows) : f[n] = AddUnassigned(pol, assigned, f[n - 1], rows[n])
              /\ ReadUnassigned(pol, assigned, rows) = f[Len(rows)]
  BY UnassignedLoop
<1> HIDE DEF assigned
<1> DEFINE V(n) == VisibleIn(A, Rows(rows, n))
           S == {n \in Nat : n <= Len(rows) => UnassignedOK(f[n], pol, V(n))}
<1>2. 0 \in S
  <2>1. V(0) = {}
    BY DEF Rows, VisibleIn
  <2>2. ~Success({}).err /\ Success({}).entries = {}
    BY Results
  <2> QED
    BY <1>1, <2>1, <2>2 DEF UnassignedOK, KeptOK, UsableIn, Clash
<1>3. ASSUME NEW n \in S PROVE n + 1 \in S
  <2> SUFFICES ASSUME n + 1 <= Len(rows) PROVE UnassignedOK(f[n + 1], pol, V(n + 1))
    OBVIOUS
  <2> DEFINE row == rows[n + 1]
  <2>1. n \in Nat /\ n + 1 \in 1..Len(rows) /\ (n + 1) - 1 = n /\ UnassignedOK(f[n], pol, V(n))
    OBVIOUS
  <2>2. f[n + 1] = AddUnassigned(pol, assigned, f[n], row)
    BY <1>1, <2>1
  <2>3. Rows(rows, n + 1) = Rows(rows, n) \cup {row} /\ row \notin Rows(rows, n)
    BY <2>1, MoreRows
  <2>4. CASE Shadowed(assigned, row)
    <3>1. V(n + 1) = V(n)
      BY <2>3, <2>4, ShadowedIs DEF VisibleIn, assigned
    <3>2. f[n + 1] = f[n]
      BY <2>2, <2>4 DEF AddUnassigned
    <3> QED
      BY <2>1, <3>1, <3>2
  <2>5. CASE ~Shadowed(assigned, row)
    <3>1. V(n + 1) = V(n) \cup {row} /\ row \notin V(n)
      BY <2>3, <2>5, ShadowedIs DEF VisibleIn, assigned
    <3> HIDE DEF V, row
    <3> QED
      BY <2>1, <2>2, <2>5, <3>1, UnassignedStep
  <2> QED
    BY <2>4, <2>5
<1>4. S = Nat
  <2> HIDE DEF S
  <2>1. S \in SUBSET Nat
    BY DEF S
  <2> QED
    BY <1>2, <1>3, <2>1, SetInduction
<1>5. UnassignedOK(f[Len(rows)], pol, V(Len(rows)))
  BY <1>4
<1>6. Rows(rows, Len(rows)) = Range(rows)
  BY DEF Rows, Range
<1> QED
  BY <1>1, <1>5, <1>6 DEF assigned

(* The files for which there is no inventory whatever the policies say.    *)
Fails(a, d) ==
    LET A == ActiveIn(Range(a))
    IN  Len(a) = 0 \/ Clash(A) \/ Clash(UsableIn(VisibleIn(A, Range(d))))

(* readDiskInventoryEntries: what it returns in terms of the sets of rows. *)
LEMMA EntriesRight ==
    ASSUME NEW pol, NEW a \in Seq(AssignedRow), Named(a), NEW d \in Seq(UnassignedRow), Named(d)
    PROVE  LET A == ActiveIn(Range(a))
           IN  /\ Fails(a, d) => ReadEntries(pol, a, d) = Failure
               /\ ~Fails(a, d) =>
                     /\ ~ReadEntries(pol, a, d).err
                     /\ \E K : /\ KeptOK(K, pol, VisibleIn(A, Range(d)))
                               /\ ReadEntries(pol, a, d).entries =
                                     EntriesOf(pol, A, "assigned") \cup K
<1> DEFINE A == ActiveIn(Range(a))
           V == VisibleIn(A, Range(d))
           assigned == ReadAssigned(pol, a)
           unassigned == ReadUnassigned(pol, assigned.entries, d)
<1>1. ReadEntries(pol, a, d) = IF assigned.err \/ unassigned.err THEN Failure
                               ELSE Success(assigned.entries \cup unassigned.entries)
  BY DEF ReadEntries
<1>2. Fails(a, d) <=> Len(a) = 0 \/ Clash(A) \/ Clash(UsableIn(V))
  BY DEF Fails
<1>3. CASE Len(a) = 0
  <2>1. assigned.err
    BY <1>3, Results DEF ReadAssigned
  <2> QED
    BY <1>1, <1>2, <1>3, <2>1
<1>4. CASE Len(a) # 0
  <2>1. AssignedOK(assigned, pol, Range(a))
    BY <1>4, AssignedRight
  <2> HIDE DEF A, V, assigned
  <2>2. CASE Clash(A)
    <3>1. assigned = Failure
      BY <2>1, <2>2 DEF AssignedOK, A
    <3>2. assigned.err
      BY <3>1, Results
    <3> QED
      BY <1>1, <1>2, <2>2, <3>2
  <2>3. CASE ~Clash(A)
    <3>1. assigned = Success(EntriesOf(pol, A, "assigned"))
      BY <2>1, <2>3 DEF AssignedOK, A
    <3>2. ~assigned.err /\ assigned.entries = EntriesOf(pol, A, "assigned")
      BY <3>1, Results
    <3>3. UnassignedOK(unassigned, pol, V)
      BY <3>2, UnassignedRight DEF V
    <3> HIDE DEF unassigned
    <3>4. CASE Clash(UsableIn(V))
      <4>1. unassigned = Failure
        BY <3>3, <3>4 DEF UnassignedOK
      <4>2. unassigned.err
        BY <4>1, Results
      <4> QED
        BY <1>1, <1>2, <3>4, <4>2
    <3>5. CASE ~Clash(UsableIn(V))
      <4>1. ~unassigned.err /\ KeptOK(unassigned.entries, pol, V)
        BY <3>3, <3>5 DEF UnassignedOK
      <4>2. ReadEntries(pol, a, d) = Success(assigned.entries \cup unassigned.entries)
        BY <1>1, <3>2, <4>1
      <4>3. /\ ~ReadEntries(pol, a, d).err
            /\ ReadEntries(pol, a, d).entries =
                  EntriesOf(pol, A, "assigned") \cup unassigned.entries
        BY <4>2, <3>2, Results
      <4> QED
        BY <4>1, <4>3, <1>2, <1>4, <2>3, <3>5 DEF A, V
    <3> QED
      BY <3>4, <3>5
  <2> QED
    BY <2>2, <2>3
<1> QED
  BY <1>3, <1>4

(* The entries that the order of the rows does not decide, and those of    *)
(* them that are selected.                                                 *)
Candidates(pol, A, U) == EntriesOf(pol, A, "assigned") \cup EntriesOf(pol, U, "unassigned")
Chosen(pol, a, d) ==
    LET A == ActiveIn(Range(a))
    IN  {e \in Candidates(pol, A, UsableIn(VisibleIn(A, Range(d)))) : e.selected}

(* selectedDisks considers just these.                                     *)
LEMMA ChosenRight ==
    ASSUME NEW pol, NEW a \in Seq(AssignedRow), Named(a), NEW d \in Seq(UnassignedRow), Named(d),
           ~Fails(a, d)
    PROVE  {e \in ReadEntries(pol, a, d).entries : Collects(e)} = Chosen(pol, a, d)
<1> DEFINE A == ActiveIn(Range(a))
           V == VisibleIn(A, Range(d))
           E == ReadEntries(pol, a, d).entries
<1>1. PICK K : KeptOK(K, pol, V) /\ E = EntriesOf(pol, A, "assigned") \cup K
  BY EntriesRight
<1> HIDE DEF A, V, E
<1>2. \A e \in EntriesOf(pol, A, "assigned") : e.source = "assigned"
  BY EntryIs DEF EntriesOf
<1>3. \A e \in K : e.source = "unassigned"
  BY <1>1, EntryIs DEF KeptOK
<1>4. {e \in K : e.device # NoDevice} = EntriesOf(pol, UsableIn(V), "unassigned")
  <2>1. ASSUME NEW e \in K, e.device # NoDevice
        PROVE  e \in EntriesOf(pol, UsableIn(V), "unassigned")
    <3>1. PICK r \in V : e = Entry(pol, r, "unassigned")
      BY <1>1 DEF KeptOK
    <3>2. r \in UsableIn(V)
      BY <3>1, <2>1, EntryIs DEF UsableIn
    <3> QED
      BY <3>1, <3>2 DEF EntriesOf
  <2>2. ASSUME NEW e \in EntriesOf(pol, UsableIn(V), "unassigned")
        PROVE  e \in K /\ e.device # NoDevice
    <3>1. PICK r \in UsableIn(V) : e = Entry(pol, r, "unassigned")
      BY DEF EntriesOf
    <3>2. e.device = r.raw.base /\ r.raw.base # NoDevice
      BY <3>1, EntryIs DEF UsableIn
    <3> QED
      BY <3>1, <3>2, <1>1 DEF KeptOK
  <2> QED
    BY <2>1, <2>2
<1>5. {e \in E : Collects(e)} = {e \in Candidates(pol, A, UsableIn(V)) : e.selected}
  BY <1>1, <1>2, <1>3, <1>4 DEF Collects, Candidates
<1> QED
  BY <1>5 DEF Chosen, A, V, E

(* readDiskInventory in terms of the sets of rows: their order is gone.    *)
LEMMA InventoryRight ==
    ASSUME NEW pol, NEW a \in Seq(AssignedRow), Named(a), NEW d \in Seq(UnassignedRow), Named(d)
    PROVE  ReadInventory(pol, a, d) =
              IF Fails(a, d) \/ (\E e \in Chosen(pol, a, d) : e.invalid) THEN Failure
              ELSE Success(Chosen(pol, a, d))
<1>1. CASE Fails(a, d)
  <2>1. ReadEntries(pol, a, d) = Failure
    BY <1>1, EntriesRight
  <2> QED
    BY <1>1, <2>1, Results DEF ReadInventory
<1>2. CASE ~Fails(a, d)
  <2>1. ~ReadEntries(pol, a, d).err
    BY <1>2, EntriesRight
  <2>2. {e \in ReadEntries(pol, a, d).entries : Collects(e)} = Chosen(pol, a, d)
    BY <1>2, ChosenRight
  <2> QED
    BY <1>2, <2>1, <2>2 DEF ReadInventory, SelectedDisks
<1> QED
  BY <1>1, <1>2

(* Inventory's reference sets are those of the current files.              *)
LEMMA ReferenceIs ==
    /\ Active = ActiveIn(Range(disksIni))
    /\ Visible = VisibleIn(Active, Range(devsIni))
    /\ Usable = UsableIn(Visible)
    /\ Conflict <=> Clash(Active) \/ Clash(Usable)
BY DEF Active, Visible, Usable, Conflict, ActiveIn, VisibleIn, SeenBy, UsableIn, Clash

(* What the invariant says about the current files.                        *)
LEMMA FilesAre ==
    ASSUME FilesInv
    PROVE  /\ disksIni \in Seq(AssignedRow) /\ devsIni \in Seq(UnassignedRow)
           /\ Named(disksIni) /\ Named(devsIni)
           /\ policies \in [ID -> Policy] /\ \A i \in LongID : policies[i] = "auto"
           /\ Fails(disksIni, devsIni) <=> disksIni = <<>> \/ Conflict
           /\ \A pol : Chosen(pol, disksIni, devsIni) =
                          {e \in Candidates(pol, Active, Usable) : e.selected}
<1>1. Len(disksIni) = 0 <=> disksIni = <<>>
  BY DEF FilesInv
<1> QED
  BY <1>1, ReferenceIs, PoliciesAssumption DEF FilesInv, Named, Fails, Chosen

(* The fields of their rows.                                               *)
LEMMA RowTypes ==
    ASSUME FilesInv
    PROVE  /\ \A r \in Active : r \in AssignedRow
           /\ \A r \in Range(devsIni) : r \in UnassignedRow
           /\ \A r \in Usable : r \in UnassignedRow /\ r \in Visible /\ r.raw.base # NoDevice
           /\ \A r \in Active \cup Usable \cup Range(devsIni) :
                 /\ r.id \in ID \cup {NoID} /\ r.name \in Name
                 /\ r.raw.base \in Device \cup {NoDevice}
<1>1. \A r \in Active : r \in AssignedRow
  BY DEF FilesInv, Active, Range
<1>2. \A r \in Range(devsIni) : r \in UnassignedRow
  BY DEF FilesInv, Range
<1>3. \A r \in Usable : r \in Visible /\ r.raw.base # NoDevice /\ r \in Range(devsIni)
  BY DEF Usable, Visible
<1> QED
  BY <1>1, <1>2, <1>3 DEF AssignedRow, UnassignedRow, RawDevice

(* A candidate is the entry of a row.                                      *)
LEMMA CandidateIs ==
    ASSUME FilesInv, NEW pol, NEW e \in Candidates(pol, Active, Usable)
    PROVE  \E r \in Active \cup Usable :
              /\ \/ r \in Active /\ e = Entry(pol, r, "assigned")
                 \/ r \in Usable /\ e = Entry(pol, r, "unassigned")
              /\ e.name = r.name /\ e.id = r.id /\ e.device = r.raw.base
              /\ e.selected = Selected(pol, r.id, r.name, r.raw.base)
              /\ e.invalid = Invalid(r.id, r.raw.base, r.thermal)
<1>1. \/ \E r \in Active : e = Entry(pol, r, "assigned")
      \/ \E r \in Usable : e = Entry(pol, r, "unassigned")
  BY DEF Candidates, EntriesOf
<1>a. PICK r \in Active \cup Usable :
          \/ r \in Active /\ e = Entry(pol, r, "assigned")
          \/ r \in Usable /\ e = Entry(pol, r, "unassigned")
  BY <1>1
<1>2. /\ e.name = r.name /\ e.id = r.id /\ e.device = r.raw.base
      /\ e.selected = Selected(pol, r.id, r.name, r.raw.base)
      /\ e.invalid = Invalid(r.id, r.raw.base, r.thermal)
  BY <1>a, EntryIs
<1> QED
  BY <1>a, <1>2

(* Without a conflict no two candidates have one stable ID: rows of one    *)
(* file because there is no conflict, rows of both because disks.ini       *)
(* shadows devs.ini.                                                       *)
LEMMA CandidatesDiffer ==
    ASSUME FilesInv, ~Conflict, NEW pol, NEW e \in Candidates(pol, Active, Usable),
           NEW f \in Candidates(pol, Active, Usable), e.id = f.id, e.id # NoID
    PROVE  e = f
<1>1. PICK r \in Active \cup Usable :
          /\ \/ r \in Active /\ e = Entry(pol, r, "assigned")
             \/ r \in Usable /\ e = Entry(pol, r, "unassigned")
          /\ e.id = r.id
  BY CandidateIs
<1>2. PICK q \in Active \cup Usable :
          /\ \/ q \in Active /\ f = Entry(pol, q, "assigned")
             \/ q \in Usable /\ f = Entry(pol, q, "unassigned")
          /\ f.id = q.id
  BY CandidateIs
<1>3. ~Clash(Active) /\ ~Clash(Usable)
  BY ReferenceIs
<1>4. \A a \in Active, u \in Usable : a.id = u.id => a.id = NoID
  BY RowTypes DEF Visible
<1> QED
  BY <1>1, <1>2, <1>3, <1>4 DEF Clash

(* evaluate and diskValidationError decide what the reference says.        *)
LEMMA SelectedIsMonitored ==
    ASSUME FilesInv, NEW r \in Active \cup Usable
    PROVE  /\ Selected(policies, r.id, r.name, r.raw.base) <=> Monitored(r)
           /\ Invalid(r.id, r.raw.base, r.thermal) <=> ~Sound(r)
<1>1. r.id \in ID \cup {NoID} /\ NoID \notin ID
  BY RowTypes, NumbersAssumption DEF NoID
<1>2. PolicyOf(policies, r.id) \in Policy
  BY <1>1, FilesAre DEF PolicyOf, Policy
<1>3. Selected(policies, r.id, r.name, r.raw.base) <=> Monitored(r)
  BY <1>2 DEF Selected, Monitored, Policy
<1>4. Invalid(r.id, r.raw.base, r.thermal) <=> ~Sound(r)
  BY <1>1 DEF Invalid, Sound
<1> QED
  BY <1>3, <1>4

(* What the collector receives.                                            *)
LEMMA CollectedIs ==
    ASSUME FilesInv
    PROVE  LET C == {e \in Candidates(policies, Active, Usable) : e.selected}
           IN  /\ Collected = IF disksIni = <<>> \/ Conflict \/ (\E e \in C : e.invalid)
                              THEN Failure ELSE Success(C)
               /\ ~Collected.err => ~Conflict /\ Collected.entries = C /\ \A e \in C : ~e.invalid
               /\ Collected.err => Collected.entries = {}
<1> DEFINE C == {e \in Candidates(policies, Active, Usable) : e.selected}
<1>1. Chosen(policies, disksIni, devsIni) = C
  BY FilesAre
<1> HIDE DEF C
<1>2. Collected = IF disksIni = <<>> \/ Conflict \/ (\E e \in C : e.invalid)
                  THEN Failure ELSE Success(C)
  BY <1>1, FilesAre, InventoryRight DEF Collected
<1> QED
  BY <1>2, Results DEF C

(* Every disk it receives is a sound row that is asked for.                *)
LEMMA CollectedDisk ==
    ASSUME FilesInv, NEW e \in Collected.entries
    PROVE  \E r \in Active \cup Usable :
              /\ Monitored(r) /\ Sound(r)
              /\ \/ r \in Active /\ e = Entry(policies, r, "assigned")
                 \/ r \in Usable /\ e = Entry(policies, r, "unassigned")
              /\ e.name = r.name /\ e.id = r.id /\ e.device = r.raw.base
<1>1. e \in Candidates(policies, Active, Usable) /\ e.selected /\ ~e.invalid
  BY CollectedIs
<1> QED
  BY <1>1, CandidateIs, SelectedIsMonitored

(* First part of AllOrNothing: complete or refused.                        *)
LEMMA PartialNever == FilesInv => NeverPartial
<1> SUFFICES ASSUME FilesInv PROVE NeverPartial
  OBVIOUS
<1> DEFINE C == {e \in Candidates(policies, Active, Usable) : e.selected}
           wanted == {r \in Active \cup Usable : Monitored(r)}
<1>1. ASSUME NEW e \in C
      PROVE  \E r \in wanted : /\ e.name = r.name /\ e.id = r.id /\ e.device = r.raw.base
                               /\ e.invalid <=> ~Sound(r)
  BY CandidateIs, SelectedIsMonitored
<1>2. ASSUME NEW r \in wanted
      PROVE  \E e \in C : /\ e.name = r.name /\ e.id = r.id /\ e.device = r.raw.base
                          /\ e.invalid <=> ~Sound(r)
  <2>1. PICK source \in {"assigned", "unassigned"} :
            Entry(policies, r, source) \in Candidates(policies, Active, Usable)
    BY DEF Candidates, EntriesOf
  <2> DEFINE e == Entry(policies, r, source)
  <2>2. /\ e.name = r.name /\ e.id = r.id /\ e.device = r.raw.base
        /\ e.selected = Selected(policies, r.id, r.name, r.raw.base)
        /\ e.invalid = Invalid(r.id, r.raw.base, r.thermal)
    BY EntryIs
  <2>3. e.selected /\ (e.invalid <=> ~Sound(r))
    BY <2>2, SelectedIsMonitored
  <2> HIDE DEF e
  <2> QED
    BY <2>1, <2>2, <2>3 DEF e
<1>3. (\E e \in C : e.invalid) <=> \E r \in wanted : ~Sound(r)
  BY <1>1, <1>2
<1>4. {<<e.name, e.id, e.device>> : e \in C} = {<<r.name, r.id, r.raw.base>> : r \in wanted}
  BY <1>1, <1>2
<1>5. Collected.err <=> disksIni = <<>> \/ Conflict \/ \E e \in C : e.invalid
  BY CollectedIs, Results
<1>6. ~Collected.err => Collected.entries = C
  BY CollectedIs
<1> QED
  BY <1>3, <1>4, <1>5, <1>6 DEF NeverPartial

(* The types of what is collected.                                         *)
LEMMA CollectedTyped == FilesInv => InventoryTypeOK
<1> SUFFICES ASSUME FilesInv, NEW e \in Collected.entries
             PROVE  e.id \in ID \ LongID /\ e.device \in Device
  BY DEF FilesInv, InventoryTypeOK
<1>1. PICK r \in Active \cup Usable : Sound(r) /\ e.id = r.id /\ e.device = r.raw.base
  BY CollectedDisk
<1>2. r.raw.base \in Device \cup {NoDevice}
  BY RowTypes
<1> QED
  BY <1>1, <1>2 DEF Sound

(* No disk twice, and never the boot device.                               *)
LEMMA OnceCollected == FilesInv => CollectedOnce
<1> SUFFICES ASSUME FilesInv, NEW e \in Collected.entries, NEW f \in Collected.entries
             PROVE  /\ e.id = f.id => e = f
                    /\ e.name # FlashName
                    /\ \A a \in Active : a.name = FlashName /\ e.source = "unassigned"
                                            => a.raw.base # e.device
  BY DEF CollectedOnce
<1>1. PICK r \in Active \cup Usable :
          /\ Monitored(r) /\ Sound(r)
          /\ \/ r \in Active /\ e = Entry(policies, r, "assigned")
             \/ r \in Usable /\ e = Entry(policies, r, "unassigned")
          /\ e.name = r.name /\ e.id = r.id /\ e.device = r.raw.base
  BY CollectedDisk
<1>2. e.id = f.id => e = f
  <2>1. e.id # NoID
    BY <1>1, NumbersAssumption DEF Sound
  <2>2. /\ e \in Candidates(policies, Active, Usable) /\ f \in Candidates(policies, Active, Usable)
        /\ ~Conflict
    BY CollectedIs
  <2> QED
    BY <2>1, <2>2, CandidatesDiffer
<1>3. e.name # FlashName
  BY <1>1 DEF Monitored
<1>4. ASSUME NEW a \in Active, a.name = FlashName, e.source = "unassigned"
      PROVE  a.raw.base # e.device
  <2>1. r \in Usable
    BY <1>1, <1>4, EntryIs
  <2>2. r.raw.base # NoDevice /\ r \in Visible
    BY <2>1, RowTypes
  <2> QED
    BY <1>1, <1>4, <2>2 DEF Visible
<1> QED
  BY <1>2, <1>3, <1>4

(* The WebUI shows every stable ID once.                                   *)
LEMMA RowPerID == FilesInv => OneRowPerID
<1> SUFFICES ASSUME FilesInv, ~Entries.err,
                    NEW r \in Active \cup {v \in Range(devsIni) :
                        \A a \in Active : a.name = FlashName => a.raw.base # v.raw.base
                                                                 \/ v.raw.base = NoDevice},
                    r.id # NoID
             PROVE  Cardinality({e \in Entries.entries : e.id = r.id}) = 1
  BY DEF OneRowPerID
<1> DEFINE B == EntriesOf(policies, Active, "assigned")
<1>1. ~Fails(disksIni, devsIni)
  BY FilesAre, EntriesRight, Results DEF Entries
<1>2. ~Clash(Active)
  BY <1>1, FilesAre, ReferenceIs
<1>3. PICK K : KeptOK(K, policies, Visible) /\ Entries.entries = B \cup K
  <2>1. Active = ActiveIn(Range(disksIni)) /\ Visible = VisibleIn(Active, Range(devsIni))
    BY ReferenceIs
  <2>2. \E K : /\ KeptOK(K, policies, VisibleIn(ActiveIn(Range(disksIni)), Range(devsIni)))
               /\ ReadEntries(policies, disksIni, devsIni).entries =
                     EntriesOf(policies, ActiveIn(Range(disksIni)), "assigned") \cup K
    BY <1>1, FilesAre, EntriesRight
  <2> QED
    BY <2>1, <2>2 DEF Entries
<1>4. ASSUME NEW e \in B PROVE \E a \in Active : e = Entry(policies, a, "assigned") /\ e.id = a.id
  BY EntryIs DEF EntriesOf
<1>5. ASSUME NEW e \in K PROVE \E v \in Visible : e.id = v.id
  BY <1>3, EntryIs DEF KeptOK
<1>6. \A a \in Active, v \in Visible : a.id = v.id => a.id = NoID
  BY DEF Visible
<1>7. \E e : {x \in Entries.entries : x.id = r.id} = {e}
  <2>1. CASE \E a \in Active : a.id = r.id
    <3>1. PICK a \in Active : a.id = r.id
      BY <2>1
    <3> DEFINE e == Entry(policies, a, "assigned")
    <3>2. e \in B /\ e.id = r.id
      BY <3>1, EntryIs DEF EntriesOf
    <3>3. ASSUME NEW x \in B, x.id = r.id PROVE x = e
      BY <3>1, <3>3, <1>2, <1>4 DEF Clash
    <3>4. ASSUME NEW x \in K PROVE x.id # r.id
      BY <3>1, <1>5, <1>6
    <3> HIDE DEF e, B
    <3>5. {x \in Entries.entries : x.id = r.id} = {e}
      BY <3>2, <3>3, <3>4, <1>3
    <3> QED
      BY <3>5
  <2>2. CASE ~\E a \in Active : a.id = r.id
    <3>1. r \in Visible
      BY <2>2 DEF Visible
    <3>2. PICK e \in K : e.id = r.id
      BY <3>1, <1>3 DEF KeptOK
    <3>3. \A x \in K : x.id = r.id => x = e
      BY <3>2, <1>3 DEF KeptOK
    <3>4. \A x \in B : x.id # r.id
      BY <2>2, <1>4
    <3> HIDE DEF B
    <3>5. {x \in Entries.entries : x.id = r.id} = {e}
      BY <3>2, <3>3, <3>4, <1>3
    <3> QED
      BY <3>5
  <2> QED
    BY <2>1, <2>2
<1> QED
  BY <1>7, FS_Singleton

(* An entry depends on the policy of its own ID only.                      *)
LEMMA SamePolicy ==
    ASSUME NEW p, NEW q, NEW r, NEW source, PolicyOf(p, r.id) = PolicyOf(q, r.id)
    PROVE  Entry(p, r, source) = Entry(q, r, source)
BY DEF Entry, Selected

(* Second part of AllOrNothing: a policy that excludes the blocking disks  *)
(* touches no other candidate, since none has one of their IDs.            *)
LEMMA HealsByExclusion == FilesInv => ExclusionHeals
<1> DEFINE excluded == [i \in ID |-> IF \E e \in Blocking : e.id = i THEN "exclude"
                                     ELSE policies[i]]
           healed == ReadInventory(excluded, disksIni, devsIni)
           C == {e \in Candidates(policies, Active, Usable) : e.selected}
           D == {e \in Candidates(excluded, Active, Usable) : e.selected}
<1> SUFFICES ASSUME FilesInv, ~Entries.err, \A e \in Blocking : e.id \in ID \ LongID
             PROVE  ~healed.err /\ healed.entries = {e \in Entries.entries : Collects(e)} \ Blocking
  BY DEF ExclusionHeals
<1>1. ~Fails(disksIni, devsIni) /\ ~Conflict
  BY FilesAre, EntriesRight, Results DEF Entries
<1>2. {e \in Entries.entries : Collects(e)} = C
  BY <1>1, FilesAre, ChosenRight DEF Entries
<1>3. Blocking = {e \in C : e.invalid}
  BY <1>2 DEF Blocking
<1>4. healed = IF \E e \in D : e.invalid THEN Failure ELSE Success(D)
  <2>1. Chosen(excluded, disksIni, devsIni) = D
    BY FilesAre
  <2> HIDE DEF excluded, D
  <2> QED
    BY <1>1, <2>1, FilesAre, InventoryRight
<1>5. NoID \notin ID
  BY NumbersAssumption
<1>6. ASSUME NEW id \in ID \cup {NoID}, ~\E e \in Blocking : e.id = id
      PROVE  PolicyOf(excluded, id) = PolicyOf(policies, id)
  BY <1>6 DEF PolicyOf
<1>7. ASSUME NEW id \in ID, \E e \in Blocking : e.id = id
      PROVE  PolicyOf(excluded, id) = "exclude"
  BY <1>5, <1>7 DEF PolicyOf
<1> HIDE DEF excluded
<1>8. ASSUME NEW e \in C, e \notin Blocking PROVE e \in D
  <2>1. PICK r \in Active \cup Usable :
            /\ \/ r \in Active /\ e = Entry(policies, r, "assigned")
               \/ r \in Usable /\ e = Entry(policies, r, "unassigned")
            /\ e.id = r.id
    BY CandidateIs
  <2>2. ~\E b \in Blocking : b.id = r.id
    BY <2>1, <1>1, <1>3, <1>5, <1>8, CandidatesDiffer
  <2>3. PolicyOf(excluded, r.id) = PolicyOf(policies, r.id)
    BY <2>2, <1>6, RowTypes
  <2>4. \/ r \in Active /\ e = Entry(excluded, r, "assigned")
        \/ r \in Usable /\ e = Entry(excluded, r, "unassigned")
    BY <2>1, <2>3, SamePolicy
  <2>5. e \in Candidates(excluded, Active, Usable)
    BY <2>4 DEF Candidates, EntriesOf
  <2> QED
    BY <2>5
<1>9. ASSUME NEW e \in D PROVE e \in C /\ e \notin Blocking
  <2>1. PICK r \in Active \cup Usable :
            /\ \/ r \in Active /\ e = Entry(excluded, r, "assigned")
               \/ r \in Usable /\ e = Entry(excluded, r, "unassigned")
            /\ e.id = r.id
            /\ e.selected = Selected(excluded, r.id, r.name, r.raw.base)
    BY CandidateIs
  <2>2. PolicyOf(excluded, r.id) # "exclude"
    BY <2>1 DEF Selected
  <2>3. ~\E b \in Blocking : b.id = r.id
    BY <2>2, <1>7
  <2>4. PolicyOf(excluded, r.id) = PolicyOf(policies, r.id)
    BY <2>3, <1>6, RowTypes
  <2>5. \/ r \in Active /\ e = Entry(policies, r, "assigned")
        \/ r \in Usable /\ e = Entry(policies, r, "unassigned")
    BY <2>1, <2>4, SamePolicy
  <2>6. e \in Candidates(policies, Active, Usable)
    BY <2>5 DEF Candidates, EntriesOf
  <2> QED
    BY <2>1, <2>3, <2>6
<1> HIDE DEF C, D, healed
<1>10. D = C \ Blocking
  BY <1>8, <1>9
<1>11. ~\E e \in D : e.invalid
  BY <1>3, <1>10
<1> QED
  BY <1>2, <1>4, <1>10, <1>11, Results

(* Reordering keeps the rows and their names.                              *)
LEMMA ReorderedIs ==
    ASSUME NEW R, NEW s \in Seq(R), Named(s), NEW p \in Bijection(1..Len(s), 1..Len(s))
    PROVE  LET t == Reordered(s, p)
           IN  t \in Seq(R) /\ Named(t) /\ Len(t) = Len(s) /\ Range(t) = Range(s)
<1> DEFINE N == Len(s)
           t == Reordered(s, p)
<1>1. N \in Nat /\ DOMAIN s = 1..N /\ \A i \in 1..N : s[i] \in R
  OBVIOUS
<1>2. /\ p \in [1..N -> 1..N]
      /\ \A i, j \in 1..N : p[i] = p[j] => i = j
      /\ \A j \in 1..N : \E i \in 1..N : p[i] = j
  BY DEF Bijection, Injection, Surjection, IsInjective
<1>3. t = [i \in 1..N |-> s[p[i]]]
  BY DEF Reordered
<1>4. t \in [1..N -> R]
  BY <1>1, <1>2, <1>3
<1>5. t \in Seq(R) /\ Len(t) = N
  BY <1>1, <1>4
<1>6. Named(t)
  <2> SUFFICES ASSUME NEW i \in 1..N, NEW j \in 1..N, t[i].name = t[j].name PROVE i = j
    BY <1>5 DEF Named
  <2>1. t[i] = s[p[i]] /\ t[j] = s[p[j]] /\ p[i] \in 1..N /\ p[j] \in 1..N
    BY <1>2, <1>3
  <2> QED
    BY <2>1, <1>2 DEF Named
<1>7. Range(t) = Range(s)
  <2>1. \A x \in Range(t) : x \in Range(s)
    BY <1>1, <1>2, <1>3 DEF Range
  <2>2. \A x \in Range(s) : x \in Range(t)
    BY <1>1, <1>2, <1>3 DEF Range
  <2> QED
    BY <2>1, <2>2
<1> QED
  BY <1>5, <1>6, <1>7

(* The order of the rows decides nothing; and no two collected disks tie   *)
(* in the sort, since no two have one ID.                                  *)
LEMMA AnyOrder == FilesInv => OrderIrrelevant
<1> SUFFICES ASSUME FilesInv PROVE OrderIrrelevant
  OBVIOUS
<1>1. ASSUME NEW p \in Orders[Len(disksIni)], NEW q \in Orders[Len(devsIni)]
      PROVE  ReadInventory(policies, Reordered(disksIni, p), Reordered(devsIni, q)) = Collected
  <2> DEFINE a == Reordered(disksIni, p)
             d == Reordered(devsIni, q)
  <2>1. Len(disksIni) \in 0..MaxRows /\ Len(devsIni) \in 0..MaxRows
    BY NumbersAssumption DEF FilesInv
  <2>2. /\ p \in Bijection(1..Len(disksIni), 1..Len(disksIni))
        /\ q \in Bijection(1..Len(devsIni), 1..Len(devsIni))
    BY <2>1 DEF Orders
  <2>3. /\ a \in Seq(AssignedRow) /\ Named(a) /\ Len(a) = Len(disksIni)
        /\ Range(a) = Range(disksIni)
        /\ d \in Seq(UnassignedRow) /\ Named(d) /\ Range(d) = Range(devsIni)
    BY <2>2, FilesAre, ReorderedIs
  <2>4. Fails(a, d) <=> Fails(disksIni, devsIni)
    BY <2>3 DEF Fails
  <2>5. Chosen(policies, a, d) = Chosen(policies, disksIni, devsIni)
    BY <2>3 DEF Chosen
  <2> HIDE DEF a, d
  <2>6. ReadInventory(policies, a, d) = Collected
    BY <2>3, <2>4, <2>5, FilesAre, InventoryRight DEF Collected
  <2> QED
    BY <2>6 DEF a, d
<1>2. ASSUME NEW e \in Collected.entries, NEW f \in Collected.entries
      PROVE  e = f \/ Precedes(e, f) \/ Precedes(f, e)
  <2>1. e.id = f.id => e = f
    BY OnceCollected DEF CollectedOnce
  <2>2. e.name \in Nat /\ e.id \in Nat /\ f.name \in Nat /\ f.id \in Nat
    <3>1. ASSUME NEW g \in Collected.entries PROVE g.name \in Nat /\ g.id \in Nat
      <4>1. PICK r \in Active \cup Usable : g.name = r.name /\ g.id = r.id
        BY CollectedDisk
      <4>2. r.name \in Name /\ r.id \in ID \cup {NoID}
        BY RowTypes
      <4>3. Name \subseteq Nat /\ ID \subseteq Nat
        BY NumbersAssumption
      <4>4. NoID \in Nat
        BY DEF NoID
      <4> QED
        BY <4>1, <4>2, <4>3, <4>4
    <3> QED
      BY <3>1
  <2> QED
    BY <2>1, <2>2 DEF Precedes
<1> QED
  BY <1>1, <1>2 DEF OrderIrrelevant

(* However often disks.ini and devs.ini list a disk, the collector reads   *)
(* it at most once, with a usable ID and device, and the WebUI shows it    *)
(* exactly once: for any rows, any policies and any number of them.        *)
THEOREM OnePerDiskHolds == InventorySpec => []OnePerDisk
<1>1. FilesInv => OnePerDisk
  BY CollectedTyped, OnceCollected, RowPerID DEF OnePerDisk
<1> QED
  BY <1>1, FilesInvariant, PTL

(* An inventory is complete or refused, and excluding its invalid disks is *)
(* enough to bring the others back (readDiskInventory, selectedDisks).     *)
THEOREM AllOrNothingHolds == InventorySpec => []AllOrNothing
<1>1. FilesInv => AllOrNothing
  BY PartialNever, HealsByExclusion DEF AllOrNothing
<1> QED
  BY <1>1, FilesInvariant, PTL

(* What is collected, and in which order, does not depend on the order of  *)
(* the rows in the two files.                                              *)
THEOREM OrderIrrelevantHolds == InventorySpec => []OrderIrrelevant
<1> QED
  BY AnyOrder, FilesInvariant, PTL

=============================================================================
