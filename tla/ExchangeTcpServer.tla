------------------------- MODULE ExchangeTcpServer -------------------------
(***************************************************************************)
(* ExchangeTcpServer and ExchangeOuchHandler (src/exchange/), driven by    *)
(* the loop of src/apps/exchange_runtime.cpp: one thread serves OUCH order *)
(* entry over epoll.  Streams are counted in units: an EnterOrder is       *)
(* FrameSize units and an Accepted is ResponseSize, so that the sockets    *)
(* can split messages.  The peers run concurrently; the first part of the  *)
(* module is what sockets, TLS and epoll let them do.                      *)
(*                                                                         *)
(* epoll is level-triggered: epoll_wait reports the readiness of every     *)
(* descriptor at that moment, and the events are then handled one by one   *)
(* while the peers go on.                                                  *)
(***************************************************************************)
EXTENDS Integers, Sequences, Functions, FiniteSetsExt

CONSTANTS Clients,         \* peers; each connects at most once
          Nobody, Listener,
          FrameSize, ResponseSize,
          SocketRoom,      \* response units the sockets hold for a peer that does not read
          Flights,         \* messages a peer sends in a TLS handshake
          MaxOrders,       \* bound: orders a peer sends ...
          OneOrder         \* ... except these, which send one

ASSUME ServerAssumption ==
    /\ Nobody \notin Clients /\ Listener \notin Clients
    /\ FrameSize \in Nat \ {0} /\ ResponseSize \in Nat \ {0}
    /\ SocketRoom \in Nat \ {0} /\ Flights \in Nat \ {0} /\ MaxOrders \in Nat

VARIABLES up,          \* the server is running
          tls,         \* sslContext_ # nullptr
          clients_,    \* ClientState of each client, with the events epoll watches for
          events,      \* masks of the descriptors still to be handled since epoll_wait
          reading,     \* the client handleClientReadable is looping on
          processed,   \* orders of each client handed to the matching engine
          net          \* the sockets and the peers

vars == <<up, tls, clients_, events, reading, processed, net>>

\* sending is the order that sendBuffer answers, 0 when it is empty.
NewClient == [tlsHandshakeComplete |-> ~tls, receivedBytes |-> 0,
              sending |-> 0, sentBytes |-> 0, interest |-> {"IN"}]

\* conn: "none", "backlog", "open" (an entry of clients_) or "closed"
\* peer: "up", "closed" (it sent FIN) or "reset"
\* written, consumed: units of orders the peer wrote and the server read
\* shaken, shakenSeen: handshake messages the peer sent and SSL_accept read
\* delivered, taken: response units <<order, part>> in the socket, and how many the peer read
NewSocket == [conn |-> "none", peer |-> "up", written |-> 0, consumed |-> 0,
              shaken |-> 0, shakenSeen |-> 0, delivered |-> <<>>, taken |-> 0]

Init ==
    /\ up = TRUE /\ tls \in BOOLEAN
    /\ clients_ = [c \in Clients |-> NewClient]
    /\ events = [c \in {} |-> {}] /\ reading = Nobody
    /\ processed = [c \in Clients |-> 0]
    /\ net = [c \in Clients |-> NewSocket]

-----------------------------------------------------------------------------
(* The environment *)

serverVars == <<up, tls, clients_, events, reading, processed>>

Room(c) == SocketRoom - (Len(net[c].delivered) - net[c].taken)

Readable(c) ==
    net[c].consumed < net[c].written \/ net[c].shakenSeen < net[c].shaken \/ net[c].peer # "up"

Connected(c) == net[c].conn \in {"backlog", "open"} /\ net[c].peer = "up"

connect(c) ==
    /\ up /\ net[c].conn = "none"
    /\ net' = [net EXCEPT ![c].conn = "backlog"]
    /\ UNCHANGED serverVars

shake(c) ==
    /\ Connected(c) /\ tls /\ net[c].shaken < Flights
    /\ net' = [net EXCEPT ![c].shaken = @ + 1]
    /\ UNCHANGED serverVars

write(c) ==
    /\ Connected(c)
    /\ tls => net[c].shaken = Flights
    /\ net[c].written < (IF c \in OneOrder THEN 1 ELSE MaxOrders) * FrameSize
    /\ net' = [net EXCEPT ![c].written = @ + 1]
    /\ UNCHANGED serverVars

take(c) ==
    /\ net[c].peer = "up" /\ net[c].taken < Len(net[c].delivered)
    /\ net' = [net EXCEPT ![c].taken = @ + 1]
    /\ UNCHANGED serverVars

leave(c) ==
    /\ net[c].conn \in {"backlog", "open"} /\ net[c].peer # "reset"
    /\ \E how \in {"closed", "reset"} \ {net[c].peer} : net' = [net EXCEPT ![c].peer = how]
    /\ UNCHANGED serverVars

-----------------------------------------------------------------------------
(* The server: pollOnce *)

Open(c) == net[c].conn = "open"

\* What epoll_wait reports; errors are reported whatever the interest.
Mask(c) ==
    {x \in clients_[c].interest : IF x = "IN" THEN Readable(c) ELSE Room(c) > 0}
        \cup (IF net[c].peer = "reset" THEN {"ERR"} ELSE {})

Waiting == {c \in Clients : net[c].conn = "backlog"}

Idle == up /\ DOMAIN events = {} /\ reading = Nobody

epollWait ==
    LET ready == {c \in Clients : Open(c) /\ Mask(c) # {}}
    IN  /\ Idle
        /\ ready # {} \/ Waiting # {}
        /\ events' = [fd \in ready \cup (IF Waiting # {} THEN {Listener} ELSE {}) |->
                         IF fd = Listener THEN {"IN"} ELSE Mask(fd)]
        /\ UNCHANGED <<up, tls, clients_, reading, processed, net>>

Handled(fd) == events' = Restrict(events, DOMAIN events \ {fd})

\* acceptClients: every waiting connection, until accept4 says EAGAIN.
acceptClients ==
    /\ up /\ reading = Nobody /\ Listener \in DOMAIN events /\ Handled(Listener)
    /\ net' = [c \in Clients |-> IF c \in Waiting THEN [net[c] EXCEPT !.conn = "open"] ELSE net[c]]
    /\ clients_' = [c \in Clients |-> IF c \in Waiting THEN NewClient ELSE clients_[c]]
    /\ UNCHANGED <<up, tls, reading, processed>>

\* stop(): after epoll_wait, accept4 or the set-up of a client failed, pollOnce
\* returns false, the loop ends and every connection is closed.
loopFails ==
    /\ Idle \/ (up /\ reading = Nobody /\ Listener \in DOMAIN events)
    /\ up' = FALSE /\ events' = [c \in {} |-> {}]
    /\ net' = [c \in Clients |->
                  IF net[c].conn \in {"open", "backlog"} THEN [net[c] EXCEPT !.conn = "closed"] ELSE net[c]]
    /\ UNCHANGED <<tls, clients_, reading, processed>>

\* closeClient
Closed(n, c) == [n EXCEPT ![c].conn = "closed"]

\* Variants of flushPendingWrite: a flush starts again from the first byte; epoll
\* is not asked for room.
FlushFrom(done, watching, state, n, c) ==
    LET left == ResponseSize - done
        sent == Min({left, SocketRoom - (Len(n[c].delivered) - n[c].taken)})
    IN  [state |-> IF sent = left
                   THEN [state EXCEPT !.sending = 0, !.sentBytes = 0, !.interest = {"IN"}]
                   ELSE [state EXCEPT !.sentBytes = done + sent, !.interest = watching],
         net |-> [n EXCEPT ![c].delivered = @ \o [i \in 1 .. sent |-> <<state.sending, done + i>>]]]

flushPendingWrite_restarts(state, n, c) == FlushFrom(0, {"IN", "OUT"}, state, n, c)
flushPendingWrite_unwatched(state, n, c) == FlushFrom(state.sentBytes, {"IN"}, state, n, c)

\* flushPendingWrite: hands the socket what it has room for; the answer is
\* finished, or epoll is asked to report room.  SSL_write keeps its place in the
\* record itself and returns nothing until all of it is out.
flushPendingWrite(state, n, c) ==
    LET done == IF tls THEN Len(n[c].delivered) % ResponseSize ELSE state.sentBytes
        left == ResponseSize - done
        room == SocketRoom - (Len(n[c].delivered) - n[c].taken)
        sent == Min({left, room})
        parts == [i \in 1 .. sent |-> <<state.sending, done + i>>]
    IN  [state |-> IF sent = left
                   THEN [state EXCEPT !.sending = 0, !.sentBytes = 0, !.interest = {"IN"}]
                   ELSE [state EXCEPT !.sentBytes = IF tls THEN @ ELSE @ + sent,
                                      !.interest = {"IN", "OUT"}],
         net |-> [n EXCEPT ![c].delivered = @ \o parts]]

OnEvent(c) == up /\ reading = Nobody /\ c \in DOMAIN events /\ Handled(c)

\* EPOLLERR or EPOLLHUP: the client is closed, with what it sent unread.
clientError(c) ==
    /\ OnEvent(c) /\ "ERR" \in events[c]
    /\ net' = Closed(net, c)
    /\ UNCHANGED <<up, tls, clients_, reading, processed>>

\* SSL_accept reads what has arrived: the handshake is complete, wants more or
\* has to wait for room, or fails.
progressTlsHandshake(c) ==
    /\ OnEvent(c) /\ "ERR" \notin events[c] /\ ~clients_[c].tlsHandshakeComplete
    /\ \/ net' = Closed(net, c) /\ UNCHANGED clients_
       \/ /\ net[c].shaken = Flights /\ net[c].peer # "reset"
          /\ net' = [net EXCEPT ![c].shakenSeen = Flights]
          /\ clients_' = [clients_ EXCEPT ![c].tlsHandshakeComplete = TRUE, ![c].interest = {"IN"}]
       \/ /\ net[c].peer = "up"
          /\ net' = [net EXCEPT ![c].shakenSeen = net[c].shaken]
          /\ \/ /\ net[c].shaken < Flights
                /\ clients_' = [clients_ EXCEPT ![c].interest = {"IN"}]
             \/ /\ "OUT" \notin events[c]
                /\ clients_' = [clients_ EXCEPT ![c].interest = {"IN", "OUT"}]
    /\ UNCHANGED <<up, tls, reading, processed>>

\* EPOLLOUT flushes, EPOLLIN then reads; a failing flush closes the client.
clientReady(c) ==
    LET pending == "OUT" \in events[c] /\ clients_[c].sending # 0
        flushed == flushPendingWrite(clients_[c], net, c)
    IN  /\ OnEvent(c) /\ "ERR" \notin events[c] /\ clients_[c].tlsHandshakeComplete
        /\ \/ pending /\ net' = Closed(net, c) /\ UNCHANGED <<clients_, reading>>
           \/ /\ pending => net[c].peer # "reset"
              /\ net' = IF pending THEN flushed.net ELSE net
              /\ clients_' = IF pending THEN [clients_ EXCEPT ![c] = flushed.state] ELSE clients_
              /\ reading' = IF "IN" \in events[c] THEN c ELSE Nobody
        /\ UNCHANGED <<up, tls, processed>>

-----------------------------------------------------------------------------
(* handleClientReadable: one turn of its loop *)

Reading(c) == up /\ reading = c

\* Variant: receivedBytes is not advanced.
receivePart_uncounted(c, n) ==
    /\ Reading(c) /\ net[c].peer # "reset"
    /\ n <= net[c].written - net[c].consumed
    /\ n < FrameSize - clients_[c].receivedBytes
    /\ net' = [net EXCEPT ![c].consumed = @ + n]
    /\ UNCHANGED <<up, tls, clients_, events, reading, processed>>

\* recv or SSL_read returns part of an order.
receivePart(c, n) ==
    /\ Reading(c) /\ net[c].peer # "reset"
    /\ n <= net[c].written - net[c].consumed
    /\ n < FrameSize - clients_[c].receivedBytes
    /\ clients_' = [clients_ EXCEPT ![c].receivedBytes = @ + n]
    /\ net' = [net EXCEPT ![c].consumed = @ + n]
    /\ UNCHANGED <<up, tls, events, reading, processed>>

\* Variant: an answer that is pending is replaced.
sendAllAccepts_always(c) == TRUE

\* sendAll refuses while an earlier answer is pending.
sendAllAccepts(c) == clients_[c].sending = 0

\* handleEnterOrder when it returns an answer: prepareOrder, registerOrder and
\* process have run.
handleEnterOrder(c) == [processed EXCEPT ![c] = @ + 1]

\* It returns the rest of an order.  handleEnterOrder returns nothing (it cannot
\* be decoded, or no order is left in the pool) or processes the order.  Then
\* sendAll fails, as it always does while an earlier answer is pending, or takes
\* the answer.  A failure closes the client.
receiveOrder(c) ==
    LET n == FrameSize - clients_[c].receivedBytes
        read == [net EXCEPT ![c].consumed = @ + n]
        answer == [clients_[c] EXCEPT !.sending = processed[c] + 1, !.sentBytes = 0]
        flushed == flushPendingWrite(answer, read, c)
    IN  /\ Reading(c) /\ net[c].peer # "reset"
        /\ n <= net[c].written - net[c].consumed
        /\ \/ /\ reading' = Nobody /\ net' = Closed(read, c)
              /\ processed' \in {processed, handleEnterOrder(c)}
              /\ UNCHANGED clients_
           \/ /\ sendAllAccepts(c)
              /\ processed' = handleEnterOrder(c)
              /\ clients_' = [clients_ EXCEPT ![c] = [flushed.state EXCEPT !.receivedBytes = 0]]
              /\ net' = flushed.net
              /\ UNCHANGED reading
        /\ UNCHANGED <<up, tls, events>>

\* Variant: the interest is set to what is pending, without EPOLLIN.
wouldBlock_deaf(c) ==
    /\ Reading(c) /\ net[c].consumed = net[c].written /\ net[c].peer = "up"
    /\ clients_' = [clients_ EXCEPT ![c].interest = IF clients_[c].sending = 0 THEN {} ELSE {"OUT"}]
    /\ reading' = Nobody
    /\ UNCHANGED <<up, tls, events, processed, net>>

\* Nothing more to read: under TLS the interest is set again, and SSL_read may
\* also be waiting for room.
wouldBlock(c) ==
    LET pending == IF clients_[c].sending = 0 THEN {} ELSE {"OUT"}
    IN  /\ Reading(c) /\ net[c].consumed = net[c].written /\ net[c].peer = "up"
        /\ IF tls
           THEN \E more \in {pending, {"OUT"}} :
                    clients_' = [clients_ EXCEPT ![c].interest = {"IN"} \cup more]
           ELSE UNCHANGED clients_
        /\ reading' = Nobody
        /\ UNCHANGED <<up, tls, events, processed, net>>

\* The peer has closed, or the read fails.
readEnds(c) ==
    /\ Reading(c)
    /\ net[c].peer = "reset" \/ (net[c].peer = "closed" /\ net[c].consumed = net[c].written)
    /\ net' = Closed(net, c) /\ reading' = Nobody
    /\ UNCHANGED <<up, tls, clients_, events, processed>>

ServeClient(c) ==
    \/ clientError(c) \/ progressTlsHandshake(c) \/ clientReady(c)
    \/ (\E n \in 1 .. FrameSize : receivePart(c, n)) \/ receiveOrder(c)
    \/ wouldBlock(c) \/ readEnds(c)

Server == epollWait \/ acceptClients \/ \E c \in Clients : ServeClient(c)

Peer(c) == connect(c) \/ shake(c) \/ write(c) \/ take(c) \/ leave(c)

Next == Server \/ loopFails \/ \E c \in Clients : Peer(c)

\* The loop runs, and a peer reads what it is sent.
Spec ==
    /\ Init /\ [][Next]_vars
    /\ WF_vars(Server)
    /\ \A c \in Clients : WF_vars(take(c))

-----------------------------------------------------------------------------
(* Properties *)

\* However recv splits the stream, the bytes in receiveBuffer are the start of
\* the one order that follows those processed: none is skipped, repeated or
\* decoded from the middle.
FramesAligned ==
    \A c \in Clients : Open(c) =>
        net[c].consumed = processed[c] * FrameSize + clients_[c].receivedBytes

\* The responses a client is sent are whole Accepted messages in the order of
\* its orders: a flush that was cut short is continued where it stopped.
ResponsesInOrder ==
    \A c \in Clients : \A i \in 1 .. Len(net[c].delivered) :
        net[c].delivered[i] = <<((i - 1) \div ResponseSize) + 1, ((i - 1) % ResponseSize) + 1>>

\* While a client is connected every processed order is answered, the last one
\* perhaps still in sendBuffer.  When the server closes it, at most two are not.
AnswersAccounted ==
    \A c \in Clients :
        LET missing == processed[c] - (Len(net[c].delivered) \div ResponseSize)
        IN  IF Open(c) THEN missing = (IF clients_[c].sending = 0 THEN 0 ELSE 1) ELSE missing <= 2

\* A pending answer is never forgotten: epoll watches for room whenever
\* sendBuffer is not empty.
PendingIsWatched ==
    \A c \in Clients : Open(c) /\ clients_[c].sending # 0 => "OUT" \in clients_[c].interest

\* An order that a peer has written completely is processed and its answer
\* written completely, unless the connection ends first: no partial read or
\* write, and no other client, makes the server forget it.
OrdersAreAnswered ==
    \A c \in Clients : \A n \in 1 .. MaxOrders :
        (Open(c) /\ clients_[c].tlsHandshakeComplete /\ net[c].written >= n * FrameSize)
            ~> (Len(net[c].delivered) >= n * ResponseSize \/ ~Open(c))
=============================================================================
