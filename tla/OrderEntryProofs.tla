-------------------------- MODULE OrderEntryProofs --------------------------
(***************************************************************************)
(* ExchangeTcpServer, for every set of clients, every size of an order and *)
(* of a response, every amount of room in the sockets, with TLS and        *)
(* without, and for any number of orders: the exchange server keeps its    *)
(* place in the stream of each client in both directions.                  *)
(*                                                                         *)
(* OrderEntry, for every risk limit too: the position that RiskManager     *)
(* checks against covers what the exchange has processed.                  *)
(***************************************************************************)
EXTENDS OrderEntry, WellFoundedInduction, TLAPS

-----------------------------------------------------------------------------
(* ExchangeTcpServer: the inductive invariant *)

ClientState == [tlsHandshakeComplete : BOOLEAN, receivedBytes : Nat, sending : Nat,
                sentBytes : Nat, interest : SUBSET {"IN", "OUT"}]

Socket == [conn : {"none", "backlog", "open", "closed"}, peer : {"up", "closed", "reset"},
           written : Nat, consumed : Nat, shaken : Nat, shakenSeen : Nat,
           delivered : Seq(Nat \X Nat), taken : Nat]

TypeOK ==
    /\ up \in BOOLEAN /\ tls \in BOOLEAN
    /\ clients_ \in [Clients -> ClientState]
    /\ processed \in [Clients -> Nat]
    /\ net \in [Clients -> Socket]

\* Part number i of the responses, counted over all of them.
Part(i) == <<((i - 1) \div ResponseSize) + 1, ((i - 1) % ResponseSize) + 1>>

\* What the socket holds: orders read that were written, responses in order and
\* no more of them than it has room for.
StreamsSound(n, p) ==
    /\ n.consumed <= n.written
    /\ p * FrameSize <= n.consumed
    /\ n.taken <= Len(n.delivered) /\ Len(n.delivered) - n.taken <= SocketRoom
    /\ \A i \in 1 .. Len(n.delivered) : n.delivered[i] = Part(i)

\* With p orders processed, over TLS or not (t): all of them are answered, or the last one is in
\* sendBuffer and done of its parts are out.
Answered(s, n, p, t) ==
    IF s.sending = 0 THEN Len(n.delivered) = p * ResponseSize
    ELSE /\ s.sending = p
         /\ \E done \in 0 .. ResponseSize - 1 :
               Len(n.delivered) = (p - 1) * ResponseSize + done /\ (~t => s.sentBytes = done)

\* What ties a client's buffers to its socket, depending on the connection.
ClientSound(s, n, p, t) ==
    /\ StreamsSound(n, p)
    /\ n.conn \in {"none", "backlog"} => n.consumed = 0 /\ p = 0 /\ n.delivered = <<>>
    /\ n.conn = "open" =>
          /\ n.consumed = p * FrameSize + s.receivedBytes /\ s.receivedBytes < FrameSize
          /\ Answered(s, n, p, t)
          /\ s.sending # 0 => "OUT" \in s.interest /\ s.tlsHandshakeComplete
    /\ n.conn = "closed" => p <= (Len(n.delivered) \div ResponseSize) + 2

\* An event that is still to be handled, and the loop that reads, are of a client
\* that is connected.
EventsSound ==
    \A c \in Clients :
        /\ c \in DOMAIN events => Open(c)
        /\ reading = c => Open(c) /\ c \notin DOMAIN events /\ clients_[c].tlsHandshakeComplete

ServerInv ==
    /\ TypeOK /\ EventsSound
    /\ \A c \in Clients : ClientSound(clients_[c], net[c], processed[c], tls)

-----------------------------------------------------------------------------
(* ExchangeTcpServer: numbers *)

\* Division with remainder.
LEMMA DivMod ==
    ASSUME NEW C \in Nat, C > 0, NEW a \in Nat
    PROVE  /\ a % C \in 0 .. C - 1
           /\ a \div C \in Nat
           /\ a = C * (a \div C) + (a % C)
BY Z3

\* A product grows by at least one factor with the other.
LEMMA Multiples ==
    ASSUME NEW C \in Nat, NEW a \in Nat, NEW b \in Nat, a < b
    PROVE  a * C + C <= b * C
<1>1. b * C = a * C + C + (b - a - 1) * C
  OBVIOUS
<1>2. (b - a - 1) * C >= 0
  OBVIOUS
<1>3. a * C \in Int /\ b * C \in Int /\ (b - a - 1) * C \in Int
  OBVIOUS
<1> QED BY <1>1, <1>2, <1>3

\* Quotient and remainder are unique.
LEMMA Quotient ==
    ASSUME NEW C \in Nat, C > 0, NEW q \in Nat, NEW r \in 0 .. C - 1
    PROVE  (q * C + r) \div C = q /\ (q * C + r) % C = r
<1> DEFINE a == q * C + r
<1>1. a \in Nat
  OBVIOUS
<1> HIDE DEF a
<1>2. PICK u \in Nat, v \in 0 .. C - 1 : u = a \div C /\ v = a % C /\ a = C * u + v
  BY <1>1, DivMod
<1>3. u * C = C * u /\ q * C \in Nat /\ u * C \in Nat
  BY <1>2
<1>4. q * C + r = u * C + v
  BY <1>2, <1>3 DEF a
<1>5. CASE q < u
  <2>1. q * C + C <= u * C
    BY <1>5, Multiples
  <2> QED BY <2>1, <1>3, <1>4
<1>6. CASE u < q
  <2>1. u * C + C <= q * C
    BY <1>6, Multiples
  <2> QED BY <2>1, <1>3, <1>4
<1>7. CASE u = q
  BY <1>2, <1>3, <1>4, <1>7 DEF a
<1> QED
  BY <1>5, <1>6, <1>7

\* Min of two numbers.
LEMMA MinOfTwo ==
    ASSUME NEW a \in Int, NEW b \in Int
    PROVE  Min({a, b}) \in {a, b} /\ Min({a, b}) <= a /\ Min({a, b}) <= b
<1>1. \E x \in {a, b} : \A y \in {a, b} : x <= y
  <2>1. CASE a <= b
    BY <2>1
  <2>2. CASE b <= a
    BY <2>2
  <2> QED BY <2>1, <2>2
<1> QED
  BY <1>1 DEF Min

\* The parts of response q come after those of the q - 1 before it.
LEMMA PartOfResponse ==
    ASSUME NEW q \in Nat \ {0}, NEW d \in 1 .. ResponseSize
    PROVE  Part((q - 1) * ResponseSize + d) = <<q, d>>
<1> DEFINE i == (q - 1) * ResponseSize + d
<1>1. ResponseSize \in Nat /\ ResponseSize > 0 /\ q - 1 \in Nat /\ d - 1 \in 0 .. ResponseSize - 1
  BY ServerAssumption
<1>2. i - 1 = (q - 1) * ResponseSize + (d - 1)
  BY <1>1
<1>3. /\ ((q - 1) * ResponseSize + (d - 1)) \div ResponseSize = q - 1
      /\ ((q - 1) * ResponseSize + (d - 1)) % ResponseSize = d - 1
  BY <1>1, Quotient
<1> QED
  BY <1>1, <1>2, <1>3 DEF Part

-----------------------------------------------------------------------------
(* ExchangeTcpServer: flushPendingWrite *)

\* The elements that a concatenation adds.
LEMMA AppendedElement ==
    ASSUME NEW S, NEW old \in Seq(S), NEW added \in Seq(S), NEW j \in 1 .. Len(added)
    PROVE  (old \o added)[Len(old) + j] = added[j]
OBVIOUS

\* What a socket has delivered grows by the next parts of response q.
LEMMA DeliverParts ==
    ASSUME NEW old \in Seq(Nat \X Nat), NEW q \in Nat \ {0}, NEW done \in 0 .. ResponseSize - 1,
           NEW gone \in 0 .. ResponseSize - done,
           Len(old) = (q - 1) * ResponseSize + done,
           \A i \in 1 .. Len(old) : old[i] = Part(i)
    PROVE  LET new == old \o [i \in 1 .. gone |-> <<q, done + i>>]
           IN  /\ new \in Seq(Nat \X Nat)
               /\ Len(new) = (q - 1) * ResponseSize + done + gone
               /\ \A i \in 1 .. Len(new) : new[i] = Part(i)
<1> DEFINE parts == [i \in 1 .. gone |-> <<q, done + i>>]
           new == old \o parts
<1>0. ResponseSize \in Nat /\ (q - 1) * ResponseSize \in Nat
  BY ServerAssumption
<1>1. parts \in Seq(Nat \X Nat) /\ Len(parts) = gone
  BY <1>0
<1>2. new \in Seq(Nat \X Nat)
  BY <1>1
<1>3. Len(new) = Len(old) + gone
  <2> HIDE DEF parts
  <2> QED BY <1>1
<1>4. ASSUME NEW i \in 1 .. Len(new) PROVE new[i] = Part(i)
  <2>1. CASE i <= Len(old)
    <3>1. new[i] = old[i] /\ i \in 1 .. Len(old)
      BY <2>1, <1>1, <1>3
    <3> QED BY <3>1
  <2>2. CASE i > Len(old)
    <3>1. PICK j \in 1 .. gone : i = Len(old) + j
      <4>1. i - Len(old) \in 1 .. gone /\ i = Len(old) + (i - Len(old))
        BY <2>2, <1>3
      <4> QED BY <4>1
    <3>2. new[i] = <<q, done + j>>
      <4>1. parts[j] = <<q, done + j>>
        OBVIOUS
      <4> HIDE DEF parts
      <4>2. (old \o parts)[Len(old) + j] = parts[j]
        BY <1>1, AppendedElement
      <4> QED BY <4>1, <4>2, <3>1
    <3>3. i = (q - 1) * ResponseSize + (done + j) /\ done + j \in 1 .. ResponseSize
      BY <3>1, <1>0
    <3> QED BY <3>2, <3>3, PartOfResponse, Zenon
  <2> QED BY <2>1, <2>2, <1>3
<1> HIDE DEF new, parts
<1>5. Len(new) = (q - 1) * ResponseSize + done + gone
  BY <1>3, <1>0
<1> QED
  BY <1>2, <1>4, <1>5, Zenon DEF new, parts

\* The result r of flushing what a client s has pending for order q to socket c of n.
Flushed(r, s, n, c, q, t) ==
    /\ r.state \in ClientState
    /\ r.state.receivedBytes = s.receivedBytes
    /\ r.state.tlsHandshakeComplete = s.tlsHandshakeComplete
    /\ r.state.sending # 0 => "OUT" \in r.state.interest
    /\ \E d \in Seq(Nat \X Nat) :
          /\ r.net = [n EXCEPT ![c].delivered = d]
          /\ Answered(r.state, [n[c] EXCEPT !.delivered = d], q, t)
          /\ StreamsSound([n[c] EXCEPT !.delivered = d], q)

\* A flush of the answer to order q continues where the last one stopped: it
\* delivers the next parts, and either finishes or has epoll watch for room.
LEMMA FlushSound ==
    ASSUME NEW s \in ClientState, NEW n \in [Clients -> Socket], NEW c \in Clients,
           NEW q \in Nat \ {0}, s.sending = q, tls \in BOOLEAN,
           Answered(s, n[c], q, tls), StreamsSound(n[c], q)
    PROVE  Flushed(flushPendingWrite(s, n, c), s, n, c, q, tls)
<1>0. /\ ResponseSize \in Nat \ {0} /\ (q - 1) * ResponseSize \in Nat /\ q - 1 \in Nat
      /\ SocketRoom \in Nat
  BY ServerAssumption
<1>1. PICK done \in 0 .. ResponseSize - 1 :
          Len(n[c].delivered) = (q - 1) * ResponseSize + done /\ (~tls => s.sentBytes = done)
  BY DEF Answered
<1>2. n[c] \in Socket /\ n[c].delivered \in Seq(Nat \X Nat) /\ n[c].taken \in Nat
  BY DEF Socket
<1>3. done = IF tls THEN Len(n[c].delivered) % ResponseSize ELSE s.sentBytes
  <2>1. \A k \in Nat : (k * ResponseSize + done) % ResponseSize = done
    BY <1>0, <1>1, Quotient
  <2>2. ((q - 1) * ResponseSize + done) % ResponseSize = done
    BY <1>0, <2>1
  <2> QED BY <1>1, <2>2
<1> DEFINE left == ResponseSize - done
           room == SocketRoom - (Len(n[c].delivered) - n[c].taken)
           gone == Min({left, room})
           parts == [i \in 1 .. gone |-> <<s.sending, done + i>>]
           d == n[c].delivered \o parts
           r == flushPendingWrite(s, n, c)
<1>4. r.net = [n EXCEPT ![c].delivered = d]
  BY <1>3, Zenon DEF flushPendingWrite
<1>5. r.state = IF gone = left
                THEN [s EXCEPT !.sending = 0, !.sentBytes = 0, !.interest = {"IN"}]
                ELSE [s EXCEPT !.sentBytes = IF tls THEN @ ELSE @ + gone,
                               !.interest = {"IN", "OUT"}]
  BY <1>3, Zenon DEF flushPendingWrite
<1> HIDE DEF r
<1>6. left \in Nat /\ left > 0 /\ room \in Nat
  BY <1>0, <1>1, <1>2 DEF StreamsSound
<1>7. gone \in 0 .. ResponseSize - done /\ gone <= left /\ gone <= room
  <2>1. PICK l \in Nat, m \in Nat : l = left /\ m = room
    BY <1>6
  <2>2. gone = Min({l, m})
    BY <2>1
  <2> HIDE DEF gone
  <2>3. Min({l, m}) \in {l, m} /\ Min({l, m}) <= l /\ Min({l, m}) <= m
    <3>1. l \in Int /\ m \in Int
      BY <2>1
    <3> QED BY ONLY <3>1, MinOfTwo, Zenon
  <2> HIDE DEF left, room
  <2>4. gone \in Nat /\ gone <= left /\ gone <= room
    BY <2>1, <2>2, <2>3
  <2> QED BY <1>6, <2>4 DEF left
<1> HIDE DEF gone, left, room
<1>8. /\ d \in Seq(Nat \X Nat)
      /\ Len(d) = (q - 1) * ResponseSize + done + gone
      /\ \A i \in 1 .. Len(d) : d[i] = Part(i)
  <2>1. \A i \in 1 .. Len(n[c].delivered) : n[c].delivered[i] = Part(i)
    BY DEF StreamsSound
  <2>2. PICK old \in Seq(Nat \X Nat), k \in 0 .. ResponseSize - done : old = n[c].delivered /\ k = gone
    BY <1>2, <1>7
  <2>3. d = old \o [i \in 1 .. k |-> <<q, done + i>>]
    BY <2>2
  <2> HIDE DEF d
  <2>4. LET new == old \o [i \in 1 .. k |-> <<q, done + i>>]
        IN  /\ new \in Seq(Nat \X Nat)
            /\ Len(new) = (q - 1) * ResponseSize + done + k
            /\ \A i \in 1 .. Len(new) : new[i] = Part(i)
    <3>1. Len(old) = (q - 1) * ResponseSize + done /\ \A i \in 1 .. Len(old) : old[i] = Part(i)
      BY <1>1, <2>1, <2>2
    <3>2. /\ old \in Seq(Nat \X Nat) /\ q \in Nat \ {0} /\ done \in 0 .. ResponseSize - 1
          /\ k \in 0 .. ResponseSize - done
      BY <1>1, <2>2
    <3> QED BY ONLY <3>1, <3>2, DeliverParts, Zenon
  <2> QED BY <2>2, <2>3, <2>4
<1> HIDE DEF d, parts
<1>s. PICK st : st = r.state
  OBVIOUS
<1>9. StreamsSound([n[c] EXCEPT !.delivered = d], q)
  <2>1. n[c].taken <= Len(d) /\ Len(d) - n[c].taken <= SocketRoom
    BY <1>0, <1>1, <1>2, <1>7, <1>8 DEF StreamsSound, room
  <2> QED BY <1>2, <1>8, <2>1 DEF StreamsSound, Socket
<1>10. CASE gone = left
  <2>1. st = [s EXCEPT !.sending = 0, !.sentBytes = 0, !.interest = {"IN"}]
    BY <1>5, <1>10, <1>s
  <2>2. Len(d) = q * ResponseSize
    BY <1>0, <1>1, <1>8, <1>10 DEF left
  <2>3. st \in ClientState /\ st.sending = 0
    BY <2>1, Zenon DEF ClientState
  <2>4. st.receivedBytes = s.receivedBytes /\ st.tlsHandshakeComplete = s.tlsHandshakeComplete
    BY <2>1 DEF ClientState
  <2>5. Answered(st, [n[c] EXCEPT !.delivered = d], q, tls)
    BY <1>2, <2>2, <2>3 DEF Answered, Socket
  <2> QED BY <1>4, <1>8, <1>9, <2>3, <2>4, <2>5, <1>s, Zenon DEF r, Flushed
<1>11. CASE gone # left
  <2>1. st = [s EXCEPT !.sentBytes = IF tls THEN @ ELSE @ + gone, !.interest = {"IN", "OUT"}]
    BY <1>5, <1>11, <1>s
  <2>a. PICK out \in Nat : out = IF tls THEN s.sentBytes ELSE s.sentBytes + gone
    BY <1>7 DEF ClientState
  <2>b. st = [s EXCEPT !.sentBytes = out, !.interest = {"IN", "OUT"}]
    BY <2>1, <2>a
  <2>2. st \in ClientState /\ st.sending = q /\ "OUT" \in st.interest /\ st.sentBytes = out
    BY <2>b, Zenon DEF ClientState
  <2>3. st.receivedBytes = s.receivedBytes /\ st.tlsHandshakeComplete = s.tlsHandshakeComplete
    BY <2>b DEF ClientState
  <2>4. done + gone \in 0 .. ResponseSize - 1
    BY <1>0, <1>1, <1>7, <1>11 DEF left
  <2>5. Answered(st, [n[c] EXCEPT !.delivered = d], q, tls)
    <3>1. Len(d) = (q - 1) * ResponseSize + (done + gone)
      BY <1>0, <1>1, <1>7, <1>8
    <3>2. ~tls => st.sentBytes = done + gone
      BY <1>1, <2>a, <2>2
    <3>3. [n[c] EXCEPT !.delivered = d].delivered = d
      BY <1>2 DEF Socket
    <3> QED BY <2>2, <2>4, <3>1, <3>2, <3>3 DEF Answered
  <2> QED BY <1>4, <1>8, <1>9, <2>2, <2>3, <2>5, <1>s, Zenon DEF r, Flushed
<1> QED
  BY <1>10, <1>11

-----------------------------------------------------------------------------
(* ExchangeTcpServer: steps of one client *)

\* A step that leaves every other client alone keeps the invariant if what it
\* does to its own client is sound.
LEMMA OneClient ==
    ASSUME ServerInv, NEW c \in Clients, NEW s \in ClientState, NEW n \in Socket, NEW p \in Nat,
           ClientSound(s, n, p, tls),
           clients_' = [clients_ EXCEPT ![c] = s], net' = [net EXCEPT ![c] = n],
           processed' = [processed EXCEPT ![c] = p], up' \in BOOLEAN, tls' = tls,
           DOMAIN events' \subseteq DOMAIN events, reading' \in {c, Nobody},
           c \in DOMAIN events' => n.conn = "open",
           reading' = c => n.conn = "open" /\ c \notin DOMAIN events' /\ s.tlsHandshakeComplete
    PROVE  ServerInv'
<1> USE DEF ServerInv
<1>1. TypeOK'
  BY DEF TypeOK
<1>2. clients_'[c] = s /\ net'[c] = n /\ processed'[c] = p
  BY DEF TypeOK
<1>3. \A e \in Clients \ {c} :
          clients_'[e] = clients_[e] /\ net'[e] = net[e] /\ processed'[e] = processed[e]
  BY DEF TypeOK
<1>4. EventsSound'
  <2> SUFFICES ASSUME NEW e \in Clients
               PROVE  /\ e \in DOMAIN events' => net'[e].conn = "open"
                      /\ reading' = e => /\ net'[e].conn = "open" /\ e \notin DOMAIN events'
                                         /\ clients_'[e].tlsHandshakeComplete
    BY DEF EventsSound, Open
  <2>1. CASE e = c
    BY <2>1, <1>2
  <2>2. CASE e # c
    BY <2>2, <1>3, ServerAssumption DEF EventsSound, Open
  <2> QED BY <2>1, <2>2
<1>5. \A e \in Clients : ClientSound(clients_'[e], net'[e], processed'[e], tls')
  BY <1>2, <1>3
<1> QED
  BY <1>1, <1>4, <1>5

\* What the peers do to a socket: they connect, send, read responses, or end.
PeerMoves(n, m) ==
    /\ m \in Socket
    /\ m.conn = n.conn \/ (n.conn = "none" /\ m.conn = "backlog")
    /\ m.consumed = n.consumed /\ m.delivered = n.delivered
    /\ m.written >= n.written
    /\ m.taken >= n.taken /\ m.taken <= Len(m.delivered)

\* That disturbs nothing the server relies on.
LEMMA PeerMove ==
    ASSUME ServerInv, NEW c \in Clients, NEW n, PeerMoves(net[c], n),
           net' = [net EXCEPT ![c] = n], UNCHANGED serverVars
    PROVE  ServerInv'
<1> USE DEF ServerInv, serverVars, PeerMoves
<1>1. TypeOK'
  BY DEF TypeOK
<1>2. net'[c] = n /\ \A e \in Clients \ {c} : net'[e] = net[e]
  BY DEF TypeOK
<1>3. EventsSound'
  BY <1>2 DEF EventsSound, Open
<1>4. net[c] \in Socket /\ ClientSound(clients_[c], net[c], processed[c], tls) /\ processed[c] \in Nat
  BY DEF TypeOK
<1>5. ClientSound(clients_[c], n, processed[c], tls)
  <2>1. StreamsSound(n, processed[c])
    <3>1. n.consumed <= n.written /\ n.taken <= Len(n.delivered)
      BY <1>4 DEF ClientSound, StreamsSound, Socket
    <3>2. Len(n.delivered) - n.taken <= SocketRoom
      <4>1. Len(net[c].delivered) - net[c].taken <= SocketRoom
        BY <1>4 DEF ClientSound, StreamsSound
      <4>2. n.taken \in Nat /\ net[c].taken \in Nat
        BY <1>4 DEF Socket
      <4>3. Len(n.delivered) \in Nat
        BY DEF Socket
      <4>4. SocketRoom \in Nat /\ n.delivered = net[c].delivered /\ n.taken >= net[c].taken
        BY ServerAssumption
      <4> QED BY ONLY <4>1, <4>2, <4>3, <4>4
    <3> QED BY <1>4, <3>1, <3>2 DEF ClientSound, StreamsSound
  <2>2. Answered(clients_[c], n, processed[c], tls) = Answered(clients_[c], net[c], processed[c], tls)
    BY DEF Answered
  <2> HIDE DEF ServerInv
  <2> QED BY <1>4, <2>1, <2>2 DEF ClientSound
<1>6. \A e \in Clients : ClientSound(clients_'[e], net'[e], processed'[e], tls')
  BY <1>2, <1>5
<1> QED
  BY <1>1, <1>3, <1>6

\* Every action of a peer is such a move.
LEMMA PeerUpdates ==
    ASSUME NEW n \in Socket, n.taken <= Len(n.delivered)
    PROVE  /\ n.conn = "none" => PeerMoves(n, [n EXCEPT !.conn = "backlog"])
           /\ \A k \in Nat : PeerMoves(n, [n EXCEPT !.shaken = k])
           /\ \A k \in Nat : k >= n.written => PeerMoves(n, [n EXCEPT !.written = k])
           /\ \A k \in Nat : k >= n.taken /\ k <= Len(n.delivered) => PeerMoves(n, [n EXCEPT !.taken = k])
           /\ \A how \in {"closed", "reset"} : PeerMoves(n, [n EXCEPT !.peer = how])
<1>0. n.written \in Nat /\ n.taken \in Nat
  BY DEF Socket
<1>1. ASSUME n.conn = "none" PROVE PeerMoves(n, [n EXCEPT !.conn = "backlog"])
  <2>1. PICK m : m = [n EXCEPT !.conn = "backlog"]
    BY Zenon
  <2>2. m \in Socket
    BY <2>1 DEF Socket
  <2>3. /\ m.conn = "backlog" /\ m.consumed = n.consumed /\ m.delivered = n.delivered
        /\ m.written = n.written /\ m.taken = n.taken
    BY <2>1 DEF Socket
  <2> QED BY <2>1, <2>2, <2>3, <1>0, <1>1 DEF PeerMoves
<1>2. ASSUME NEW k \in Nat PROVE PeerMoves(n, [n EXCEPT !.shaken = k])
  <2>1. PICK m : m = [n EXCEPT !.shaken = k]
    BY Zenon
  <2>2. m \in Socket
    BY <2>1, Zenon DEF Socket
  <2>3. /\ m.conn = n.conn /\ m.consumed = n.consumed /\ m.delivered = n.delivered
        /\ m.written = n.written /\ m.taken = n.taken
    BY <2>1 DEF Socket
  <2> QED BY <2>1, <2>2, <2>3, <1>0 DEF PeerMoves
<1>3. ASSUME NEW k \in Nat, k >= n.written PROVE PeerMoves(n, [n EXCEPT !.written = k])
  <2>1. PICK m : m = [n EXCEPT !.written = k]
    BY Zenon
  <2>2. m \in Socket
    BY <2>1, Zenon DEF Socket
  <2>3. /\ m.conn = n.conn /\ m.consumed = n.consumed /\ m.delivered = n.delivered
        /\ m.written = k /\ m.taken = n.taken
    BY <2>1 DEF Socket
  <2> QED BY <2>1, <2>2, <2>3, <1>0, <1>3 DEF PeerMoves
<1>4. ASSUME NEW k \in Nat, k >= n.taken, k <= Len(n.delivered)
      PROVE  PeerMoves(n, [n EXCEPT !.taken = k])
  <2>1. PICK m : m = [n EXCEPT !.taken = k]
    BY Zenon
  <2>2. m \in Socket
    BY <2>1, Zenon DEF Socket
  <2>3. /\ m.conn = n.conn /\ m.consumed = n.consumed /\ m.delivered = n.delivered
        /\ m.written = n.written /\ m.taken = k
    BY <2>1 DEF Socket
  <2> QED BY <2>1, <2>2, <2>3, <1>0, <1>4 DEF PeerMoves
<1>5. ASSUME NEW how \in {"closed", "reset"} PROVE PeerMoves(n, [n EXCEPT !.peer = how])
  <2>1. PICK m : m = [n EXCEPT !.peer = how]
    BY Zenon
  <2>2. m \in Socket
    BY <2>1 DEF Socket
  <2>3. /\ m.conn = n.conn /\ m.consumed = n.consumed /\ m.delivered = n.delivered
        /\ m.written = n.written /\ m.taken = n.taken
    BY <2>1 DEF Socket
  <2> QED BY <2>1, <2>2, <2>3, <1>0 DEF PeerMoves
<1> QED
  BY <1>1, <1>2, <1>3, <1>4, <1>5

LEMMA PeerKeepsInv ==
    ASSUME ServerInv, NEW c \in Clients, Peer(c) PROVE ServerInv'
<1>0. PICK n \in Socket : n = net[c] /\ n.taken <= Len(n.delivered)
  BY DEF ServerInv, TypeOK, ClientSound, StreamsSound
<1>1. n.shaken \in Nat /\ n.written \in Nat /\ n.taken \in Nat /\ Len(n.delivered) \in Nat
  BY DEF Socket
<1>2. PICK m : PeerMoves(n, m) /\ net' = [net EXCEPT ![c] = m] /\ UNCHANGED serverVars
  <2>1. CASE connect(c)
    <3>1. net' = [net EXCEPT ![c] = [n EXCEPT !.conn = "backlog"]] /\ n.conn = "none"
      BY <2>1, <1>0 DEF connect
    <3> QED BY <2>1, <3>1, <1>0, PeerUpdates, Zenon DEF connect
  <2>2. CASE shake(c)
    <3>1. n.shaken + 1 \in Nat
      BY <1>1
    <3>2. net' = [net EXCEPT ![c] = [n EXCEPT !.shaken = n.shaken + 1]]
      BY <2>2, <1>0 DEF shake
    <3> QED BY <2>2, <3>1, <3>2, <1>0, PeerUpdates, Zenon DEF shake
  <2>3. CASE write(c)
    <3>1. n.written + 1 \in Nat /\ n.written + 1 >= n.written
      BY <1>1
    <3>2. net' = [net EXCEPT ![c] = [n EXCEPT !.written = n.written + 1]]
      BY <2>3, <1>0 DEF write
    <3> QED BY <2>3, <3>1, <3>2, <1>0, PeerUpdates, Zenon DEF write
  <2>4. CASE take(c)
    <3>1. n.taken + 1 \in Nat /\ n.taken + 1 >= n.taken /\ n.taken + 1 <= Len(n.delivered)
      BY <2>4, <1>0, <1>1 DEF take
    <3>2. net' = [net EXCEPT ![c] = [n EXCEPT !.taken = n.taken + 1]]
      BY <2>4, <1>0 DEF take
    <3> QED BY <2>4, <3>1, <3>2, <1>0, PeerUpdates, Zenon DEF take
  <2>5. CASE leave(c)
    <3>1. PICK how \in {"closed", "reset"} : net' = [net EXCEPT ![c] = [n EXCEPT !.peer = how]]
      BY <2>5, <1>0, Zenon DEF leave
    <3> QED BY <2>5, <3>1, <1>0, PeerUpdates, Zenon DEF leave
  <2> QED BY <2>1, <2>2, <2>3, <2>4, <2>5 DEF Peer
<1> QED
  BY <1>0, <1>2, PeerMove, Zenon

-----------------------------------------------------------------------------
(* ExchangeTcpServer: what the server does to one client *)

\* What the invariant says of one client.
LEMMA OfClient ==
    ASSUME ServerInv, NEW c \in Clients
    PROVE  /\ clients_[c] \in ClientState /\ net[c] \in Socket /\ processed[c] \in Nat
           /\ tls \in BOOLEAN
           /\ ClientSound(clients_[c], net[c], processed[c], tls)
BY DEF ServerInv, TypeOK

\* Of a connected client's orders, those not answered completely are the one in sendBuffer.
LEMMA AnsweredCount ==
    ASSUME NEW s \in ClientState, NEW n \in Socket, NEW p \in Nat, NEW t, Answered(s, n, p, t)
    PROVE  p - (Len(n.delivered) \div ResponseSize) = IF s.sending = 0 THEN 0 ELSE 1
<1>0. ResponseSize \in Nat /\ ResponseSize > 0
  BY ServerAssumption
<1>1. CASE s.sending = 0
  <2>1. Len(n.delivered) = p * ResponseSize + 0 /\ 0 \in 0 .. ResponseSize - 1
    BY <1>0, <1>1 DEF Answered
  <2>2. (p * ResponseSize + 0) \div ResponseSize = p
    BY <1>0, <2>1, Quotient
  <2> QED BY <1>1, <2>1, <2>2
<1>2. CASE s.sending # 0
  <2>1. PICK q \in Nat : q = p - 1
    BY <1>2 DEF Answered, ClientState
  <2>2. PICK done \in 0 .. ResponseSize - 1 : Len(n.delivered) = q * ResponseSize + done
    BY <1>2, <2>1 DEF Answered
  <2>3. (q * ResponseSize + done) \div ResponseSize = q
    BY <1>0, Quotient
  <2> QED BY <1>2, <2>1, <2>2, <2>3
<1> QED BY <1>1, <1>2

\* closeClient, after perhaps one more order was processed: at most two are not answered.
LEMMA CloseSound ==
    ASSUME NEW s \in ClientState, NEW n \in Socket, NEW p \in Nat, NEW t, ClientSound(s, n, p, t),
           n.conn = "open",
           NEW m \in Socket, m.conn = "closed", m.delivered = n.delivered,
           NEW k \in {p, p + 1}, StreamsSound(m, k)
    PROVE  ClientSound(s, m, k, t)
<1>1. PICK d : d = Len(n.delivered) \div ResponseSize
  OBVIOUS
<1>2. d \in Nat
  <2>1. PICK a \in Nat : a = Len(n.delivered)
    BY DEF Socket
  <2>2. ResponseSize \in Nat /\ ResponseSize > 0
    BY ServerAssumption
  <2>3. a \div ResponseSize \in Nat
    BY <2>2, DivMod
  <2> QED BY <1>1, <2>1, <2>3
<1>3. p - d = IF s.sending = 0 THEN 0 ELSE 1
  BY <1>1, AnsweredCount DEF ClientSound
<1>4. k <= d + 2
  BY <1>2, <1>3
<1> QED
  BY <1>1, <1>4 DEF ClientSound

\* A change of what epoll watches for or of the handshake, and nothing else.
LEMMA SameStreams ==
    ASSUME NEW s \in ClientState, NEW n \in Socket, NEW p \in Nat, NEW t, ClientSound(s, n, p, t),
           NEW s2 \in ClientState, NEW n2 \in Socket,
           n2.conn = n.conn, n2.written = n.written, n2.consumed = n.consumed,
           n2.delivered = n.delivered, n2.taken = n.taken,
           s2.receivedBytes = s.receivedBytes, s2.sending = s.sending, s2.sentBytes = s.sentBytes,
           s2.sending # 0 => "OUT" \in s2.interest /\ s2.tlsHandshakeComplete
    PROVE  ClientSound(s2, n2, p, t)
<1>1. StreamsSound(n2, p)
  BY DEF StreamsSound, ClientSound
<1>2. Answered(s, n, p, t) => Answered(s2, n2, p, t)
  BY DEF Answered
<1> QED
  BY <1>1, <1>2 DEF ClientSound

\* closeClient of a connected client keeps the invariant.
LEMMA CloseStep ==
    ASSUME ServerInv, NEW c \in Clients, Open(c), net' = Closed(net, c),
           UNCHANGED <<up, tls, clients_, processed>>,
           DOMAIN events' \subseteq DOMAIN events, c \notin DOMAIN events', reading' = Nobody
    PROVE  ServerInv'
<1>1. PICK s \in ClientState, n \in Socket, p \in Nat :
          /\ s = clients_[c] /\ n = net[c] /\ p = processed[c] /\ ClientSound(s, n, p, tls)
          /\ n.conn = "open"
  BY OfClient DEF Open
<1>2. PICK m : m = [n EXCEPT !.conn = "closed"]
  BY Zenon
<1>3. /\ m \in Socket /\ m.conn = "closed" /\ m.delivered = n.delivered
      /\ m.written = n.written /\ m.consumed = n.consumed /\ m.taken = n.taken
  BY <1>2 DEF Socket
<1>4. StreamsSound(m, p)
  BY <1>1, <1>3 DEF ClientSound, StreamsSound
<1>5. ClientSound(s, m, p, tls)
  BY <1>1, <1>3, <1>4, CloseSound
<1>6. net' = [net EXCEPT ![c] = m]
  BY <1>1, <1>2 DEF Closed
<1>7. clients_' = [clients_ EXCEPT ![c] = s] /\ processed' = [processed EXCEPT ![c] = p]
  BY <1>1 DEF ServerInv, TypeOK
<1>8. up' \in BOOLEAN /\ tls' = tls /\ reading' # c
  BY ServerAssumption DEF ServerInv, TypeOK
<1> QED
  BY <1>1, <1>3, <1>5, <1>6, <1>7, <1>8, OneClient, Zenon

\* An event is handled once.
LEMMA EventHandled ==
    ASSUME NEW fd, Handled(fd)
    PROVE  DOMAIN events' = DOMAIN events \ {fd}
BY DEF Handled, Restrict

\* While an event of a client is handled, nobody is read and it is connected.
LEMMA EventFacts ==
    ASSUME ServerInv, NEW c \in Clients, OnEvent(c)
    PROVE  /\ Open(c) /\ reading = Nobody /\ c \notin DOMAIN events'
           /\ DOMAIN events' \subseteq DOMAIN events
BY EventHandled, Zenon DEF OnEvent, ServerInv, EventsSound

LEMMA ErrorKeepsInv ==
    ASSUME ServerInv, NEW c \in Clients, clientError(c) PROVE ServerInv'
BY EventFacts, CloseStep DEF clientError

LEMMA ReadEndsKeepsInv ==
    ASSUME ServerInv, NEW c \in Clients, readEnds(c) PROVE ServerInv'
<1>1. Open(c) /\ c \notin DOMAIN events /\ events' = events
  BY DEF readEnds, Reading, ServerInv, EventsSound
<1> QED
  BY <1>1, CloseStep DEF readEnds

\* progressTlsHandshake: nothing is pending before the handshake is complete, so
\* the interest may be set afresh.
LEMMA HandshakeKeepsInv ==
    ASSUME ServerInv, NEW c \in Clients, progressTlsHandshake(c) PROVE ServerInv'
<1>0. /\ Open(c) /\ reading = Nobody /\ c \notin DOMAIN events'
      /\ DOMAIN events' \subseteq DOMAIN events
  BY EventFacts DEF progressTlsHandshake
<1>1. CASE net' = Closed(net, c) /\ UNCHANGED clients_
  BY <1>0, <1>1, CloseStep DEF progressTlsHandshake
<1>2. CASE ~(net' = Closed(net, c) /\ UNCHANGED clients_)
  <2>1. PICK s \in ClientState, n \in Socket, p \in Nat :
            /\ s = clients_[c] /\ n = net[c] /\ p = processed[c] /\ ClientSound(s, n, p, tls)
            /\ n.conn = "open"
    BY <1>0, OfClient DEF Open
  <2>2. s.sending = 0
    BY <2>1 DEF progressTlsHandshake, ClientSound
  <2>3. PICK k \in Nat, s2 \in ClientState :
            /\ net' = [net EXCEPT ![c] = [n EXCEPT !.shakenSeen = k]]
            /\ clients_' = [clients_ EXCEPT ![c] = s2]
            /\ s2.receivedBytes = s.receivedBytes /\ s2.sending = s.sending /\ s2.sentBytes = s.sentBytes
    <3> DEFINE a == [s EXCEPT !.tlsHandshakeComplete = TRUE, !.interest = {"IN"}]
               b(w) == [s EXCEPT !.interest = w]
    <3>1. n.shaken \in Nat /\ Flights \in Nat
      BY ServerAssumption DEF Socket
    <3>2. /\ a \in ClientState /\ a.receivedBytes = s.receivedBytes
          /\ a.sending = s.sending /\ a.sentBytes = s.sentBytes
      BY Zenon DEF ClientState
    <3>3. \A w \in {{"IN"}, {"IN", "OUT"}} :
             /\ b(w) \in ClientState /\ b(w).receivedBytes = s.receivedBytes
             /\ b(w).sending = s.sending /\ b(w).sentBytes = s.sentBytes
      BY DEF ClientState
    <3>4. \/ /\ net' = [net EXCEPT ![c] = [n EXCEPT !.shakenSeen = Flights]]
             /\ clients_' = [clients_ EXCEPT ![c] = a]
          \/ /\ net' = [net EXCEPT ![c] = [n EXCEPT !.shakenSeen = n.shaken]]
             /\ \E w \in {{"IN"}, {"IN", "OUT"}} : clients_' = [clients_ EXCEPT ![c] = b(w)]
      BY <1>2, <2>1, Zenon DEF progressTlsHandshake
    <3> HIDE DEF a, b
    <3> QED BY <3>1, <3>2, <3>3, <3>4
  <2>4. PICK m : m = [n EXCEPT !.shakenSeen = k]
    BY Zenon
  <2>5. /\ m \in Socket /\ m.conn = n.conn /\ m.written = n.written /\ m.consumed = n.consumed
        /\ m.delivered = n.delivered /\ m.taken = n.taken
    BY <2>4, Zenon DEF Socket
  <2>6. ClientSound(s2, m, p, tls)
    BY <2>1, <2>2, <2>3, <2>5, SameStreams
  <2>7. net' = [net EXCEPT ![c] = m] /\ processed' = [processed EXCEPT ![c] = p]
    BY <2>1, <2>3, <2>4 DEF progressTlsHandshake, ServerInv, TypeOK
  <2>8. up' \in BOOLEAN /\ tls' = tls /\ reading' = Nobody /\ reading' # c
    BY <1>0, ServerAssumption DEF progressTlsHandshake, ServerInv, TypeOK
  <2> QED BY <1>0, <2>3, <2>5, <2>6, <2>7, <2>8, OneClient, Zenon
<1> QED BY <1>1, <1>2

\* wouldBlock: epoll goes on watching for room while an answer is pending.
LEMMA WouldBlockKeepsInv ==
    ASSUME ServerInv, NEW c \in Clients, wouldBlock(c) PROVE ServerInv'
<1>0. Open(c) /\ c \notin DOMAIN events /\ events' = events
  BY DEF wouldBlock, Reading, ServerInv, EventsSound
<1>1. PICK s \in ClientState, n \in Socket, p \in Nat :
          /\ s = clients_[c] /\ n = net[c] /\ p = processed[c] /\ ClientSound(s, n, p, tls)
          /\ n.conn = "open"
  BY <1>0, OfClient DEF Open
<1>2. PICK s2 \in ClientState :
          /\ clients_' = [clients_ EXCEPT ![c] = s2]
          /\ s2.receivedBytes = s.receivedBytes /\ s2.sending = s.sending /\ s2.sentBytes = s.sentBytes
          /\ s2.sending # 0 => "OUT" \in s2.interest /\ s2.tlsHandshakeComplete
  <2>0. s.sending # 0 => "OUT" \in s.interest /\ s.tlsHandshakeComplete
    BY <1>1 DEF ClientSound
  <2>1. CASE tls
    <3> DEFINE b(w) == [s EXCEPT !.interest = w]
    <3>1. PICK w \in SUBSET {"IN", "OUT"} :
              clients_' = [clients_ EXCEPT ![c] = b(w)] /\ (s.sending # 0 => "OUT" \in w)
      <4>1. PICK more \in {{}, {"OUT"}} :
                /\ clients_' = [clients_ EXCEPT ![c].interest = {"IN"} \cup more]
                /\ s.sending # 0 => "OUT" \in more
        BY <1>1, <2>1 DEF wouldBlock
      <4>2. {"IN"} \cup more \in SUBSET {"IN", "OUT"} /\ (s.sending # 0 => "OUT" \in {"IN"} \cup more)
        BY <4>1
      <4>3. clients_' = [clients_ EXCEPT ![c] = b({"IN"} \cup more)]
        BY <4>1, <1>1
      <4> QED BY <4>2, <4>3, Zenon
    <3>2. /\ b(w) \in ClientState /\ b(w).receivedBytes = s.receivedBytes
          /\ b(w).sending = s.sending /\ b(w).sentBytes = s.sentBytes /\ b(w).interest = w
      BY DEF ClientState
    <3>3. b(w).tlsHandshakeComplete = s.tlsHandshakeComplete
      BY DEF ClientState
    <3> HIDE DEF b
    <3> QED BY <2>0, <3>1, <3>2, <3>3, Zenon
  <2>2. CASE ~tls
    <3>1. clients_' = [clients_ EXCEPT ![c] = s]
      BY <1>1, <2>2 DEF wouldBlock, ServerInv, TypeOK
    <3> QED BY <2>0, <3>1, Zenon
  <2> QED BY <2>1, <2>2
<1>3. ClientSound(s2, n, p, tls)
  BY <1>1, <1>2, SameStreams
<1>4. net' = [net EXCEPT ![c] = n] /\ processed' = [processed EXCEPT ![c] = p]
  BY <1>1 DEF wouldBlock, ServerInv, TypeOK
<1>5. up' \in BOOLEAN /\ tls' = tls /\ reading' = Nobody /\ reading' # c
  BY ServerAssumption DEF wouldBlock, ServerInv, TypeOK
<1> QED
  BY <1>0, <1>2, <1>3, <1>4, <1>5, OneClient, Zenon

\* clientReady: a pending answer is flushed, and perhaps the client is then read.
LEMMA ReadyKeepsInv ==
    ASSUME ServerInv, NEW c \in Clients, clientReady(c) PROVE ServerInv'
<1>0. /\ Open(c) /\ reading = Nobody /\ c \notin DOMAIN events'
      /\ DOMAIN events' \subseteq DOMAIN events
  BY EventFacts DEF clientReady
<1> DEFINE pending == "OUT" \in events[c] /\ clients_[c].sending # 0
           flushed == flushPendingWrite(clients_[c], net, c)
<1>1. PICK s \in ClientState, n \in Socket, p \in Nat :
          /\ s = clients_[c] /\ n = net[c] /\ p = processed[c] /\ ClientSound(s, n, p, tls)
          /\ n.conn = "open"
  BY <1>0, OfClient DEF Open
<1>2. /\ s.tlsHandshakeComplete /\ processed' = [processed EXCEPT ![c] = p]
      /\ up' \in BOOLEAN /\ tls' = tls /\ tls \in BOOLEAN /\ net \in [Clients -> Socket]
  BY <1>1 DEF clientReady, ServerInv, TypeOK
<1>3. CASE pending /\ net' = Closed(net, c) /\ UNCHANGED <<clients_, reading>>
  BY <1>0, <1>3, CloseStep DEF clientReady
<1>4. CASE /\ net' = IF pending THEN flushed.net ELSE net
           /\ clients_' = IF pending THEN [clients_ EXCEPT ![c] = flushed.state] ELSE clients_
           /\ reading' = IF "IN" \in events[c] THEN c ELSE Nobody
  <2>0. reading' \in {c, Nobody}
    BY <1>4
  <2>1. CASE ~pending
    <3>1. net' = [net EXCEPT ![c] = n] /\ clients_' = [clients_ EXCEPT ![c] = s]
      BY <1>1, <1>4, <2>1, Zenon DEF ServerInv, TypeOK
    <3> HIDE DEF pending, flushed
    <3> QED BY <1>0, <1>1, <1>2, <2>0, <3>1, OneClient, Zenon
  <2>2. CASE pending
    <3>1. s.sending \in Nat \ {0} /\ s.sending = p /\ Answered(s, n, p, tls) /\ StreamsSound(n, p)
      BY <1>1, <2>2 DEF ClientSound, Answered, ClientState
    <3> DEFINE r == flushPendingWrite(s, net, c)
    <3>2. net' = r.net /\ clients_' = [clients_ EXCEPT ![c] = r.state]
      BY <1>1, <1>4, <2>2
    <3> HIDE DEF pending, flushed
    <3>3. Flushed(r, s, net, c, p, tls)
      <4>1. p \in Nat \ {0} /\ Answered(s, net[c], p, tls) /\ StreamsSound(net[c], p)
        BY <1>1, <3>1
      <4> QED BY <4>1, <1>2, <3>1, FlushSound, Zenon
    <3> HIDE DEF r
    <3>4. PICK s2 \in ClientState : s2 = r.state
      BY <3>3 DEF Flushed
    <3>5. PICK d, n2 :
              /\ d \in Seq(Nat \X Nat) /\ n2 = [n EXCEPT !.delivered = d] /\ net' = [net EXCEPT ![c] = n2]
              /\ Answered(s2, n2, p, tls) /\ StreamsSound(n2, p)
      BY <1>1, <3>2, <3>3, <3>4, Zenon DEF Flushed
    <3>6. n2 \in Socket /\ n2.conn = "open" /\ n2.consumed = n.consumed
      BY <1>1, <3>5, Zenon DEF Socket
    <3>7. ClientSound(s2, n2, p, tls)
      BY <1>1, <1>2, <3>3, <3>4, <3>5, <3>6, Zenon DEF ClientSound, Flushed
    <3>8. clients_' = [clients_ EXCEPT ![c] = s2] /\ s2.tlsHandshakeComplete
      BY <1>2, <3>2, <3>3, <3>4, Zenon DEF Flushed
    <3> QED BY <1>0, <1>2, <2>0, <3>5, <3>6, <3>7, <3>8, OneClient, Zenon
  <2> QED BY <2>1, <2>2
<1> QED
  BY <1>3, <1>4 DEF clientReady

\* While a client is read it is connected, its handshake is done, and no event
\* of it is left.
LEMMA ReadingFacts ==
    ASSUME ServerInv, NEW c \in Clients, Reading(c)
    PROVE  Open(c) /\ c \notin DOMAIN events /\ clients_[c].tlsHandshakeComplete
BY DEF Reading, ServerInv, EventsSound

\* A part of an order is read.
LEMMA PartKeepsInv ==
    ASSUME ServerInv, NEW c \in Clients, NEW k \in 1 .. FrameSize, receivePart(c, k)
    PROVE  ServerInv'
<1>0. Open(c) /\ c \notin DOMAIN events /\ clients_[c].tlsHandshakeComplete
  BY ReadingFacts DEF receivePart
<1>1. PICK s \in ClientState, n \in Socket, p \in Nat :
          /\ s = clients_[c] /\ n = net[c] /\ p = processed[c] /\ ClientSound(s, n, p, tls)
          /\ n.conn = "open" /\ s.tlsHandshakeComplete
  BY <1>0, OfClient DEF Open
<1>2. /\ FrameSize \in Nat /\ p * FrameSize \in Nat /\ k \in Nat
      /\ n.consumed \in Nat /\ s.receivedBytes \in Nat /\ n.written \in Nat
  BY ServerAssumption DEF Socket, ClientState
<1>3. PICK a \in Nat, b \in Nat : a = s.receivedBytes + k /\ b = n.consumed + k
  BY <1>2
<1>4. PICK s2, m : s2 = [s EXCEPT !.receivedBytes = a] /\ m = [n EXCEPT !.consumed = b]
  BY Zenon
<1>5. /\ s2 \in ClientState /\ s2.receivedBytes = a /\ s2.sending = s.sending
      /\ s2.sentBytes = s.sentBytes /\ s2.interest = s.interest
  BY <1>4 DEF ClientState
<1>6. s2.tlsHandshakeComplete = s.tlsHandshakeComplete
  BY <1>4 DEF ClientState
<1>7. /\ m \in Socket /\ m.consumed = b /\ m.conn = n.conn /\ m.written = n.written
      /\ m.delivered = n.delivered /\ m.taken = n.taken
  BY <1>4, Zenon DEF Socket
<1>8. clients_' = [clients_ EXCEPT ![c] = s2] /\ net' = [net EXCEPT ![c] = m]
  BY <1>1, <1>3, <1>4 DEF receivePart
<1>9. processed' = [processed EXCEPT ![c] = p] /\ up' \in BOOLEAN /\ tls' = tls
  BY <1>1 DEF receivePart, ServerInv, TypeOK
<1>10. n.consumed = p * FrameSize + s.receivedBytes
  BY <1>1 DEF ClientSound
<1>11. b <= n.written /\ a < FrameSize /\ b = p * FrameSize + a /\ p * FrameSize <= b
  BY <1>1, <1>2, <1>3, <1>10 DEF receivePart
<1>12. StreamsSound(m, p)
  BY <1>1, <1>7, <1>11 DEF StreamsSound, ClientSound
<1>13. Answered(s2, m, p, tls)
  <2>1. Answered(s, n, p, tls)
    BY <1>1 DEF ClientSound
  <2> QED BY <1>5, <1>7, <2>1 DEF Answered
<1>14. ClientSound(s2, m, p, tls)
  BY <1>1, <1>5, <1>6, <1>7, <1>11, <1>12, <1>13 DEF ClientSound
<1>15. DOMAIN events' \subseteq DOMAIN events /\ reading' = c /\ c \notin DOMAIN events'
  BY <1>0 DEF receivePart, Reading
<1> QED
  BY <1>1, <1>5, <1>6, <1>7, <1>8, <1>9, <1>14, <1>15, OneClient, Zenon

\* A whole order is read: it is processed and answered, or the client is closed.
LEMMA OrderKeepsInv ==
    ASSUME ServerInv, NEW c \in Clients, receiveOrder(c) PROVE ServerInv'
<1>0. Open(c) /\ c \notin DOMAIN events /\ clients_[c].tlsHandshakeComplete
  BY ReadingFacts DEF receiveOrder
<1>1. PICK s \in ClientState, n \in Socket, p \in Nat :
          /\ s = clients_[c] /\ n = net[c] /\ p = processed[c] /\ ClientSound(s, n, p, tls)
          /\ n.conn = "open" /\ s.tlsHandshakeComplete
  BY <1>0, OfClient DEF Open
<1>2. /\ FrameSize \in Nat /\ p * FrameSize \in Nat /\ FrameSize > 0
      /\ n.consumed \in Nat /\ s.receivedBytes \in Nat /\ n.written \in Nat
  BY ServerAssumption DEF Socket, ClientState
<1>3. n.consumed = p * FrameSize + s.receivedBytes /\ s.receivedBytes < FrameSize
  BY <1>1 DEF ClientSound
<1>4. PICK b \in Nat : b = n.consumed + (FrameSize - s.receivedBytes)
  BY <1>2, <1>3
<1>5. PICK q \in Nat \ {0} : q = p + 1
  OBVIOUS
<1>6. b = q * FrameSize /\ b <= n.written /\ p * FrameSize <= b /\ q - 1 = p
  <2>1. b <= n.written
    BY <1>1, <1>2, <1>3, <1>4 DEF receiveOrder
  <2>2. (p + 1) * FrameSize = p * FrameSize + FrameSize
    BY <1>2
  <2>3. b = q * FrameSize /\ p * FrameSize <= b
    BY <1>2, <1>3, <1>4, <1>5, <2>2
  <2> QED BY <2>1, <2>3, <1>5
<1>7. PICK m : m = [n EXCEPT !.consumed = b]
  BY Zenon
<1>8. /\ m \in Socket /\ m.consumed = b /\ m.conn = n.conn /\ m.written = n.written
      /\ m.delivered = n.delivered /\ m.taken = n.taken
  BY <1>7, Zenon DEF Socket
<1>9. StreamsSound(m, p) /\ StreamsSound(m, q)
  <2>1. /\ n.taken <= Len(n.delivered) /\ Len(n.delivered) - n.taken <= SocketRoom
        /\ \A i \in 1 .. Len(n.delivered) : n.delivered[i] = Part(i)
    BY <1>1 DEF StreamsSound, ClientSound
  <2>2. m.consumed <= m.written /\ p * FrameSize <= m.consumed /\ q * FrameSize <= m.consumed
    BY <1>6, <1>8
  <2> QED BY ONLY <1>8, <2>1, <2>2 DEF StreamsSound
<1>10. PICK read \in [Clients -> Socket] :
          read = [net EXCEPT ![c] = m] /\ read = [net EXCEPT ![c].consumed = @ + (FrameSize - clients_[c].receivedBytes)]
  BY <1>1, <1>4, <1>7, <1>8, Zenon DEF ServerInv, TypeOK
<1>11. read[c] = m /\ net \in [Clients -> Socket]
  BY <1>10 DEF ServerInv, TypeOK
<1>12. up' \in BOOLEAN /\ tls' = tls /\ tls \in BOOLEAN /\ events' = events /\ reading = c
  BY DEF receiveOrder, Reading, ServerInv, TypeOK
<1>13. CASE /\ reading' = Nobody /\ net' = Closed(read, c)
            /\ processed' \in {processed, handleEnterOrder(c)}
            /\ UNCHANGED clients_
  <2>1. PICK k \in {p, q} : processed' = [processed EXCEPT ![c] = k]
    <3>1. processed = [processed EXCEPT ![c] = p]
      BY <1>1 DEF ServerInv, TypeOK
    <3>2. handleEnterOrder(c) = [processed EXCEPT ![c] = q]
      BY <1>1, <1>5 DEF handleEnterOrder
    <3> QED BY <1>13, <3>1, <3>2
  <2>2. PICK m2 : m2 = [m EXCEPT !.conn = "closed"]
    BY Zenon
  <2>3. /\ m2 \in Socket /\ m2.consumed = b /\ m2.conn = "closed" /\ m2.written = n.written
        /\ m2.delivered = n.delivered /\ m2.taken = n.taken
    BY <1>8, <2>2, Zenon DEF Socket
  <2>4. StreamsSound(m2, k)
    BY <1>8, <1>9, <2>1, <2>3 DEF StreamsSound
  <2>5. k \in {p, p + 1} /\ k \in Nat
    BY <1>5, <2>1
  <2>6. ClientSound(s, m2, k, tls)
    BY <1>1, <2>3, <2>4, <2>5, CloseSound
  <2>7. net' = [net EXCEPT ![c] = m2]
    BY <1>10, <1>11, <1>13, <2>2, Zenon DEF Closed
  <2>8. clients_' = [clients_ EXCEPT ![c] = s]
    BY <1>1, <1>13 DEF ServerInv, TypeOK
  <2>9. reading' = Nobody /\ reading' # c
    BY <1>13, ServerAssumption
  <2> QED BY <1>0, <1>12, <2>1, <2>3, <2>5, <2>6, <2>7, <2>8, <2>9, OneClient, Zenon
<1> DEFINE answer == [clients_[c] EXCEPT !.sending = processed[c] + 1, !.sentBytes = 0]
           flushed == flushPendingWrite(answer, read, c)
<1>14. CASE /\ sendAllAccepts(c)
            /\ processed' = handleEnterOrder(c)
            /\ clients_' = [clients_ EXCEPT ![c] = [flushed.state EXCEPT !.receivedBytes = 0]]
            /\ net' = flushed.net
            /\ UNCHANGED reading
  <2>1. PICK a : a = [s EXCEPT !.sending = q, !.sentBytes = 0]
    OBVIOUS
  <2>2. a \in ClientState /\ a.sending = q /\ a.sentBytes = 0
    BY <2>1, Zenon DEF ClientState
  <2>3. a.tlsHandshakeComplete = s.tlsHandshakeComplete
    BY <2>1 DEF ClientState
  <2>4. answer = a
    BY <1>1, <1>5, <2>1
  <2>5. Answered(a, m, q, tls)
    <3>1. s.sending = 0
      BY <1>1, <1>14 DEF sendAllAccepts
    <3>2. Len(m.delivered) = p * ResponseSize
      BY <1>1, <1>8, <3>1 DEF ClientSound, Answered
    <3>3. Len(m.delivered) = (q - 1) * ResponseSize + 0 /\ 0 \in 0 .. ResponseSize - 1
      BY <1>6, <3>2, ServerAssumption
    <3> QED BY <2>2, <3>3 DEF Answered
  <2>6. PICK r : r = flushPendingWrite(a, read, c) /\ r = flushed
    BY <2>4
  <2>7. Flushed(r, a, read, c, q, tls)
    <3>1. Answered(a, read[c], q, tls) /\ StreamsSound(read[c], q)
      BY <1>9, <1>11, <2>5
    <3>2. read \in [Clients -> Socket] /\ c \in Clients /\ q \in Nat \ {0}
      BY <1>5, <1>10
    <3>3. tls \in BOOLEAN /\ a \in ClientState /\ a.sending = q
      BY <1>12, <2>2
    <3>4. Flushed(flushPendingWrite(a, read, c), a, read, c, q, tls)
      BY ONLY <3>1, <3>2, <3>3, FlushSound, Zenon
    <3> QED BY <2>6, <3>4
  <2>8. PICK st, s2 : st \in ClientState /\ st = r.state /\ s2 = [st EXCEPT !.receivedBytes = 0]
    BY <2>7, Zenon DEF Flushed
  <2>9. /\ s2 \in ClientState /\ s2.receivedBytes = 0 /\ s2.sending = st.sending
        /\ s2.sentBytes = st.sentBytes /\ s2.interest = st.interest
    BY <2>8 DEF ClientState
  <2>10. s2.tlsHandshakeComplete = st.tlsHandshakeComplete
    BY <2>8 DEF ClientState
  <2>11. PICK d, m2 :
             /\ d \in Seq(Nat \X Nat) /\ m2 = [m EXCEPT !.delivered = d] /\ r.net = [read EXCEPT ![c] = m2]
             /\ Answered(st, m2, q, tls) /\ StreamsSound(m2, q)
    BY <1>11, <2>7, <2>8, Zenon DEF Flushed
  <2>12. m2 \in Socket /\ m2.conn = "open" /\ m2.consumed = b
    BY <1>1, <1>8, <2>11, Zenon DEF Socket
  <2>13. Answered(s2, m2, q, tls)
    BY <2>9, <2>11 DEF Answered
  <2>14. s2.tlsHandshakeComplete /\ (s2.sending # 0 => "OUT" \in s2.interest)
    BY <1>1, <2>3, <2>7, <2>8, <2>9, <2>10 DEF Flushed
  <2>15. ClientSound(s2, m2, q, tls)
    <3>1. m2.consumed = q * FrameSize + s2.receivedBytes /\ s2.receivedBytes < FrameSize
      BY <1>2, <1>6, <2>9, <2>12
    <3> QED BY <2>11, <2>12, <2>13, <2>14, <3>1 DEF ClientSound
  <2>16. net' = [net EXCEPT ![c] = m2]
    BY <1>10, <1>11, <1>14, <2>6, <2>11, Zenon
  <2>17. clients_' = [clients_ EXCEPT ![c] = s2]
    BY <1>14, <2>6, <2>8
  <2>18. processed' = [processed EXCEPT ![c] = q] /\ reading' = c
    BY <1>1, <1>5, <1>12, <1>14 DEF handleEnterOrder
  <2> HIDE DEF answer, flushed
  <2> QED BY <1>0, <1>12, <2>9, <2>12, <2>14, <2>15, <2>16, <2>17, <2>18, OneClient, Zenon
<1> QED
  BY <1>10, <1>13, <1>14, Zenon DEF receiveOrder

-----------------------------------------------------------------------------
(* ExchangeTcpServer: steps of the loop *)

\* Only connected clients and the listener are reported.
LEMMA EpollKeepsInv ==
    ASSUME ServerInv, epollWait PROVE ServerInv'
<1>1. UNCHANGED <<up, tls, clients_, reading, processed, net>> /\ reading = Nobody
  BY DEF epollWait, Idle
<1>2. \A c \in Clients : c \in DOMAIN events' => Open(c)
  BY ServerAssumption DEF epollWait
<1>3. EventsSound'
  BY <1>1, <1>2, ServerAssumption DEF EventsSound, Open
<1>4. TypeOK'
  BY <1>1 DEF ServerInv, TypeOK
<1> QED
  BY <1>1, <1>3, <1>4 DEF ServerInv

\* An accepted client starts with nothing read, processed or delivered.
LEMMA AcceptKeepsInv ==
    ASSUME ServerInv, acceptClients PROVE ServerInv'
<1>0. /\ up' = up /\ tls' = tls /\ reading' = Nobody /\ processed' = processed
      /\ DOMAIN events' \subseteq DOMAIN events /\ tls \in BOOLEAN
  BY EventHandled, Zenon DEF acceptClients, ServerInv, TypeOK
<1>1. NewClient \in ClientState /\ NewClient.receivedBytes = 0 /\ NewClient.sending = 0
  BY <1>0 DEF NewClient, ClientState
<1>2. ASSUME NEW c \in Clients
      PROVE  /\ clients_'[c] \in ClientState /\ net'[c] \in Socket
             /\ ClientSound(clients_'[c], net'[c], processed[c], tls)
             /\ Open(c) => net'[c].conn = "open"
  <2>1. PICK s \in ClientState, n \in Socket, p \in Nat :
            s = clients_[c] /\ n = net[c] /\ p = processed[c] /\ ClientSound(s, n, p, tls)
    BY OfClient
  <2>2. CASE c \in Waiting
    <3>1. PICK m : m = [n EXCEPT !.conn = "open"]
      BY Zenon
    <3>2. /\ m \in Socket /\ m.conn = "open" /\ m.consumed = n.consumed /\ m.written = n.written
          /\ m.delivered = n.delivered /\ m.taken = n.taken
      BY <3>1, Zenon DEF Socket
    <3>3. n.conn = "backlog" /\ clients_'[c] = NewClient /\ net'[c] = m
      BY <2>1, <2>2, <3>1 DEF Waiting, acceptClients
    <3>4. n.consumed = 0 /\ p = 0 /\ n.delivered = <<>> /\ StreamsSound(n, p)
      BY <2>1, <3>3 DEF ClientSound
    <3>5. StreamsSound(m, p)
      BY <3>2, <3>4 DEF StreamsSound
    <3>6. Answered(NewClient, m, p, tls)
      BY <1>1, <3>2, <3>4, ServerAssumption DEF Answered
    <3>7. m.consumed = p * FrameSize + NewClient.receivedBytes /\ NewClient.receivedBytes < FrameSize
      BY <1>1, <3>2, <3>4, ServerAssumption
    <3>8. ClientSound(NewClient, m, p, tls)
      BY <1>1, <3>2, <3>5, <3>6, <3>7 DEF ClientSound
    <3> QED BY <1>1, <2>1, <3>2, <3>3, <3>8
  <2>3. CASE c \notin Waiting
    <3>1. clients_'[c] = s /\ net'[c] = n
      BY <2>1, <2>3 DEF acceptClients
    <3> QED BY <2>1, <3>1 DEF Open
  <2> QED BY <2>2, <2>3
<1>3. /\ clients_' = [c \in Clients |-> clients_'[c]] /\ net' = [c \in Clients |-> net'[c]]
  BY DEF acceptClients
<1>4. TypeOK'
  BY <1>0, <1>2, <1>3 DEF ServerInv, TypeOK
<1>5. EventsSound'
  BY <1>0, <1>2, ServerAssumption DEF EventsSound, ServerInv, Open
<1> QED
  BY <1>0, <1>2, <1>4, <1>5 DEF ServerInv

\* stop() closes every connection.
LEMMA StopKeepsInv ==
    ASSUME ServerInv, loopFails PROVE ServerInv'
<1>0. /\ up' = FALSE /\ tls' = tls /\ clients_' = clients_ /\ reading' = Nobody
      /\ processed' = processed /\ DOMAIN events' = {} /\ tls \in BOOLEAN
  BY DEF loopFails, Idle, ServerInv, TypeOK
<1>1. ASSUME NEW c \in Clients
      PROVE  net'[c] \in Socket /\ ClientSound(clients_[c], net'[c], processed[c], tls)
  <2>1. PICK s \in ClientState, n \in Socket, p \in Nat :
            s = clients_[c] /\ n = net[c] /\ p = processed[c] /\ ClientSound(s, n, p, tls)
    BY OfClient
  <2>2. CASE n.conn \in {"open", "backlog"}
    <3>1. PICK m : m = [n EXCEPT !.conn = "closed"]
      BY Zenon
    <3>2. /\ m \in Socket /\ m.conn = "closed" /\ m.consumed = n.consumed /\ m.written = n.written
          /\ m.delivered = n.delivered /\ m.taken = n.taken
      BY <3>1, Zenon DEF Socket
    <3>3. net'[c] = m
      BY <2>1, <2>2, <3>1 DEF loopFails
    <3>4. StreamsSound(m, p)
      BY <2>1, <3>2 DEF ClientSound, StreamsSound
    <3>5. ClientSound(s, m, p, tls)
      <4>1. CASE n.conn = "open"
        <5>1. p \in {p, p + 1}
          OBVIOUS
        <5> QED BY <2>1, <3>2, <3>4, <4>1, <5>1, CloseSound
      <4>2. CASE n.conn = "backlog"
        <5>1. p = 0 /\ m.delivered = <<>>
          BY <2>1, <3>2, <4>2 DEF ClientSound
        <5>2. 0 \div ResponseSize \in Nat /\ Len(m.delivered) = 0
          BY <5>1, ServerAssumption, DivMod
        <5> QED BY <3>2, <3>4, <5>1, <5>2 DEF ClientSound
      <4> QED BY <2>2, <4>1, <4>2
    <3> QED BY <2>1, <3>2, <3>3, <3>5
  <2>3. CASE n.conn \notin {"open", "backlog"}
    <3>1. net'[c] = n
      BY <2>1, <2>3 DEF loopFails
    <3> QED BY <2>1, <3>1
  <2> QED BY <2>2, <2>3
<1>2. net' = [c \in Clients |-> net'[c]]
  BY DEF loopFails
<1>3. TypeOK'
  BY <1>0, <1>1, <1>2, Zenon DEF ServerInv, TypeOK
<1>4. EventsSound'
  BY <1>0, ServerAssumption DEF EventsSound
<1> QED
  BY <1>0, <1>1, <1>3, <1>4 DEF ServerInv

-----------------------------------------------------------------------------
(* ExchangeTcpServer: the theorems *)

LEMMA InitServerInv ==
    ASSUME Init PROVE ServerInv
<1>1. /\ NewSocket \in Socket /\ NewSocket.conn = "none" /\ NewSocket.consumed = 0
      /\ NewSocket.written = 0 /\ NewSocket.delivered = <<>> /\ NewSocket.taken = 0
  BY DEF NewSocket, Socket
<1>2. NewClient \in ClientState
  BY DEF Init, NewClient, ClientState
<1>3. TypeOK
  BY <1>1, <1>2 DEF Init, TypeOK
<1>4. EventsSound
  BY ServerAssumption DEF Init, EventsSound
<1>5. StreamsSound(NewSocket, 0)
  BY <1>1, ServerAssumption DEF StreamsSound
<1>6. ClientSound(NewClient, NewSocket, 0, tls)
  BY <1>1, <1>5 DEF ClientSound
<1> QED
  BY <1>3, <1>4, <1>6 DEF Init, ServerInv

\* Every step of the loop keeps the invariant; so does a client that is served.
LEMMA ServerKeepsInv ==
    ASSUME ServerInv, Server PROVE ServerInv'
BY EpollKeepsInv, AcceptKeepsInv, ErrorKeepsInv, HandshakeKeepsInv, ReadyKeepsInv, PartKeepsInv,
   OrderKeepsInv, WouldBlockKeepsInv, ReadEndsKeepsInv DEF Server, ServeClient

LEMMA StutterKeepsInv ==
    ASSUME ServerInv, UNCHANGED vars PROVE ServerInv'
BY DEF vars, ServerInv, TypeOK, EventsSound, Open

\* The buffers, the sockets and the orders processed stay in step for every client.
THEOREM ServerInvariant == Spec => []ServerInv
<1>1. Init => ServerInv
  BY InitServerInv
<1>2. ServerInv /\ [Next]_vars => ServerInv'
  BY ServerKeepsInv, StopKeepsInv, PeerKeepsInv, StutterKeepsInv DEF Next
<1> QED
  BY <1>1, <1>2, PTL DEF Spec

\* handleClientReadable never decodes from the middle of an order, however recv
\* splits the stream.
THEOREM FramesStayAligned == Spec => []FramesAligned
<1>1. ServerInv => FramesAligned
  BY DEF ServerInv, ClientSound, FramesAligned, Open
<1> QED
  BY <1>1, ServerInvariant, PTL

\* flushPendingWrite never repeats, skips or mixes response bytes.
THEOREM ResponsesStayInOrder == Spec => []ResponsesInOrder
<1>1. ServerInv => ResponsesInOrder
  BY DEF ServerInv, ClientSound, StreamsSound, Part, ResponsesInOrder
<1> QED
  BY <1>1, ServerInvariant, PTL

\* Of the orders the matching engine has seen, the client misses the answer of at
\* most one while it is connected and of at most two after closeClient.
THEOREM AnswersAreAccounted == Spec => []AnswersAccounted
<1>1. ServerInv => AnswersAccounted
  <2> SUFFICES ASSUME ServerInv, NEW c \in Clients
               PROVE  LET missing == processed[c] - (Len(net[c].delivered) \div ResponseSize)
                      IN  IF Open(c) THEN missing = (IF clients_[c].sending = 0 THEN 0 ELSE 1)
                          ELSE missing <= 2
    BY DEF AnswersAccounted
  <2>1. PICK s \in ClientState, n \in Socket, p \in Nat :
            s = clients_[c] /\ n = net[c] /\ p = processed[c] /\ ClientSound(s, n, p, tls)
    BY OfClient
  <2>2. PICK d \in Nat : d = Len(n.delivered) \div ResponseSize
    <3>1. PICK a \in Nat : a = Len(n.delivered)
      BY DEF Socket
    <3>2. a \div ResponseSize \in Nat
      BY ServerAssumption, DivMod
    <3> QED BY <3>1, <3>2
  <2>3. CASE n.conn = "open"
    BY <2>1, <2>3, AnsweredCount DEF ClientSound, Open
  <2>4. CASE n.conn = "closed"
    <3>1. p <= d + 2
      BY <2>1, <2>2, <2>4 DEF ClientSound
    <3> QED BY <2>1, <2>2, <2>4, <3>1 DEF Open
  <2>5. CASE n.conn \in {"none", "backlog"}
    <3>1. p = 0
      BY <2>1, <2>5 DEF ClientSound
    <3> QED BY <2>1, <2>2, <2>5, <3>1 DEF Open
  <2> QED BY <2>3, <2>4, <2>5 DEF Socket
<1> QED
  BY <1>1, ServerInvariant, PTL

\* epoll watches for room whenever sendBuffer is not empty, whatever SSL_read or
\* SSL_accept asked for in between.
THEOREM PendingStaysWatched == Spec => []PendingIsWatched
<1>1. ServerInv => PendingIsWatched
  BY DEF ServerInv, ClientSound, PendingIsWatched, Open
<1> QED
  BY <1>1, ServerInvariant, PTL

-----------------------------------------------------------------------------
(* OrderEntry: the inductive invariant *)

Steps == {"connecting", "ready", "sending", "sent", "receiving", "closing", "done"}

Order == [userRefNum : Nat, side : {"Buy", "Sell"}, price : Prices, quantity : Quantities]

EntryTypeOK ==
    /\ step \in Steps /\ sent \in Seq(Order) /\ sentUnits \in Nat /\ nextUserRefNum_ \in Nat
    /\ position \in Int /\ broken \in BOOLEAN

\* Units of the orders os that the transport has put on the socket, w of them,
\* with the thread at step st and u units of the last order out.
Written(st, os, u, w) ==
    /\ st = "sending" => u < FrameSize /\ w = (Len(os) - 1) * FrameSize + u
    /\ st = "done" => w <= Len(os) * FrameSize
    /\ st \notin {"sending", "done"} => w = Len(os) * FrameSize

\* The exchange has processed p orders, none that was not sent completely.
Behind(st, os, p) == p <= Len(os) - (IF st = "sending" THEN 1 ELSE 0)

InFlight(st) == IF st \in {"sending", "sent"} THEN 1 ELSE 0

\* An order is counted when it is sent; until then a check allows for it.
Counted(st, os, pos) ==
    /\ st \in {"sending", "sent"} => os # <<>>
    /\ st # "done" => pos = NetQuantity(os, Len(os) - InFlight(st))
    /\ \A n \in 0 .. Len(os) : Abs(NetQuantity(os, n)) <= MaxPosition

EntryInv ==
    /\ ServerInv /\ EntryTypeOK
    /\ IF broken THEN net[Trader].conn = "closed" /\ Behind(step, sent, processed[Trader])
       ELSE Written(step, sent, sentUnits, net[Trader].written)
    /\ Counted(step, sent, position)

-----------------------------------------------------------------------------
(* OrderEntry: net quantities *)

\* Induction: a set of numbers that holds 0, and n + 1 with every n, is Nat.
LEMMA Induction ==
    ASSUME NEW S, 0 \in S, \A n \in Nat : n \in S => n + 1 \in S
    PROVE  Nat \subseteq S
<1> SUFFICES ASSUME NEW m \in Nat, m \notin S PROVE FALSE
  OBVIOUS
<1>1. IsWellFoundedOn(OpToRel(<, Nat), Nat)
  BY NatLessThanWellFounded, Zenon
<1>2. PICK k \in Nat \ S : \A y \in Nat \ S : <<y, k>> \notin OpToRel(<, Nat)
  BY <1>1, WFMin, Zenon
<1>3. \A y \in Nat \ S : ~(y < k)
  BY <1>2, Zenon DEF OpToRel
<1>4. k # 0 /\ k - 1 \in Nat /\ k - 1 < k /\ (k - 1) + 1 = k
  OBVIOUS
<1>5. k - 1 \in S
  BY <1>3, <1>4
<1> QED BY <1>4, <1>5

\* Running totals of the first n orders of s: what the recursion defines.
Totals(f, s, n) == f = [i \in 0 .. n |-> IF i = 0 THEN 0 ELSE f[i - 1] + Signed(s[i])]

LEMMA SignedInt ==
    ASSUME NEW s \in Seq(Order), NEW i \in 1 .. Len(s) PROVE Signed(s[i]) \in Int
<1>1. PICK o \in Order : o = s[i]
  OBVIOUS
<1>2. o.quantity \in Nat
  BY OrderEntryAssumption, Zenon DEF Order
<1>3. Signed(o) \in Int
  BY <1>2 DEF Signed
<1> QED BY <1>1, <1>3

\* The recursion has a solution.
LEMMA TotalsExist ==
    ASSUME NEW s, NEW n \in Nat PROVE \E f : Totals(f, s, n)
<1> DEFINE S == {k \in Nat : \E f : Totals(f, s, k)}
<1>1. 0 \in S
  <2>1. Totals([i \in 0 .. 0 |-> 0], s, 0)
    BY DEF Totals
  <2> QED BY <2>1
<1>2. ASSUME NEW k \in Nat, k \in S PROVE k + 1 \in S
  <2>1. PICK f : Totals(f, s, k)
    BY <1>2
  <2> DEFINE g == [i \in 0 .. k + 1 |-> IF i = k + 1 THEN f[k] + Signed(s[k + 1]) ELSE f[i]]
  <2>2. \A i \in 0 .. k : f[i] = IF i = 0 THEN 0 ELSE f[i - 1] + Signed(s[i])
    BY <2>1 DEF Totals
  <2>3. \A i \in 0 .. k + 1 : g[i] = IF i = 0 THEN 0 ELSE g[i - 1] + Signed(s[i])
    BY <2>2
  <2>4. g = [i \in 0 .. k + 1 |-> g[i]]
    OBVIOUS
  <2> HIDE DEF g
  <2>5. Totals(g, s, k + 1)
    BY <2>3, <2>4, Zenon DEF Totals
  <2> QED BY <2>5
<1>3. Nat \subseteq S
  <2> HIDE DEF S
  <2> QED BY <1>1, <1>2, Induction
<1> QED BY <1>3

\* What they are at i does not depend on how many there are.
LEMMA TotalsAgree ==
    ASSUME NEW s, NEW r, NEW m \in Nat, NEW n \in Nat, NEW f, NEW g,
           Totals(f, s, m), Totals(g, r, n), \A i \in 1 .. m : i <= n => s[i] = r[i]
    PROVE  \A i \in 0 .. m : i <= n => f[i] = g[i]
<1> DEFINE S == {k \in Nat : k <= m /\ k <= n => f[k] = g[k]}
<1>0. /\ \A i \in 0 .. m : f[i] = IF i = 0 THEN 0 ELSE f[i - 1] + Signed(s[i])
      /\ \A i \in 0 .. n : g[i] = IF i = 0 THEN 0 ELSE g[i - 1] + Signed(r[i])
  BY DEF Totals
<1>1. 0 \in S
  BY <1>0
<1>2. ASSUME NEW k \in Nat, k \in S PROVE k + 1 \in S
  <2> SUFFICES ASSUME k + 1 <= m, k + 1 <= n PROVE f[k + 1] = g[k + 1]
    OBVIOUS
  <2>1. k + 1 \in 1 .. m /\ k + 1 \in 0 .. m /\ k + 1 \in 0 .. n /\ k + 1 # 0 /\ (k + 1) - 1 = k
    OBVIOUS
  <2>2. f[k] = g[k] /\ s[k + 1] = r[k + 1]
    BY <1>2, <2>1
  <2> QED BY <1>0, <2>1, <2>2
<1>3. Nat \subseteq S
  <2> HIDE DEF S
  <2> QED BY <1>1, <1>2, Induction
<1> QED BY <1>3

\* NetQuantity is such a total.
LEMMA NetIsTotal ==
    ASSUME NEW s, NEW n \in Nat
    PROVE  \E f : Totals(f, s, n) /\ NetQuantity(s, n) = f[n]
<1> DEFINE f == CHOOSE g : g = [i \in 0 .. n |-> IF i = 0 THEN 0 ELSE g[i - 1] + Signed(s[i])]
<1>1. NetQuantity(s, n) = f[n]
  BY DEF NetQuantity
<1>2. Totals(f, s, n)
  BY TotalsExist, Zenon DEF Totals
<1> QED BY <1>1, <1>2, Zenon

\* The empty total, one order more, and what a total does not depend on.
LEMMA NetOfNone ==
    ASSUME NEW s PROVE NetQuantity(s, 0) = 0
<1>1. PICK f : Totals(f, s, 0) /\ NetQuantity(s, 0) = f[0]
  BY NetIsTotal
<1> QED BY <1>1 DEF Totals

LEMMA NetOfNext ==
    ASSUME NEW s, NEW n \in Nat
    PROVE  NetQuantity(s, n + 1) = NetQuantity(s, n) + Signed(s[n + 1])
<1>0. PICK m \in Nat : m = n + 1
  OBVIOUS
<1>1. PICK f : Totals(f, s, m) /\ NetQuantity(s, m) = f[m]
  BY NetIsTotal
<1>r. PICK r : r = s
  OBVIOUS
<1>2. PICK g : Totals(g, r, n) /\ NetQuantity(s, n) = g[n]
  BY <1>r, NetIsTotal
<1>3. f[n] = g[n]
  <2>1. \A i \in 0 .. m : i <= n => f[i] = g[i]
    <3>1. \A i \in 1 .. m : i <= n => s[i] = r[i]
      BY <1>r
    <3> QED BY <1>1, <1>2, <3>1, TotalsAgree
  <2> QED BY <1>0, <2>1
<1>4. f[m] = f[m - 1] + Signed(s[m])
  BY <1>0, <1>1 DEF Totals
<1> QED BY <1>0, <1>1, <1>2, <1>3, <1>4

LEMMA NetOfPrefix ==
    ASSUME NEW s, NEW r, NEW n \in Nat, \A i \in 1 .. n : s[i] = r[i]
    PROVE  NetQuantity(s, n) = NetQuantity(r, n)
<1>1. PICK f : Totals(f, s, n) /\ NetQuantity(s, n) = f[n]
  BY NetIsTotal
<1>2. PICK g : Totals(g, r, n) /\ NetQuantity(r, n) = g[n]
  BY NetIsTotal
<1>3. \A i \in 0 .. n : i <= n => f[i] = g[i]
  BY <1>1, <1>2, TotalsAgree
<1> QED BY <1>1, <1>2, <1>3

\* One order more within the limits keeps the totals within them.
LEMMA SubmitCounts ==
    ASSUME NEW os \in Seq(Order), NEW pos \in Int, Counted("ready", os, pos),
           NEW o \in Order, Abs(pos + Signed(o)) <= MaxPosition
    PROVE  Counted("sending", Append(os, o), pos)
<1>1. PICK new \in Seq(Order), l \in Nat :
          new = Append(os, o) /\ l = Len(os) /\ Len(new) = l + 1 /\ new[l + 1] = o
  <2>1. /\ Append(os, o) \in Seq(Order) /\ Len(os) \in Nat
        /\ Len(Append(os, o)) = Len(os) + 1 /\ Append(os, o)[Len(os) + 1] = o
    OBVIOUS
  <2> QED BY <2>1, Zenon
<1>2. \A i \in 1 .. l : new[i] = os[i]
  BY <1>1
<1>3. ASSUME NEW n \in 0 .. l PROVE NetQuantity(new, n) = NetQuantity(os, n)
  <2>1. n \in Nat /\ \A i \in 1 .. n : new[i] = os[i]
    BY <1>2
  <2> QED BY <2>1, NetOfPrefix, Zenon
<1>4. pos = NetQuantity(os, l)
  BY <1>1 DEF Counted, InFlight
<1>5. NetQuantity(new, l) = pos
  BY <1>3, <1>4
<1>6. NetQuantity(new, l + 1) = pos + Signed(o)
  BY <1>1, <1>5, NetOfNext, Zenon
<1>7. \A n \in 0 .. l + 1 : Abs(NetQuantity(new, n)) <= MaxPosition
  <2>1. \A n \in 0 .. l : Abs(NetQuantity(os, n)) <= MaxPosition
    BY <1>1 DEF Counted
  <2>2. \A n \in 0 .. l + 1 : n \in 0 .. l \/ n = l + 1
    OBVIOUS
  <2> QED BY <1>3, <1>6, <2>1, <2>2
<1>8. new # <<>> /\ Len(new) - InFlight("sending") = l
  BY <1>1 DEF InFlight
<1> QED
  BY <1>1, <1>5, <1>7, <1>8 DEF Counted

\* An order whose send fails is taken back, one that is sent is added.
LEMMA FailCounts ==
    ASSUME NEW os \in Seq(Order), NEW pos \in Int, Counted("sending", os, pos)
    PROVE  /\ SubSeq(os, 1, Len(os) - 1) \in Seq(Order)
           /\ Len(SubSeq(os, 1, Len(os) - 1)) = Len(os) - 1
           /\ Counted("ready", SubSeq(os, 1, Len(os) - 1), pos)
<1>1. os # <<>> /\ pos = NetQuantity(os, Len(os) - 1)
  BY DEF Counted, InFlight
<1>2. PICK l \in Nat : l = Len(os) - 1
  BY <1>1
<1>3. PICK old : old = SubSeq(os, 1, l)
  BY Zenon
<1>4. old \in Seq(Order) /\ Len(old) = l /\ \A i \in 1 .. l : old[i] = os[i]
  BY <1>2, <1>3
<1>5. ASSUME NEW n \in 0 .. l PROVE NetQuantity(old, n) = NetQuantity(os, n)
  <2>1. n \in Nat /\ \A i \in 1 .. n : old[i] = os[i]
    BY <1>4
  <2> QED BY <2>1, NetOfPrefix, Zenon
<1>6. \A n \in 0 .. l : Abs(NetQuantity(old, n)) <= MaxPosition
  <2>1. \A n \in 0 .. l : n \in 0 .. Len(os)
    BY <1>2
  <2> QED BY <1>5, <2>1 DEF Counted
<1>7. pos = NetQuantity(old, l)
  BY <1>1, <1>2, <1>5
<1>8. Counted("ready", old, pos)
  BY <1>4, <1>6, <1>7 DEF Counted, InFlight
<1> QED
  BY <1>2, <1>3, <1>4, <1>8

LEMMA SentCounts ==
    ASSUME NEW os \in Seq(Order), NEW pos \in Int, Counted("sent", os, pos)
    PROVE  /\ pos + Signed(os[Len(os)]) \in Int
           /\ Counted("ready", os, pos + Signed(os[Len(os)]))
<1>1. os # <<>> /\ pos = NetQuantity(os, Len(os) - 1)
  BY DEF Counted, InFlight
<1>2. PICK l \in Nat : l = Len(os) - 1 /\ Len(os) = l + 1
  BY <1>1
<1>3. NetQuantity(os, l + 1) = pos + Signed(os[l + 1])
  BY <1>1, <1>2, NetOfNext
<1>4. Signed(os[l + 1]) \in Int
  BY <1>2, SignedInt
<1>5. Len(os) - InFlight("ready") = l + 1
  BY <1>2 DEF InFlight
<1> QED
  BY <1>2, <1>3, <1>4, <1>5 DEF Counted

-----------------------------------------------------------------------------
(* OrderEntry: the exchange *)

\* The exchange cannot process an order that is not on the socket completely.
LEMMA OnlyWholeOrders ==
    ASSUME NEW n \in Socket, NEW p \in Nat, StreamsSound(n, p), NEW st, NEW os \in Seq(Order),
           NEW u \in Nat, st = "sending" => os # <<>>, Written(st, os, u, n.written)
    PROVE  Behind(st, os, p)
<1>0. PICK w \in Nat, l \in Nat, C \in Nat \ {0} : w = n.written /\ l = Len(os) /\ C = FrameSize
  BY ServerAssumption DEF Socket
<1>1. p * C <= w
  <2>1. n.consumed \in Nat /\ n.consumed <= w /\ p * C <= n.consumed /\ p * C \in Nat
    BY <1>0 DEF StreamsSound, Socket
  <2> QED BY <2>1
<1>2. CASE st = "sending"
  <2>1. PICK k \in Nat : k = l - 1
    BY <1>0, <1>2
  <2>2. u < C /\ w = k * C + u
    BY <1>0, <1>2, <2>1 DEF Written
  <2>3. k < p => k * C + C <= p * C
    BY Multiples
  <2>4. k * C \in Nat /\ p * C \in Nat
    OBVIOUS
  <2>5. p <= k
    BY <1>1, <2>2, <2>3, <2>4
  <2> QED BY <1>0, <1>2, <2>1, <2>5 DEF Behind
<1>3. CASE st # "sending"
  <2>1. w <= l * C
    BY <1>0, <1>3 DEF Written
  <2>2. l < p => l * C + C <= p * C
    BY Multiples
  <2>3. l * C \in Nat /\ p * C \in Nat
    OBVIOUS
  <2>4. p <= l
    BY <1>1, <2>1, <2>2, <2>3
  <2> QED BY <1>0, <1>3, <2>4 DEF Behind
<1> QED BY <1>2, <1>3

\* Serving a client concerns that client, which is connected, and not what it wrote.
LEMMA ServeLeaves ==
    ASSUME ServerInv, NEW e \in Clients, ServeClient(e)
    PROVE  /\ Open(e)
           /\ \E m : net' = [net EXCEPT ![e] = m] /\ m.written = net[e].written
           /\ \A c \in Clients \ {e} : processed'[c] = processed[c]
<1>0. PICK n \in Socket : n = net[e]
  BY OfClient
<1>n. net = [net EXCEPT ![e] = n]
  BY <1>0 DEF ServerInv, TypeOK
<1>c. /\ Closed(net, e) = [net EXCEPT ![e] = [n EXCEPT !.conn = "closed"]]
      /\ [n EXCEPT !.conn = "closed"].written = n.written
  BY <1>0 DEF Closed, Socket
<1>1. CASE clientError(e)
  BY <1>0, <1>c, <1>1, EventFacts, Zenon DEF clientError
<1>2. CASE progressTlsHandshake(e)
  <2>1. Open(e) /\ processed' = processed
    BY <1>2, EventFacts DEF progressTlsHandshake
  <2>2. CASE net' = Closed(net, e)
    BY <1>0, <1>c, <2>1, <2>2, Zenon
  <2>3. CASE net' # Closed(net, e)
    <3>1. PICK k : net' = [net EXCEPT ![e] = [n EXCEPT !.shakenSeen = k]]
      BY <1>0, <1>2, <2>3 DEF progressTlsHandshake
    <3>2. [n EXCEPT !.shakenSeen = k].written = n.written
      BY DEF Socket
    <3> QED BY <1>0, <2>1, <3>1, <3>2, Zenon
  <2> QED BY <2>2, <2>3
<1>3. CASE clientReady(e)
  <2>1. Open(e) /\ processed' = processed
    BY <1>3, EventFacts DEF clientReady
  <2>2. CASE net' = Closed(net, e)
    BY <1>0, <1>c, <2>1, <2>2, Zenon
  <2>3. CASE net' = net
    BY <1>0, <1>n, <2>1, <2>3
  <2>4. CASE net' = flushPendingWrite(clients_[e], net, e).net
    <3>1. PICK d : net' = [net EXCEPT ![e] = [n EXCEPT !.delivered = d]]
      BY <1>0, <2>4, Zenon DEF flushPendingWrite
    <3>2. [n EXCEPT !.delivered = d].written = n.written
      BY DEF Socket
    <3> QED BY <1>0, <2>1, <3>1, <3>2, Zenon
  <2> QED BY <1>3, <2>2, <2>3, <2>4, Zenon DEF clientReady
<1>4. ASSUME NEW k \in 1 .. FrameSize, receivePart(e, k)
      PROVE  /\ Open(e)
             /\ \E m : net' = [net EXCEPT ![e] = m] /\ m.written = net[e].written
             /\ processed' = processed
  <2>1. PICK m : m = [n EXCEPT !.consumed = n.consumed + k]
    BY Zenon
  <2>2. m.written = n.written
    BY <2>1 DEF Socket
  <2>3. net' = [net EXCEPT ![e] = m] /\ processed' = processed
    BY <1>0, <1>4, <2>1 DEF receivePart
  <2> QED BY <1>0, <1>4, <2>2, <2>3, ReadingFacts, Zenon DEF receivePart
<1>5. CASE receiveOrder(e)
  <2>1. Open(e)
    BY <1>5, ReadingFacts DEF receiveOrder
  <2>2. \A c \in Clients \ {e} : processed'[c] = processed[c]
    BY <1>5 DEF receiveOrder, handleEnterOrder, ServerInv, TypeOK
  <2>3. PICK b, read : /\ read = [net EXCEPT ![e] = [n EXCEPT !.consumed = b]]
                       /\ read = [net EXCEPT ![e].consumed = @ + (FrameSize - clients_[e].receivedBytes)]
    BY <1>0, Zenon
  <2>4. net \in [Clients -> Socket] /\ read[e] = [n EXCEPT !.consumed = b]
    BY <2>3 DEF ServerInv, TypeOK
  <2>5. CASE net' = Closed(read, e)
    <3>1. PICK m : m = [[n EXCEPT !.consumed = b] EXCEPT !.conn = "closed"]
      OBVIOUS
    <3>2. m.written = n.written
      BY <3>1 DEF Socket
    <3>3. net' = [net EXCEPT ![e] = m]
      BY <2>3, <2>4, <2>5, <3>1, Zenon DEF Closed
    <3> QED BY <1>0, <2>1, <2>2, <3>2, <3>3, Zenon
  <2>6. ASSUME NEW answer, net' = flushPendingWrite(answer, read, e).net
        PROVE  \E m : net' = [net EXCEPT ![e] = m] /\ m.written = net[e].written
    <3>1. PICK d : net' = [read EXCEPT ![e].delivered = d]
      BY <2>6, Zenon DEF flushPendingWrite
    <3>2. PICK m : m = [[n EXCEPT !.consumed = b] EXCEPT !.delivered = d]
      OBVIOUS
    <3>3. m.written = n.written
      BY <3>2 DEF Socket
    <3>4. net' = [net EXCEPT ![e] = m]
      BY <2>3, <2>4, <3>1, <3>2, Zenon
    <3> QED BY <1>0, <3>3, <3>4, Zenon
  <2> QED BY <1>5, <2>1, <2>2, <2>3, <2>5, <2>6, Zenon DEF receiveOrder
<1>6. CASE wouldBlock(e)
  BY <1>0, <1>n, <1>6, ReadingFacts DEF wouldBlock
<1>7. CASE readEnds(e)
  BY <1>0, <1>c, <1>7, ReadingFacts, Zenon DEF readEnds
<1> QED
  BY <1>1, <1>2, <1>3, <1>4, <1>5, <1>6, <1>7 DEF ServeClient

\* The server takes nothing back of what a client wrote, and a connection that
\* it closed stays closed, with nothing more processed.
LEMMA ServerLeaves ==
    ASSUME ServerInv, NEW c \in Clients, Server \/ loopFails
    PROVE  /\ net'[c].written = net[c].written
           /\ net[c].conn = "closed" => net'[c].conn = "closed" /\ processed'[c] = processed[c]
<1>0. PICK n \in Socket : n = net[c] /\ net \in [Clients -> Socket]
  BY OfClient DEF ServerInv, TypeOK
<1>1. CASE epollWait
  BY <1>1 DEF epollWait
<1>2. CASE acceptClients
  <2>1. [n EXCEPT !.conn = "open"].written = n.written
    BY DEF Socket
  <2> QED BY <1>0, <1>2, <2>1 DEF acceptClients, Waiting
<1>3. CASE loopFails
  <2>1. [n EXCEPT !.conn = "closed"].written = n.written
    BY DEF Socket
  <2> QED BY <1>0, <1>3, <2>1 DEF loopFails
<1>4. ASSUME NEW e \in Clients, ServeClient(e)
      PROVE  /\ net'[c].written = net[c].written
             /\ net[c].conn = "closed" => net'[c].conn = "closed" /\ processed'[c] = processed[c]
  <2>1. Open(e) /\ \A x \in Clients \ {e} : processed'[x] = processed[x]
    BY <1>4, ServeLeaves
  <2>2. PICK m : net' = [net EXCEPT ![e] = m] /\ m.written = net[e].written
    BY <1>4, ServeLeaves
  <2> QED BY <1>0, <2>1, <2>2 DEF Open
<1> QED
  BY <1>1, <1>2, <1>3, <1>4, Zenon DEF Server

-----------------------------------------------------------------------------
(* OrderEntry: the steps *)

\* What the invariant says of the runtime's socket.
LEMMA OfTrader ==
    ASSUME EntryInv
    PROVE  /\ Trader \in Clients /\ net[Trader] \in Socket /\ processed[Trader] \in Nat
           /\ StreamsSound(net[Trader], processed[Trader])
           /\ net[Trader].taken <= Len(net[Trader].delivered)
           /\ Behind(step, sent, processed[Trader])
<1>1. Trader \in Clients /\ ServerInv
  BY OrderEntryAssumption DEF EntryInv
<1>2. /\ net[Trader] \in Socket /\ processed[Trader] \in Nat
      /\ StreamsSound(net[Trader], processed[Trader])
  BY <1>1, OfClient DEF ClientSound
<1>3. Behind(step, sent, processed[Trader])
  <2>1. CASE broken
    BY <2>1 DEF EntryInv
  <2>2. CASE ~broken
    <3>1. /\ Written(step, sent, sentUnits, net[Trader].written) /\ sent \in Seq(Order)
          /\ sentUnits \in Nat /\ (step = "sending" => sent # <<>>)
      BY <2>2, Zenon DEF EntryInv, EntryTypeOK, Counted
    <3> QED BY <1>2, <3>1, OnlyWholeOrders, Zenon
  <2> QED BY <2>1, <2>2
<1> QED
  BY <1>1, <1>2, <1>3 DEF StreamsSound

\* The server and the failure of its loop.
LEMMA ServerKeepsEntry ==
    ASSUME EntryInv, Server \/ loopFails, UNCHANGED traderVars PROVE EntryInv'
<1>1. ServerInv /\ Trader \in Clients
  BY OrderEntryAssumption DEF EntryInv
<1>2. ServerInv'
  BY <1>1, ServerKeepsInv, StopKeepsInv
<1>3. /\ net'[Trader].written = net[Trader].written
      /\ net[Trader].conn = "closed" =>
            net'[Trader].conn = "closed" /\ processed'[Trader] = processed[Trader]
  BY <1>1, ServerLeaves
<1>4. UNCHANGED <<step, sent, sentUnits, nextUserRefNum_, position, broken>>
  BY DEF traderVars
<1>5. EntryTypeOK' /\ Counted(step', sent', position')
  BY <1>4 DEF EntryInv, EntryTypeOK
<1>6. IF broken' THEN net'[Trader].conn = "closed" /\ Behind(step', sent', processed'[Trader])
      ELSE Written(step', sent', sentUnits', net'[Trader].written)
  BY <1>3, <1>4, Zenon DEF EntryInv
<1> QED
  BY <1>2, <1>5, <1>6, Zenon DEF EntryInv

\* A step in which the runtime moves its socket from net[Trader] to m, or leaves it.
LEMMA TraderMove ==
    ASSUME EntryInv, NEW m, PeerMoves(net[Trader], m), net' = [net EXCEPT ![Trader] = m],
           UNCHANGED serverVars
    PROVE  /\ ServerInv' /\ net'[Trader] = m /\ processed' = processed
           /\ net[Trader].conn = "closed" => m.conn = "closed"
<1>1. ServerInv /\ Trader \in Clients /\ net \in [Clients -> Socket]
  BY OrderEntryAssumption DEF EntryInv, ServerInv, TypeOK
<1>2. ServerInv'
  BY <1>1, PeerMove, Zenon
<1> QED
  BY <1>1, <1>2 DEF serverVars, PeerMoves

\* The runtime leaves its orders as they are and its socket or its step changes:
\* nothing written, and no order begins or ends.
LEMMA IdleKeepsEntry ==
    ASSUME EntryInv, NEW m, PeerMoves(net[Trader], m), net' = [net EXCEPT ![Trader] = m],
           UNCHANGED serverVars, m.written = net[Trader].written,
           UNCHANGED <<sent, sentUnits, nextUserRefNum_, position, broken>>,
           step' \in Steps,
           step' = step \/ step' = "done" \/ {step, step'} \cap {"sending", "sent", "done"} = {}
    PROVE  EntryInv'
<1>1. /\ ServerInv' /\ net'[Trader] = m /\ processed' = processed
      /\ net[Trader].conn = "closed" => m.conn = "closed"
  BY TraderMove, Zenon
<1>2. EntryTypeOK'
  BY DEF EntryInv, EntryTypeOK
<1>3. Counted(step', sent, position)
  <2>1. step' # step => InFlight(step') = 0 /\ step' \notin {"sending", "sent"}
    BY Zenon DEF InFlight
  <2>2. step' # step /\ step' # "done" => step # "done" /\ InFlight(step) = 0
    BY Zenon DEF InFlight
  <2>3. Counted(step, sent, position)
    BY Zenon DEF EntryInv
  <2> QED BY <2>1, <2>2, <2>3 DEF Counted
<1>4. Behind(step', sent, processed[Trader])
  <2>1. Behind(step, sent, processed[Trader]) /\ processed[Trader] \in Nat /\ sent \in Seq(Order)
    BY OfTrader, Zenon DEF EntryInv, EntryTypeOK
  <2>2. PICK l \in Nat, p \in Nat : l = Len(sent) /\ p = processed[Trader]
    BY <2>1
  <2>3. step' = step \/ step' # "sending"
    BY Zenon
  <2> QED BY <2>1, <2>2, <2>3 DEF Behind
<1>5. ~broken => Written(step', sent, sentUnits, m.written)
  <2>0. CASE step' = step \/ broken
    BY <2>0 DEF EntryInv
  <2>1. PICK w \in Nat, l \in Nat, C \in Nat : w = m.written /\ l = Len(sent) /\ C = FrameSize
    <3>1. m.written \in Nat
      BY DEF PeerMoves, Socket
    <3>2. Len(sent) \in Nat
      BY DEF EntryInv, EntryTypeOK
    <3> QED BY ONLY <3>1, <3>2, ServerAssumption
  <2>2. CASE ~broken /\ step' # step
    <3>1. Written(step, sent, sentUnits, w) /\ sentUnits \in Nat
      BY <2>1, <2>2 DEF EntryInv, EntryTypeOK
    <3>2. CASE step' = "done"
      <4>1. CASE step = "sending"
        <5>1. sent # <<>>
          BY <4>1 DEF EntryInv, Counted
        <5>2. PICK k \in Nat : k = l - 1 /\ l = k + 1
          <6>1. sent \in Seq(Order)
            BY DEF EntryInv, EntryTypeOK
          <6>2. Len(sent) # 0
            BY <5>1, <6>1
          <6> QED BY <2>1, <6>2
        <5>3. sentUnits < C /\ w = k * C + sentUnits
          BY <2>1, <3>1, <4>1, <5>2 DEF Written
        <5>4. (k + 1) * C = k * C + C /\ k * C \in Nat
          OBVIOUS
        <5>5. w <= l * C
          BY <3>1, <5>2, <5>3, <5>4
        <5> QED BY <2>1, <3>2, <5>5 DEF Written
      <4>2. CASE step # "sending"
        <5>1. l * C \in Nat
          OBVIOUS
        <5>2. w <= l * C
          BY <2>1, <2>2, <3>1, <3>2, <4>2, <5>1 DEF Written
        <5> QED BY <2>1, <3>2, <5>2 DEF Written
      <4> QED BY <4>1, <4>2
    <3>3. CASE step' # "done"
      <4>1. step \notin {"sending", "done"} /\ step' \notin {"sending", "done"}
        BY <2>2, <3>3, Zenon
      <4> QED BY <2>1, <3>1, <4>1 DEF Written
    <3> QED BY <3>2, <3>3
  <2> QED BY <2>0, <2>2
<1>6. IF broken' THEN net'[Trader].conn = "closed" /\ Behind(step', sent', processed'[Trader])
      ELSE Written(step', sent', sentUnits', net'[Trader].written)
  BY <1>1, <1>4, <1>5, Zenon DEF EntryInv
<1> QED
  BY <1>1, <1>2, <1>3, <1>6, Zenon DEF EntryInv

\* Connecting, the wait for a response and the end: IdleKeepsEntry applies.
LEMMA CallsKeepEntry ==
    ASSUME EntryInv, tcpConnect \/ tlsConnect \/ connectFails \/ finish \/ receive \/ close
    PROVE  EntryInv'
<1>0. PICK n \in Socket : n = net[Trader] /\ n.taken <= Len(n.delivered)
  BY OfTrader
<1>1. /\ \A x : [n EXCEPT !.conn = x].written = n.written
      /\ \A x : [n EXCEPT !.shaken = x].written = n.written
      /\ \A x : [n EXCEPT !.taken = x].written = n.written
      /\ \A x : [n EXCEPT !.peer = x].written = n.written
  BY DEF Socket
<1>2. ASSUME connect(Trader)
      PROVE  \E m : PeerMoves(n, m) /\ net' = [net EXCEPT ![Trader] = m] /\ m.written = n.written
  <2>1. net' = [net EXCEPT ![Trader] = [n EXCEPT !.conn = "backlog"]] /\ n.conn = "none"
    BY <1>0, <1>2 DEF connect
  <2>2. PeerMoves(n, [n EXCEPT !.conn = "backlog"])
    BY <1>0, <2>1, PeerUpdates, Zenon
  <2>m. PICK m : m = [n EXCEPT !.conn = "backlog"]
    BY Zenon
  <2>w. m.written = n.written
    BY <1>1, <2>m
  <2> QED BY <2>1, <2>2, <2>m, <2>w, Zenon
<1>3. ASSUME shake(Trader)
      PROVE  \E m : PeerMoves(n, m) /\ net' = [net EXCEPT ![Trader] = m] /\ m.written = n.written
  <2>1. net' = [net EXCEPT ![Trader] = [n EXCEPT !.shaken = n.shaken + 1]] /\ n.shaken + 1 \in Nat
    BY <1>0, <1>3 DEF shake, Socket
  <2>2. PeerMoves(n, [n EXCEPT !.shaken = n.shaken + 1])
    BY <1>0, <2>1, PeerUpdates, Zenon
  <2>m. PICK m : m = [n EXCEPT !.shaken = n.shaken + 1]
    BY Zenon
  <2>w. m.written = n.written
    BY <1>1, <2>m
  <2> QED BY <2>1, <2>2, <2>m, <2>w, Zenon
<1>4. ASSUME take(Trader)
      PROVE  \E m : PeerMoves(n, m) /\ net' = [net EXCEPT ![Trader] = m] /\ m.written = n.written
  <2>1. net' = [net EXCEPT ![Trader] = [n EXCEPT !.taken = n.taken + 1]]
    BY <1>0, <1>4 DEF take
  <2>2. n.taken \in Nat /\ Len(n.delivered) \in Nat /\ n.taken < Len(n.delivered)
    BY <1>0, <1>4 DEF take, Socket
  <2>3. n.taken + 1 \in Nat /\ n.taken + 1 >= n.taken /\ n.taken + 1 <= Len(n.delivered)
    BY <2>2
  <2>4. PeerMoves(n, [n EXCEPT !.taken = n.taken + 1])
    BY <1>0, <2>3, PeerUpdates, Zenon
  <2>m. PICK m : m = [n EXCEPT !.taken = n.taken + 1]
    BY Zenon
  <2>w. m.written = n.written
    BY <1>1, <2>m
  <2> QED BY <2>1, <2>4, <2>m, <2>w, Zenon
<1>5. ASSUME NEW how \in {"closed", "reset"}, net' = [net EXCEPT ![Trader].peer = how]
      PROVE  \E m : PeerMoves(n, m) /\ net' = [net EXCEPT ![Trader] = m] /\ m.written = n.written
  <2>1. net' = [net EXCEPT ![Trader] = [n EXCEPT !.peer = how]]
    BY <1>0, <1>5
  <2>2. PeerMoves(n, [n EXCEPT !.peer = how])
    BY <1>0, <2>1, PeerUpdates, Zenon
  <2>m. PICK m : m = [n EXCEPT !.peer = how]
    BY Zenon
  <2>w. m.written = n.written
    BY <1>1, <2>m
  <2> QED BY <2>1, <2>2, <2>m, <2>w, Zenon
<1>6. ASSUME net' = net
      PROVE  \E m : PeerMoves(n, m) /\ net' = [net EXCEPT ![Trader] = m] /\ m.written = n.written
  <2>1. net' = [net EXCEPT ![Trader] = n]
    BY <1>0, <1>6 DEF EntryInv, ServerInv, TypeOK
  <2>2. PeerMoves(n, n)
    BY <1>0 DEF PeerMoves, Socket
  <2> QED BY <2>1, <2>2, Zenon
<1>7. PICK m : /\ PeerMoves(n, m) /\ net' = [net EXCEPT ![Trader] = m] /\ m.written = n.written
               /\ UNCHANGED serverVars
  <2>1. CASE tcpConnect
    BY <1>2, <2>1, Zenon DEF tcpConnect, connect
  <2>2. CASE tlsConnect
    BY <1>2, <1>3, <2>2 DEF tlsConnect, connect, shake
  <2>3. CASE connectFails
    BY <1>5, <2>3, Zenon DEF connectFails
  <2>4. CASE finish
    BY <1>6, <2>4, Zenon DEF finish, vars, serverVars
  <2>5. CASE receive
    BY <1>4, <1>6, <2>5 DEF receive, take, vars, serverVars
  <2>6. CASE close
    BY <1>5, <2>6, Zenon DEF close
  <2> QED BY <2>1, <2>2, <2>3, <2>4, <2>5, <2>6, Zenon
<1>8. UNCHANGED <<sent, sentUnits, nextUserRefNum_, position, broken>>
  BY DEF tcpConnect, tlsConnect, connectFails, finish, receive, close
<1>9. step' \in Steps /\ (step' = step \/ step' = "done" \/ {step, step'} \cap {"sending", "sent", "done"} = {})
  BY DEF tcpConnect, tlsConnect, connectFails, finish, receive, close, Steps, EntryInv, EntryTypeOK
<1> QED
  BY <1>0, <1>7, <1>8, <1>9, IdleKeepsEntry, Zenon

\* Gateway::submit: the check allows for the order before it is sent.
LEMMA SubmitKeepsEntry ==
    ASSUME EntryInv, NEW i \in Intents, submit(i) PROVE EntryInv'
<1>0. /\ step = "ready" /\ step' = "sending" /\ sentUnits' = 0 /\ UNCHANGED <<vars, position, broken>>
      /\ nextUserRefNum_' = nextUserRefNum_ + 1 /\ sent' = Append(sent, EnterOrder(i)) /\ check(i)
  BY DEF submit
<1>1. EntryTypeOK /\ Counted("ready", sent, position) /\ ServerInv
  BY <1>0 DEF EntryInv
<1>2. PICK o \in Order : o = EnterOrder(i) /\ Signed(o) = Signed(i)
  <2>1. /\ i.side \in {"Buy", "Sell"} /\ i.price \in Prices /\ i.quantity \in Quantities
        /\ nextUserRefNum_ \in Nat
    BY <1>1 DEF Intents, EntryTypeOK
  <2>2. PICK o : o = [userRefNum |-> nextUserRefNum_, side |-> i.side, price |-> i.price,
                      quantity |-> i.quantity]
    BY Zenon
  <2>3. o \in Order /\ o.side = i.side /\ o.quantity = i.quantity
    BY <2>1, <2>2 DEF Order
  <2>4. Signed(o) = Signed(i)
    BY <2>3 DEF Signed
  <2> QED BY <2>2, <2>3, <2>4 DEF EnterOrder
<1>3. Abs(position + Signed(o)) <= MaxPosition
  BY <1>0, <1>2 DEF check
<1>4. /\ sent' \in Seq(Order) /\ Len(sent') = Len(sent) + 1 /\ Len(sent) \in Nat
  BY <1>0, <1>1, <1>2 DEF EntryTypeOK
<1>5. Counted("sending", sent', position)
  BY <1>0, <1>1, <1>2, <1>3, SubmitCounts DEF EntryTypeOK
<1>6. EntryTypeOK'
  BY <1>0, <1>1, <1>4 DEF EntryTypeOK, Steps
<1>7. ServerInv'
  BY <1>0, <1>1, StutterKeepsInv
<1>8. net' = net /\ processed' = processed
  BY <1>0 DEF vars
<1>9. CASE broken
  <2>1. net[Trader].conn = "closed" /\ Behind("ready", sent, processed[Trader])
    BY <1>0, <1>9, Zenon DEF EntryInv
  <2>2. Behind("sending", sent', processed[Trader])
    BY <1>4, <2>1 DEF Behind
  <2> QED BY <1>0, <1>5, <1>6, <1>7, <1>8, <1>9, <2>1, <2>2, Zenon DEF EntryInv
<1>10. CASE ~broken
  <2>1. net[Trader].written = Len(sent) * FrameSize
    BY <1>0, <1>10, Zenon DEF EntryInv, Written
  <2>2. Len(sent') - 1 = Len(sent) /\ FrameSize \in Nat /\ 0 < FrameSize /\ Len(sent) * FrameSize \in Nat
    BY <1>4, ServerAssumption
  <2>3. net[Trader].written = (Len(sent') - 1) * FrameSize + 0
    BY <2>1, <2>2
  <2>4. Written("sending", sent', 0, net[Trader].written)
    BY <2>2, <2>3 DEF Written
  <2> QED BY <1>0, <1>5, <1>6, <1>7, <1>8, <1>10, <2>4, Zenon DEF EntryInv
<1> QED BY <1>1, <1>9, <1>10 DEF EntryTypeOK

\* One more unit of the order is on the socket.
LEMMA PutKeepsEntry ==
    ASSUME EntryInv, Put PROVE EntryInv'
<1>0. PICK n \in Socket : n = net[Trader] /\ n.taken <= Len(n.delivered)
  BY OfTrader
<1>1. PICK w \in Nat : w = n.written + 1 /\ w >= n.written
  <2>1. n.written \in Nat
    BY DEF Socket
  <2>2. n.written + 1 \in Nat /\ n.written + 1 >= n.written
    BY ONLY <2>1
  <2> QED BY ONLY <2>2
<1>2. PICK m : m = [n EXCEPT !.written = w]
  BY Zenon
<1>3. PeerMoves(n, m) /\ m.written = w
  <2>1. PeerMoves(n, [n EXCEPT !.written = w])
    BY <1>0, <1>1, PeerUpdates, Zenon
  <2> QED BY <1>2, <2>1 DEF Socket
<1>4. /\ step = "sending" /\ ~broken /\ net' = [net EXCEPT ![Trader] = m]
      /\ sentUnits' = sentUnits + 1 /\ step' = (IF sentUnits' = FrameSize THEN "sent" ELSE step)
      /\ UNCHANGED <<serverVars, sent, nextUserRefNum_, position, broken>>
  BY <1>0, <1>1, <1>2 DEF Put
<1>5. ServerInv' /\ net'[Trader] = m
  BY <1>0, <1>3, <1>4, TraderMove, Zenon
<1>6. EntryTypeOK /\ Counted("sending", sent, position) /\ sent # <<>>
  BY <1>4 DEF EntryInv, Counted
<1>7. EntryTypeOK'
  BY <1>4, <1>6 DEF EntryTypeOK, Steps
<1>8. Counted(step', sent', position')
  BY <1>4, <1>6 DEF Counted, InFlight
<1>9. Written("sending", sent, sentUnits, n.written)
  BY <1>0, <1>4, Zenon DEF EntryInv
<1>10. Written(step', sent, sentUnits', w)
  <2>1. PICK k \in Nat, C \in Nat \ {0} : k = Len(sent) - 1 /\ Len(sent) = k + 1 /\ C = FrameSize
    BY <1>6, ServerAssumption DEF EntryTypeOK
  <2>2. sentUnits < C /\ n.written = k * C + sentUnits /\ sentUnits \in Nat
    BY <1>6, <1>9, <2>1 DEF Written, EntryTypeOK
  <2>3. k * C \in Nat /\ (k + 1) * C = k * C + C
    OBVIOUS
  <2>4. w = k * C + sentUnits'
    BY <1>1, <1>4, <2>2, <2>3
  <2>5. CASE sentUnits' = C
    <3>1. w = (k + 1) * C
      BY <2>3, <2>4, <2>5
    <3>2. step' = "sent"
      BY <1>4, <2>1, <2>5
    <3> QED BY <2>1, <3>1, <3>2 DEF Written
  <2>6. CASE sentUnits' # C
    <3>1. sentUnits' < C
      BY <1>4, <2>2, <2>6
    <3>2. step' = "sending"
      BY <1>4, <2>1, <2>6
    <3> QED BY <2>1, <2>4, <3>1, <3>2 DEF Written
  <2> QED BY <2>5, <2>6
<1> QED
  BY <1>3, <1>4, <1>5, <1>7, <1>8, <1>10, Zenon DEF EntryInv

\* A send that fails: the connection is closed, and the exchange has not seen the
\* whole order.
LEMMA FailKeepsEntry ==
    ASSUME EntryInv, sendFails PROVE EntryInv'
<1>0. /\ step = "sending" /\ step' = "ready" /\ broken' = TRUE
      /\ sent' = SubSeq(sent, 1, Len(sent) - 1)
      /\ UNCHANGED <<vars, sentUnits, nextUserRefNum_, position>>
      /\ broken \/ net[Trader].conn = "closed"
  BY DEF sendFails
<1>1. EntryTypeOK /\ Counted("sending", sent, position) /\ ServerInv
  BY <1>0 DEF EntryInv
<1>2. sent' \in Seq(Order) /\ Len(sent') = Len(sent) - 1 /\ Counted("ready", sent', position)
  BY <1>0, <1>1, FailCounts DEF EntryTypeOK
<1>3. EntryTypeOK'
  BY <1>0, <1>1, <1>2 DEF EntryTypeOK, Steps
<1>4. ServerInv' /\ net' = net /\ processed' = processed
  BY <1>0, <1>1, StutterKeepsInv DEF vars
<1>5. net[Trader].conn = "closed"
  BY <1>0, Zenon DEF EntryInv
<1>6. Behind("ready", sent', processed[Trader])
  <2>1. Behind("sending", sent, processed[Trader]) /\ processed[Trader] \in Nat
    BY <1>0, OfTrader
  <2>2. Len(sent) \in Nat
    BY <1>1 DEF EntryTypeOK
  <2> QED BY <1>2, <2>1, <2>2 DEF Behind
<1> QED
  BY <1>0, <1>2, <1>3, <1>4, <1>5, <1>6, Zenon DEF EntryInv

\* RiskManager::onAccepted adds the order that was sent.
LEMMA AcceptedKeepsEntry ==
    ASSUME EntryInv, onAccepted PROVE EntryInv'
<1>0. /\ step = "sent" /\ step' = "ready" /\ position' = position + Signed(sent[Len(sent)])
      /\ UNCHANGED <<vars, sent, sentUnits, nextUserRefNum_, broken>>
  BY DEF onAccepted
<1>1. EntryTypeOK /\ Counted("sent", sent, position) /\ ServerInv
  BY <1>0, Zenon DEF EntryInv
<1>2. position' \in Int /\ Counted("ready", sent, position')
  BY <1>0, <1>1, SentCounts DEF EntryTypeOK
<1>3. EntryTypeOK'
  BY <1>0, <1>1, <1>2 DEF EntryTypeOK, Steps
<1>4. ServerInv' /\ net' = net /\ processed' = processed
  BY <1>0, <1>1, StutterKeepsInv DEF vars
<1>5. IF broken THEN net[Trader].conn = "closed" /\ Behind("ready", sent, processed[Trader])
      ELSE Written("ready", sent, sentUnits, net[Trader].written)
  BY <1>0 DEF EntryInv, Behind, Written
<1> QED
  BY <1>0, <1>2, <1>3, <1>4, <1>5, Zenon DEF EntryInv

-----------------------------------------------------------------------------
(* OrderEntry: the theorems *)

LEMMA InitEntryInv ==
    ASSUME EntryInit PROVE EntryInv
<1>1. ServerInv /\ net[Trader].written = 0
  BY InitServerInv, OrderEntryAssumption DEF EntryInit, Init, NewSocket
<1>2. EntryTypeOK
  <2>1. sent \in Seq(Order)
    <3>1. <<>> \in Seq(Order)
      OBVIOUS
    <3> QED BY <3>1 DEF EntryInit
  <2>2. step \in Steps /\ sentUnits \in Nat /\ nextUserRefNum_ \in Nat /\ position \in Int
    BY DEF EntryInit, Steps
  <2>3. broken \in BOOLEAN
    BY Zenon DEF EntryInit
  <2> QED BY <2>1, <2>2, <2>3 DEF EntryTypeOK
<1>3. Len(sent) = 0 /\ 0 * FrameSize = 0 /\ MaxPosition \in Nat
  BY ServerAssumption, OrderEntryAssumption DEF EntryInit
<1>4. Written(step, sent, sentUnits, net[Trader].written)
  BY <1>1, <1>3 DEF EntryInit, Written
<1>5. Counted(step, sent, position)
  <2>1. NetQuantity(sent, 0) = 0 /\ Abs(0) = 0
    BY NetOfNone DEF Abs
  <2>2. \A n \in 0 .. Len(sent) : n = 0
    BY <1>3
  <2>3. Len(sent) - InFlight(step) = 0
    BY <1>3 DEF EntryInit, InFlight
  <2> QED BY <1>3, <2>1, <2>2, <2>3 DEF EntryInit, Counted
<1> QED
  BY <1>1, <1>2, <1>4, <1>5 DEF EntryInit, EntryInv

LEMMA StutterKeepsEntry ==
    ASSUME EntryInv, UNCHANGED allVars PROVE EntryInv'
<1>1. ServerInv'
  BY StutterKeepsInv DEF EntryInv, allVars
<1>2. UNCHANGED <<step, sent, sentUnits, nextUserRefNum_, position, broken, net, processed>>
  BY DEF allVars, traderVars, vars
<1> QED
  BY <1>1, <1>2, Zenon DEF EntryInv, EntryTypeOK

\* What the runtime has sent, what is on the socket and what the exchange has
\* processed stay in step, across failing sends and closed connections.
THEOREM EntryInvariant == EntrySpec => []EntryInv
<1>1. EntryInit => EntryInv
  BY InitEntryInv
<1>2. EntryInv /\ [EntryNext]_allVars => EntryInv'
  BY CallsKeepEntry, SubmitKeepsEntry, PutKeepsEntry, FailKeepsEntry, AcceptedKeepsEntry,
     ServerKeepsEntry, StutterKeepsEntry
     DEF EntryNext, Trading, ServerStep, consume, tcpSend, tlsSend
<1> QED
  BY <1>1, <1>2, PTL DEF EntrySpec

\* Gateway::submit and RiskManager: the position is that of the orders sent, and
\* the exchange is never more than the order whose send has just returned ahead.
THEOREM PositionCovers == EntrySpec => []PositionCoversExchange
<1>1. EntryInv => PositionCoversExchange
  BY OfTrader DEF EntryInv, Counted, InFlight, Behind, PositionCoversExchange, Exposure
<1> QED
  BY <1>1, EntryInvariant, PTL

\* RiskManager::check: whatever prefix of the orders the exchange has processed,
\* its net quantity is within MaxPosition.
THEOREM ExposureStaysWithinLimit == EntrySpec => []ExposureWithinLimit
<1>1. EntryInv => ExposureWithinLimit
  <2> SUFFICES ASSUME EntryInv PROVE Abs(NetQuantity(sent, processed[Trader])) <= MaxPosition
    BY DEF ExposureWithinLimit, Exposure
  <2>1. Behind(step, sent, processed[Trader]) /\ processed[Trader] \in Nat
    BY OfTrader
  <2>2. Len(sent) \in Nat
    BY DEF EntryInv, EntryTypeOK
  <2>3. processed[Trader] \in 0 .. Len(sent)
    BY <2>1, <2>2 DEF Behind
  <2> QED BY <2>3 DEF EntryInv, Counted
<1> QED
  BY <1>1, EntryInvariant, PTL
=============================================================================
