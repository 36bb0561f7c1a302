-------------------------------- MODULE Accept --------------------------------
(***************************************************************************)
(* How the server takes tunnel connections: one disguised listener         *)
(* (disguise.go and a file per disguise), the loop of server.go that calls *)
(* its Accept, and the handshake of protocol.go each connection then goes  *)
(* through in a goroutine of its own.                                      *)
(*                                                                         *)
(* A peer is one connection.  It sends its messages in order: the greeting *)
(* of the disguise (the first Noise message, the WebSocket upgrade, the    *)
(* first QUIC stream), the header, the answer to the challenge.  A peer    *)
(* may stop sending at any point, and may close.                           *)
(***************************************************************************)
EXTENDS Naturals, Sequences, SequencesExt

CONSTANTS Peers,
          Strangers,  \* the peers that do not have the token
          Room,       \* capacity of connCh
          NoPeer

VARIABLES
  kind,    \* the disguise of the listener
  at,      \* [Peers -> Place], where the connection is
  said,    \* [Peers -> 0..3], messages it has sent
  gone,    \* peers that have closed
  pending, \* connections the operating system or the library has ready
  connCh,  \* accepter.connCh (wss, quic)
  loop,    \* acceptLoop: "accept", "greeting" (Noise), "returned"
  hand,    \* the peer whose Noise handshake Accept is in
  down,    \* the server's context is cancelled
  closed   \* the accepter is closed

vars == <<kind, at, said, gone, pending, connCh, loop, hand, down, closed>>

Kinds == {"plain", "kcp", "noise", "wss", "quic"}
Place == {"away", "pending", "greeting", "offer", "queued", "admit", "served", "closed"}

\* Accepters that collect in connCh what their own goroutines have greeted.
Collects == kind \in {"wss", "quic"}
\* Messages of a peer; the first QUIC stream comes with the header.
Messages == IF kind \in {"noise", "wss"} THEN 3 ELSE 2

Init ==
  /\ kind \in Kinds
  /\ at = [c \in Peers |-> "away"] /\ said = [c \in Peers |-> 0]
  /\ gone = {} /\ pending = <<>> /\ connCh = <<>>
  /\ loop = "accept" /\ hand = NoPeer
  /\ down = FALSE /\ closed = FALSE

Move(c, place) == at' = [at EXCEPT ![c] = place]

-------------------------------------------------------------------------------
(* The peers.                                                              *)

Arrive(c) ==
  /\ at[c] = "away" /\ ~closed
  /\ Move(c, "pending") /\ pending' = Append(pending, c)
  /\ UNCHANGED <<kind, said, gone, connCh, loop, hand, down, closed>>

\* What follows the first message answers the server.
Speak(c) ==
  /\ c \notin gone /\ said[c] < Messages
  /\ at[c] = "admit" \/ (said[c] = 0 /\ at[c] \in {"pending", "greeting"})
  /\ said' = [said EXCEPT ![c] = @ + 1]
  /\ UNCHANGED <<kind, at, gone, pending, connCh, loop, hand, down, closed>>

\* The dialer's deadline or context, or the link.
Leave(c) ==
  /\ at[c] \notin {"away", "served", "closed"} /\ c \notin gone
  /\ gone' = gone \cup {c}
  /\ UNCHANGED <<kind, at, said, pending, connCh, loop, hand, down, closed>>

-------------------------------------------------------------------------------
(* acceptLoop and the Accept of each disguise.                             *)

Admit(c) == Move(c, "admit")

\* plain, kcp: the next connection is handed over as it is.
AcceptReady ==
  /\ loop = "accept" /\ kind \in {"plain", "kcp"} /\ pending # <<>> /\ ~closed
  /\ Admit(Head(pending)) /\ pending' = Tail(pending)
  /\ UNCHANGED <<kind, said, gone, connCh, loop, hand, down, closed>>

\* noise: Accept goes on to shake hands with it.
AcceptNoise ==
  /\ loop = "accept" /\ kind = "noise" /\ pending # <<>> /\ ~closed
  /\ Move(Head(pending), "greeting") /\ hand' = Head(pending)
  /\ loop' = "greeting" /\ pending' = Tail(pending)
  /\ UNCHANGED <<kind, said, gone, connCh, down, closed>>

NextPeer == loop' = "accept" /\ hand' = NoPeer

\* The first message authenticates, and the connection is handed over.
NoiseGreets ==
  /\ loop = "greeting" /\ said[hand] > 0 /\ hand \notin Strangers
  /\ Admit(hand) /\ NextPeer
  /\ UNCHANGED <<kind, said, gone, pending, connCh, down, closed>>

\* It does not authenticate, or noiseHandshakeTimeout passes, or it closes.
NoiseFails ==
  /\ loop = "greeting" /\ (hand \in Strangers \cup gone \/ said[hand] = 0)
  /\ Move(hand, "closed") /\ NextPeer
  /\ UNCHANGED <<kind, said, gone, pending, connCh, down, closed>>

\* wss, quic: the next collected connection; select takes it or the closing.
AcceptCollected ==
  /\ loop = "accept" /\ Collects /\ connCh # <<>>
  /\ Admit(Head(connCh)) /\ connCh' = Tail(connCh)
  /\ UNCHANGED <<kind, said, gone, pending, loop, hand, down, closed>>

\* Mutant of the next action: quic, too, only waits for connCh.
AcceptFailsIfTCP ==
  /\ loop = "accept" /\ closed /\ ~Collects
  /\ loop' = "returned"
  /\ UNCHANGED <<kind, at, said, gone, pending, connCh, hand, down, closed>>

\* Accept fails on a closed accepter, the context is cancelled: the loop ends.
\* wss: nobody closes connCh, and Accept waits there for ever.
AcceptFails ==
  /\ loop = "accept" /\ closed /\ kind # "wss"
  /\ loop' = "returned"
  /\ UNCHANGED <<kind, at, said, gone, pending, connCh, hand, down, closed>>

Loop ==
  \/ AcceptReady \/ AcceptNoise \/ NoiseGreets \/ NoiseFails
  \/ AcceptCollected \/ AcceptFails

-------------------------------------------------------------------------------
(* The goroutines of wss and quic, one per connection.                     *)

\* Mutant of the next action: acceptConnections waits for the first stream
\* itself.
StartOneAtATime ==
  /\ Collects /\ pending # <<>> /\ ~closed
  /\ \A c \in Peers : at[c] \notin {"greeting", "offer"}
  /\ Move(Head(pending), "greeting") /\ pending' = Tail(pending)
  /\ UNCHANGED <<kind, said, gone, connCh, loop, hand, down, closed>>

\* The HTTP server, or acceptConnections, starts one.
Start ==
  /\ Collects /\ pending # <<>> /\ ~closed
  /\ Move(Head(pending), "greeting") /\ pending' = Tail(pending)
  /\ UNCHANGED <<kind, said, gone, connCh, loop, hand, down, closed>>

\* Upgrade, or AcceptStream, returns.
Greeted(c) ==
  /\ Collects /\ at[c] = "greeting" /\ said[c] > 0
  /\ Move(c, "offer")
  /\ UNCHANGED <<kind, said, gone, pending, connCh, loop, hand, down, closed>>

\* It fails: the peer closed, or quic's context is cancelled.  No deadline.
GreetingFails(c) ==
  /\ Collects /\ at[c] = "greeting"
  /\ c \in gone \/ closed
  /\ Move(c, "closed")
  /\ UNCHANGED <<kind, said, gone, pending, connCh, loop, hand, down, closed>>

\* connCh <- conn.
Collect(c) ==
  /\ at[c] = "offer" /\ Len(connCh) < Room
  /\ Move(c, "queued") /\ connCh' = Append(connCh, c)
  /\ UNCHANGED <<kind, said, gone, pending, loop, hand, down, closed>>

\* wss has no room; quic waits for room, until it is closed.
TurnAway(c) ==
  /\ at[c] = "offer"
  /\ IF kind = "wss" THEN Len(connCh) = Room ELSE closed
  /\ Move(c, "closed")
  /\ UNCHANGED <<kind, said, gone, pending, connCh, loop, hand, down, closed>>

Greet(c) == Greeted(c) \/ GreetingFails(c)
Offer(c) == Collect(c) \/ TurnAway(c)

-------------------------------------------------------------------------------
(* admitTunnelConn: serverHandshake, in a goroutine per connection.        *)

Authenticated(c) ==
  /\ at[c] = "admit" /\ said[c] = Messages
  /\ Move(c, IF c \in Strangers THEN "closed" ELSE "served")
  /\ UNCHANGED <<kind, said, gone, pending, connCh, loop, hand, down, closed>>

\* handshakeTimeout, or the peer closes.
HandshakeFails(c) ==
  /\ at[c] = "admit" /\ said[c] < Messages
  /\ Move(c, "closed")
  /\ UNCHANGED <<kind, said, gone, pending, connCh, loop, hand, down, closed>>

Handshake(c) == Authenticated(c) \/ HandshakeFails(c)

-------------------------------------------------------------------------------
(* Run.                                                                    *)

\* SIGTERM.
Cancel ==
  /\ ~down
  /\ down' = TRUE
  /\ UNCHANGED <<kind, at, said, gone, pending, connCh, loop, hand, closed>>

\* <-ctx.Done(); acc.Close().  What was ready is reset; http.Server.Close also
\* closes the connections that are not upgraded yet.
Close ==
  /\ down /\ ~closed
  /\ closed' = TRUE /\ pending' = <<>>
  /\ at' = [c \in Peers |-> IF at[c] = "pending" \/ (kind = "wss" /\ at[c] = "greeting")
                              THEN "closed" ELSE at[c]]
  /\ UNCHANGED <<kind, said, gone, connCh, loop, hand, down>>

-------------------------------------------------------------------------------
Next ==
  \/ \E c \in Peers : \/ Arrive(c) \/ Speak(c) \/ Leave(c)
                      \/ Greet(c) \/ Offer(c) \/ Handshake(c)
  \/ Loop \/ Start \/ Cancel \/ Close

Spec == Init /\ [][Next]_vars

\* The server's goroutines run and its deadlines fire; nothing is asked of the
\* peers.  No goroutine has more than a few steps, so none starves under one
\* condition for all of them.
Serve == Loop \/ Start \/ Close \/ \E c \in Peers : Greet(c) \/ Offer(c) \/ Handshake(c)
Fairness == WF_vars(Serve)

FairSpec == Spec /\ Fairness

-------------------------------------------------------------------------------
(* Properties.                                                             *)

\* The types of the variables; each connection is where `at` says it is.
TypeOK ==
  /\ kind \in Kinds /\ at \in [Peers -> Place] /\ said \in [Peers -> 0..3]
  /\ gone \subseteq Peers /\ down \in BOOLEAN /\ closed \in BOOLEAN
  /\ ToSet(pending) = {c \in Peers : at[c] = "pending"}
  /\ ToSet(connCh) = {c \in Peers : at[c] = "queued"} /\ Len(connCh) <= Room
  /\ loop \in {"accept", "greeting", "returned"}
  /\ hand = NoPeer <=> loop # "greeting"

Waiting == {c \in Peers : at[c] \in {"pending", "greeting", "offer", "queued"}}

\* Connections that are owed an answer: under a disguise with a deadline all of
\* them, under the others those that have greeted.
Unresolved ==
  {c \in Peers : /\ at[c] \notin {"away", "served", "closed"}
                 /\ kind \in {"plain", "kcp", "noise"} \/ said[c] > 0}

\* A connection that has greeted is heard out, however many silent peers came
\* before it, and under the disguises with a deadline so is one that has not;
\* only a shutdown leaves one waiting.
Resolved == Unresolved # {} ~> Unresolved = {} \/ down

\* After a shutdown the loop returns, and with it Run, even when a peer is in
\* its Noise handshake; not so under wss, see ShutsDown.
LoopReturns == (down /\ kind # "wss") ~> loop = "returned"

-------------------------------------------------------------------------------
(* What the comments say, and the code does not do.                        *)

\* quicdisguise.go:83, "Accept() (the interface every disguise's listener
\* implements) must never block on one specific peer".
BlocksOnNoPeer ==
  ~(loop = "greeting" /\ said[hand] = 0 /\ \E c \in ToSet(pending) : said[c] > 0)

\* main.go:75, a server told to stop has "shut down cleanly".
ShutsDown == down ~> loop = "returned"

\* A peer that says nothing is dropped, as serverHandshake drops it, which
\* "never blocks past handshakeTimeout" (protocol.go:155): Upgrade and AcceptStream,
\* which wss and quic wait for before it, have no deadline.
SilentDropped == \A c \in Peers : c \in Waiting ~> (at[c] \in {"served", "closed"} \/ down)
===============================================================================
