------------------------------- MODULE UDPRelay -------------------------------
(***************************************************************************)
(* UDP forwarding over tunnel carriers (udp.go).  At the server one        *)
(* listener goroutine per port looks up, or opens, a session for the       *)
(* source address of each datagram; a reader goroutine per session sends   *)
(* the replies back, and a reaper ends idle sessions.  At the client,      *)
(* handleUDPCarrier runs one loop per direction between the carrier and    *)
(* the socket of the target.                                               *)
(*                                                                         *)
(* A session is named by its carrier, which is never used twice.  Time is  *)
(* abstract: a session nobody touches may become idle at any moment.       *)
(***************************************************************************)
EXTENDS Integers

CONSTANTS Sources, Carriers, NoCarrier, NoSource,
          Window      \* datagrams a carrier holds in one direction

VARIABLES
  listener,   \* the listener goroutine's step
  from,       \* the source of the datagram in its hands
  sess,       \* the session it uses for that datagram
  sessions,   \* [Sources -> Carriers \cup {NoCarrier}]
  replyTo,    \* [Carriers -> Sources \cup {NoSource}], the reader's argument
  idle,       \* mapped sessions whose lastActive is udpIdleTimeout old
  srvClosed,  \* carriers closed at the server's end
  released,   \* [Carriers -> Nat], calls of release
  reader,     \* [Carriers -> ReaderPC]
  outbound,   \* [Carriers -> 0..Window], datagrams on their way to the client
  inbound,    \* [Carriers -> 0..Window], replies on their way to the server
  cliClosed,  \* carriers closed at the client's end
  localClosed,\* carriers whose target socket is closed
  down,       \* [Carriers -> DownPC], the client's loop carrier -> target
  up          \* [Carriers -> UpPC], the client's loop target -> carrier

srv == <<listener, from, sess, sessions, replyTo, idle, srvClosed, released, reader>>
cli == <<cliClosed, localClosed, down, up>>
vars == <<srv, outbound, inbound, cli>>

ListenerPC == {"read", "obtain", "announce", "insert", "touch", "write"}
ReaderPC == {"none", "read", "forget", "close", "gone"}
DownPC == {"none", "run", "wait", "ended"}
UpPC == {"none", "run", "ended"}

Unused(c) == replyTo[c] = NoSource
Broken(c) == c \in srvClosed \cup cliClosed

Init ==
  /\ listener = "read" /\ from = NoSource /\ sess = NoCarrier
  /\ sessions = [k \in Sources |-> NoCarrier]
  /\ replyTo = [c \in Carriers |-> NoSource]
  /\ idle = {} /\ srvClosed = {}
  /\ released = [c \in Carriers |-> 0]
  /\ reader = [c \in Carriers |-> "none"]
  /\ outbound = [c \in Carriers |-> 0] /\ inbound = [c \in Carriers |-> 0]
  /\ cliClosed = {} /\ localClosed = {}
  /\ down = [c \in Carriers |-> "none"] /\ up = [c \in Carriers |-> "none"]

-------------------------------------------------------------------------------
(* The server's listener goroutine.                                        *)

\* ReadFrom, and the lookup under mu.
Receive(k) ==
  /\ listener = "read"
  /\ from' = k /\ sess' = sessions[k]
  /\ listener' = IF sessions[k] = NoCarrier THEN "obtain" ELSE "touch"
  /\ UNCHANGED <<sessions, replyTo, idle, srvClosed, released, reader, outbound, inbound, cli>>

NextDatagram == listener' = "read" /\ from' = NoSource /\ sess' = NoCarrier

\* obtainCarrier gives a carrier, or the datagram is dropped.
Obtain ==
  /\ listener = "obtain"
  /\ \/ \E c \in Carriers : /\ Unused(c)
                            /\ sess' = c /\ listener' = "announce" /\ from' = from
                            /\ replyTo' = [replyTo EXCEPT ![c] = from]
     \/ NextDatagram /\ UNCHANGED replyTo
  /\ UNCHANGED <<sessions, idle, srvClosed, released, reader, outbound, inbound, cli>>

\* Mutant of the next action: a carrier that fails here is not released.
AnnounceLeaks ==
  /\ listener = "announce"
  /\ \/ ~Broken(sess) /\ listener' = "insert" /\ UNCHANGED <<from, sess, srvClosed, released>>
     \/ /\ NextDatagram
        /\ srvClosed' = srvClosed \cup {sess}
        /\ UNCHANGED released
  /\ UNCHANGED <<sessions, replyTo, idle, reader, outbound, inbound, cli>>

\* writeString of the target; an error closes and releases the carrier.
Announce ==
  /\ listener = "announce"
  /\ \/ ~Broken(sess) /\ listener' = "insert" /\ UNCHANGED <<from, sess, srvClosed, released>>
     \/ /\ NextDatagram
        /\ srvClosed' = srvClosed \cup {sess}
        /\ released' = [released EXCEPT ![sess] = @ + 1]
  /\ UNCHANGED <<sessions, replyTo, idle, reader, outbound, inbound, cli>>

\* The session enters the map and its reader starts.
Insert ==
  /\ listener = "insert"
  /\ listener' = "touch"
  /\ sessions' = [sessions EXCEPT ![from] = sess]
  /\ reader' = [reader EXCEPT ![sess] = "read"]
  /\ UNCHANGED <<from, sess, replyTo, idle, srvClosed, released, outbound, inbound, cli>>

\* lastActive = now, outside mu: the session may have left the map.
Touch ==
  /\ listener = "touch"
  /\ listener' = "write" /\ idle' = idle \ {sess}
  /\ UNCHANGED <<from, sess, sessions, replyTo, srvClosed, released, reader, outbound, inbound, cli>>

\* writeDatagram blocks while the carrier is full; a broken one drops it.
Write ==
  /\ listener = "write"
  /\ Broken(sess) \/ outbound[sess] < Window
  /\ NextDatagram
  /\ outbound' = IF Broken(sess) THEN outbound ELSE [outbound EXCEPT ![sess] = @ + 1]
  /\ UNCHANGED <<sessions, replyTo, idle, srvClosed, released, reader, inbound, cli>>

Listen == Obtain \/ Announce \/ Insert \/ Touch \/ Write

-------------------------------------------------------------------------------
(* The reaper, and the reader of a session.                                *)

Ages(c) ==
  /\ c \notin idle /\ \E k \in Sources : sessions[k] = c
  /\ idle' = idle \cup {c}
  /\ UNCHANGED <<listener, from, sess, sessions, replyTo, srvClosed, released, reader,
                 outbound, inbound, cli>>

\* A tick of the reaper, under mu: forget, close and release the idle ones.
Reap ==
  LET dead == {sessions[k] : k \in Sources} \cap idle
  IN /\ dead # {}
     /\ sessions' = [k \in Sources |-> IF sessions[k] \in dead THEN NoCarrier ELSE sessions[k]]
     /\ srvClosed' = srvClosed \cup dead
     /\ released' = [c \in Carriers |-> released[c] + IF c \in dead THEN 1 ELSE 0]
     /\ idle' = idle \ dead
     /\ UNCHANGED <<listener, from, sess, replyTo, reader, outbound, inbound, cli>>

\* readDatagram returns a reply: touch the session and send it to the user.
ReaderReply(c) ==
  /\ reader[c] = "read" /\ c \notin srvClosed /\ inbound[c] > 0
  /\ inbound' = [inbound EXCEPT ![c] = @ - 1]
  /\ idle' = idle \ {c}
  /\ UNCHANGED <<listener, from, sess, sessions, replyTo, srvClosed, released, reader,
                 outbound, cli>>

\* readDatagram fails: the carrier was closed here or, all replies read, there.
ReaderFails(c) ==
  /\ reader[c] = "read"
  /\ c \in srvClosed \/ (c \in cliClosed /\ inbound[c] = 0)
  /\ reader' = [reader EXCEPT ![c] = "forget"]
  /\ UNCHANGED <<listener, from, sess, sessions, replyTo, idle, srvClosed, released,
                 outbound, inbound, cli>>

\* Mutant of the next action: whatever the map has for the source is deleted.
ForgetsAny(c) ==
  /\ reader[c] = "forget"
  /\ reader' = [reader EXCEPT ![c] = "close"]
  /\ sessions' = [sessions EXCEPT ![replyTo[c]] = NoCarrier]
  /\ idle' = idle \ {c}
  /\ UNCHANGED <<listener, from, sess, replyTo, srvClosed, released, outbound, inbound, cli>>

\* The deferred function deletes the session if it is still in the map ...
ReaderForgets(c) ==
  /\ reader[c] = "forget"
  /\ reader' = [reader EXCEPT ![c] = "close"]
  /\ sessions' = [k \in Sources |-> IF sessions[k] = c THEN NoCarrier ELSE sessions[k]]
  /\ idle' = idle \ {c}
  /\ UNCHANGED <<listener, from, sess, replyTo, srvClosed, released, outbound, inbound, cli>>

\* ... then closes the carrier, with what nobody will read, and releases it.
ReaderReleases(c) ==
  /\ reader[c] = "close"
  /\ reader' = [reader EXCEPT ![c] = "gone"]
  /\ srvClosed' = srvClosed \cup {c}
  /\ released' = [released EXCEPT ![c] = @ + 1]
  /\ inbound' = [inbound EXCEPT ![c] = 0]
  /\ UNCHANGED <<listener, from, sess, sessions, replyTo, idle, outbound, cli>>

Read(c) == ReaderReply(c) \/ ReaderFails(c) \/ ReaderForgets(c) \/ ReaderReleases(c)

-------------------------------------------------------------------------------
(* The client: handleUDPCarrier.                                           *)

\* The target was announced: its socket is opened, or the carrier closed.
Start(c) ==
  /\ down[c] = "none" /\ c \notin cliClosed
  /\ reader[c] # "none" \/ (sess = c /\ listener = "insert")
  /\ \/ /\ down' = [down EXCEPT ![c] = "run"] /\ up' = [up EXCEPT ![c] = "run"]
        /\ UNCHANGED cliClosed
     \/ /\ down' = [down EXCEPT ![c] = "ended"] /\ up' = [up EXCEPT ![c] = "ended"]
        /\ cliClosed' = cliClosed \cup {c}
  /\ UNCHANGED <<srv, outbound, inbound, localClosed>>

\* The tunnel under the carrier fails, which one end or the other notices; at the
\* server the generation's teardown may have closed it.
Breaks(c) ==
  /\ ~Unused(c) /\ ~Broken(c)
  /\ \/ cliClosed' = cliClosed \cup {c} /\ UNCHANGED srvClosed
     \/ srvClosed' = srvClosed \cup {c} /\ UNCHANGED cliClosed
  /\ UNCHANGED <<listener, from, sess, sessions, replyTo, idle, released, reader,
                 outbound, inbound, localClosed, down, up>>

\* A datagram of the carrier is written to the target; a write error, such as a
\* refusal the socket reports from an earlier datagram, ends the loop.
DownRelay(c) ==
  /\ down[c] = "run" /\ c \notin cliClosed /\ outbound[c] > 0
  /\ outbound' = [outbound EXCEPT ![c] = @ - 1]
  /\ \/ c \notin localClosed /\ UNCHANGED down
     \/ down' = [down EXCEPT ![c] = "wait"]
  /\ UNCHANGED <<srv, inbound, cliClosed, localClosed, up>>

\* readDatagram fails, on a closed carrier or at its deadline: close the socket.
DownFails(c) ==
  /\ down[c] = "run"
  /\ c \in cliClosed \/ outbound[c] = 0
  /\ down' = [down EXCEPT ![c] = "wait"]
  /\ localClosed' = localClosed \cup {c}
  /\ UNCHANGED <<srv, outbound, inbound, cliClosed, up>>

\* <-done, and the deferred closes.
DownReturns(c) ==
  /\ down[c] = "wait" /\ up[c] = "ended"
  /\ down' = [down EXCEPT ![c] = "ended"]
  /\ cliClosed' = cliClosed \cup {c} /\ localClosed' = localClosed \cup {c}
  /\ outbound' = [outbound EXCEPT ![c] = 0]
  /\ UNCHANGED <<srv, inbound, up>>

\* The target answers: one frame to the carrier, and a write error ends the loop.
UpRelay(c) ==
  /\ up[c] = "run" /\ c \notin localClosed
  /\ \/ /\ ~Broken(c) /\ inbound[c] < Window
        /\ inbound' = [inbound EXCEPT ![c] = @ + 1] /\ UNCHANGED up
     \/ Broken(c) /\ up' = [up EXCEPT ![c] = "ended"] /\ UNCHANGED inbound
  /\ UNCHANGED <<srv, outbound, cliClosed, localClosed, down>>

\* Read fails, on a closed socket or at its deadline: close the carrier.
UpFails(c) ==
  /\ up[c] = "run"
  /\ up' = [up EXCEPT ![c] = "ended"] /\ cliClosed' = cliClosed \cup {c}
  /\ UNCHANGED <<srv, outbound, inbound, localClosed, down>>

Down(c) == DownRelay(c) \/ DownFails(c) \/ DownReturns(c)
Up(c) == UpRelay(c) \/ UpFails(c)

-------------------------------------------------------------------------------
Next ==
  \/ \E k \in Sources : Receive(k)
  \/ Listen \/ Reap
  \/ \E c \in Carriers : Ages(c) \/ Read(c) \/ Start(c) \/ Breaks(c) \/ Down(c) \/ Up(c)

Spec == Init /\ [][Next]_vars

\* Goroutines run; deadlines fire when no datagram comes, so that a loop moves
\* by the one or the other.
Fairness ==
  /\ WF_vars(Listen)
  /\ \A c \in Carriers : WF_vars(Read(c)) /\ WF_vars(Down(c)) /\ WF_vars(Up(c))

FairSpec == Spec /\ Fairness

-------------------------------------------------------------------------------
(* Properties.                                                             *)

\* The types of the variables; the windows hold.
TypeOK ==
  /\ listener \in ListenerPC /\ from \in Sources \cup {NoSource}
  /\ sess \in Carriers \cup {NoCarrier}
  /\ sessions \in [Sources -> Carriers \cup {NoCarrier}]
  /\ replyTo \in [Carriers -> Sources \cup {NoSource}]
  /\ idle \cup srvClosed \cup cliClosed \cup localClosed \subseteq Carriers
  /\ released \in [Carriers -> 0..2] /\ reader \in [Carriers -> ReaderPC]
  /\ outbound \in [Carriers -> 0..Window] /\ inbound \in [Carriers -> 0..Window]
  /\ down \in [Carriers -> DownPC] /\ up \in [Carriers -> UpPC]

\* The map and the readers agree, although listener, reaper and readers change
\* them apart: a mapped session has a reader that will still clean it up, and a
\* session in service is the one mapped for its source.
MapMatchesReaders ==
  /\ \A k \in Sources :
       sessions[k] # NoCarrier =>
         replyTo[sessions[k]] = k /\ reader[sessions[k]] \in {"read", "forget"}
  /\ \A c \in Carriers :
       reader[c] = "read" /\ c \notin srvClosed => sessions[replyTo[c]] = c

\* No tunnel capacity is lost: a carrier that is not released is with the
\* listener or has a reader that will release it.
NoCarrierLost ==
  \A c \in Carriers :
    ~Unused(c) /\ released[c] = 0 =>
      \/ sess = c /\ listener \in {"announce", "insert"}
      \/ reader[c] \in {"read", "forget", "close"}

\* The carrier of a broken session is given back.
SlotReturned ==
  \A c \in Carriers : (reader[c] # "none" /\ Broken(c)) ~> released[c] > 0

\* When the target goes quiet the client's relay ends, whatever the server
\* still sends: the socket and the carrier are not leaked.
QuietRelayEnds == \A c \in Carriers : up[c] = "ended" ~> down[c] = "ended"

-------------------------------------------------------------------------------
(* What the comments say, and the code does not do.                        *)

\* server.go:448: "release must be called exactly once when the caller is done
\* with the carrier".
ReleasedOnce == \A c \in Carriers : released[c] <= 1

\* udp.go:152: the client will "relay datagrams in both directions for as long
\* as either side keeps sending them".
RelaysBothWays ==
  [][\A c \in Carriers : inbound'[c] > inbound[c] => down[c] = "run"]_vars
===============================================================================
