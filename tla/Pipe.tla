--------------------------------- MODULE Pipe ---------------------------------
(***************************************************************************)
(* pipe.go at both boxes: one forwarded flow runs through two calls of     *)
(* Pipe, which share the carrier.                                          *)
(*                                                                         *)
(*      user -- server's Pipe -- carrier -- client's Pipe -- target        *)
(*                                                                         *)
(* Each Pipe copies direction "req", away from the user, and direction     *)
(* "rep", towards the user, in a goroutine of its own.  Data is a count of *)
(* chunks in flight on a link.                                             *)
(***************************************************************************)
EXTENDS Integers

CONSTANTS HalfCloses,  \* links whose connections have CloseWrite, of Links
          Window       \* chunks in flight on a link in one direction, positive

Pipes == {"server", "client"}
Dirs == {"req", "rep"}
Links == {"user", "carrier", "target"}

VARIABLES
  flow,    \* [Links \X Dirs -> 0..Window]
  fin,     \* pairs <<link, direction>> whose sender has half-closed
  gone,    \* the outer peers that closed or lost their connection
  copying, \* pairs <<pipe, direction>> whose copyDirection still runs
  main     \* [Pipes -> MainPC], where Pipe itself stands

vars == <<flow, fin, gone, copying, main>>

MainPC == {"first", "grace", "drain", "returned"}

Src(p, d) == IF p = "server" THEN (IF d = "req" THEN "user" ELSE "carrier")
                             ELSE (IF d = "req" THEN "carrier" ELSE "target")
Dst(p, d) == Src(p, IF d = "req" THEN "rep" ELSE "req")
Closed(p) == main[p] \in {"drain", "returned"}

\* One end of the link is closed.
Dead(l) == \/ l \in gone
           \/ l # "target" /\ Closed("server")
           \/ l # "user" /\ Closed("client")

Init ==
  /\ flow = [x \in Links \X Dirs |-> 0]
  /\ fin = {} /\ gone = {}
  /\ copying = Pipes \X Dirs
  /\ main = [p \in Pipes |-> "first"]

-------------------------------------------------------------------------------
(* The outer peers: the user's and the target's end.                       *)

Outgoing == {<<"user", "req">>, <<"target", "rep">>}
Incoming == {<<"user", "rep">>, <<"target", "req">>}

Send(x) ==
  /\ x \notin fin /\ ~Dead(x[1]) /\ flow[x] < Window
  /\ flow' = [flow EXCEPT ![x] = @ + 1]
  /\ UNCHANGED <<fin, gone, copying, main>>

Receive(x) ==
  /\ x[1] \notin gone /\ flow[x] > 0
  /\ flow' = [flow EXCEPT ![x] = @ - 1]
  /\ UNCHANGED <<fin, gone, copying, main>>

Finish(x) ==
  /\ x \notin fin
  /\ fin' = fin \cup {x}
  /\ UNCHANGED <<flow, gone, copying, main>>

PeerGone(l) ==
  /\ l \notin gone
  /\ gone' = gone \cup {l}
  /\ UNCHANGED <<flow, fin, copying, main>>

-------------------------------------------------------------------------------
(* copyDirection.                                                          *)

\* One round of io.CopyBuffer.
Copy(p, d) ==
  LET src == <<Src(p, d), d>>  dst == <<Dst(p, d), d>>
  IN /\ <<p, d>> \in copying /\ ~Closed(p)
     /\ flow[src] > 0 /\ ~Dead(dst[1]) /\ flow[dst] < Window
     /\ flow' = [flow EXCEPT ![src] = @ - 1, ![dst] = @ + 1]
     /\ UNCHANGED <<fin, gone, copying, main>>

\* Mutant of the next definition: the end of the stream overtakes data in flight.
AtEndEarly(p, d) ==
  LET src == <<Src(p, d), d>>
  IN Closed(p) \/ src \in fin \/ Dead(src[1]) \/ (flow[src] > 0 /\ Dead(Dst(p, d)))

\* The read meets the end of the stream, or a connection of this Pipe is
\* closed, or the write fails.
AtEnd(p, d) ==
  LET src == <<Src(p, d), d>>
  IN \/ Closed(p)
     \/ flow[src] = 0 /\ (src \in fin \/ Dead(src[1]))
     \/ flow[src] > 0 /\ Dead(Dst(p, d))

\* CopyBuffer returns; CloseWrite where the destination has it; done <- {}.
CopyEnds(p, d) ==
  /\ <<p, d>> \in copying /\ AtEnd(p, d)
  /\ copying' = copying \ {<<p, d>>}
  /\ fin' = IF Dst(p, d) \in HalfCloses /\ ~Closed(p) THEN fin \cup {<<Dst(p, d), d>>}
             ELSE fin
  /\ UNCHANGED <<flow, gone, main>>

-------------------------------------------------------------------------------
(* Pipe.                                                                   *)

Ended(p) == {d \in Dirs : <<p, d>> \notin copying}

\* The first <-done.
First(p) ==
  /\ main[p] = "first" /\ Ended(p) # {}
  /\ main' = [main EXCEPT ![p] = "grace"]
  /\ UNCHANGED <<flow, fin, gone, copying>>

\* The second <-done, and both connections are closed.
Second(p) ==
  /\ main[p] = "grace" /\ Ended(p) = Dirs
  /\ main' = [main EXCEPT ![p] = "drain"]
  /\ UNCHANGED <<flow, fin, gone, copying>>

\* Mutant of the next action: no grace period, wait for the second direction.
NoGrace(p) ==
  /\ main[p] = "grace" /\ Ended(p) = Dirs
  /\ main' = [main EXCEPT ![p] = "drain"]
  /\ UNCHANGED <<flow, fin, gone, copying>>

\* pipeTrailingGrace passes, and both connections are closed.
GracePasses(p) ==
  /\ main[p] = "grace" /\ Ended(p) # Dirs
  /\ main' = [main EXCEPT ![p] = "drain"]
  /\ UNCHANGED <<flow, fin, gone, copying>>

\* Whatever is left is drained, and Pipe returns.
Return(p) ==
  /\ main[p] = "drain" /\ Ended(p) = Dirs
  /\ main' = [main EXCEPT ![p] = "returned"]
  /\ UNCHANGED <<flow, fin, gone, copying>>

Main(p) == First(p) \/ Second(p) \/ GracePasses(p) \/ Return(p)

-------------------------------------------------------------------------------
Next ==
  \/ \E x \in Outgoing : Send(x) \/ Finish(x) \/ PeerGone(x[1])
  \/ \E x \in Incoming : Receive(x)
  \/ \E p \in Pipes : Main(p) \/ \E d \in Dirs : Copy(p, d) \/ CopyEnds(p, d)

Spec == Init /\ [][Next]_vars

\* Goroutines run and the timer fires; the outer peers take what they are sent
\* while they last, as their kernels do.
Fairness ==
  /\ \A p \in Pipes :
       WF_vars(Main(p)) /\ \A d \in Dirs : WF_vars(Copy(p, d) \/ CopyEnds(p, d))
  /\ \A x \in Incoming : WF_vars(Receive(x))

FairSpec == Spec /\ Fairness

-------------------------------------------------------------------------------
(* Properties.                                                             *)

\* The types of the variables; a Pipe that returned has no goroutine left.
TypeOK ==
  /\ flow \in [Links \X Dirs -> 0..Window]
  /\ fin \subseteq Links \X Dirs /\ gone \subseteq {"user", "target"}
  /\ copying \subseteq Pipes \X Dirs /\ main \in [Pipes -> MainPC]
  /\ \A p \in Pipes : main[p] = "returned" => Ended(p) = Dirs

\* An end of stream that Pipe passes on is never ahead of data: while the
\* destination is alive, nothing is left, and nothing will come, at the source.
EndAfterData ==
  \A p \in Pipes, d \in Dirs :
    LET src == <<Src(p, d), d>>
    IN <<Dst(p, d), d>> \in fin /\ ~Dead(Dst(p, d)) =>
         flow[src] = 0 /\ (src \in fin \/ Dead(src[1]))

\* No leak at either box: when one side of the flow is over, at whichever end
\* and whether or not the carrier can pass on a half-close, both Pipes return.
BothReturn ==
  (\E p \in Pipes : Ended(p) # {}) ~> \A p \in Pipes : main[p] = "returned"

-------------------------------------------------------------------------------
(* What the comments say, and the code does not do.                        *)

\* pipe.go:49, the grace period "only matters when that first direction's
\* destination can't be half-closed".
GraceOnlyIfDeaf ==
  [][\A p \in Pipes :
       GracePasses(p) => \E d \in Ended(p) : Dst(p, d) \notin HalfCloses]_vars
===============================================================================
