--------------------------------- MODULE Sizing ---------------------------------
(***************************************************************************)
(* The buffers of one tunnel: a tier picked by hand (wizard.go), or one    *)
(* fitted to a measured or typed bandwidth and round trip (bench.go), and  *)
(* the reset, by an update, of what v0.12.0 is known to have written       *)
(* (update.go).  The numbers are the code's own, in bytes.                 *)
(***************************************************************************)
EXTENDS Naturals, FiniteSetsExt

CONSTANTS Cores,  \* boxes: their number of cores
          Mbps, Rtts  \* links: bandwidth, and round trip in milliseconds

VARIABLES cfg,   \* recv (recv_buf and send_buf), stream and session (mux_*_buffer), idle
          link,  \* the bandwidth-delay product it was fitted to, or 0
          bug    \* history: the tier whose v0.12.0 numbers these are, or 0

vars == <<cfg, link, bug>>

Kb(n) == n * 1024
Mb(n) == n * 1048576

\* recv_buf = send_buf in every tier.
Tiers ==
  <<[recv |-> Kb(64), stream |-> Kb(256), session |-> Mb(1), idle |-> <<2, 6>>],
    [recv |-> Kb(256), stream |-> Mb(1), session |-> Mb(4), idle |-> <<4, 16>>],
    [recv |-> Mb(1), stream |-> Mb(2), session |-> Mb(8), idle |-> <<8, 32>>],
    [recv |-> Mb(2), stream |-> Mb(3), session |-> Mb(12), idle |-> <<12, 48>>],
    [recv |-> Mb(6), stream |-> Mb(6), session |-> Mb(24), idle |-> <<20, 80>>]>>

\* bdpBytes; a megabit per second is 125 bytes per millisecond.
bdpBytes(mbps, rtt) == mbps * 125 * rtt

\* pickTier
pickTier(cores, mbps) ==
  Max({i \in 1..5 : /\ cores >= <<0, 2, 4, 8, 16>>[i]
                    /\ mbps >= <<0, 20, 100, 500, 800>>[i]})

\* Mutant of the next definition: streams are not fitted to the link.
ResolvedSocket(t, bdp) == [t EXCEPT !.recv = Max({@, bdp})]

\* tunedTier.resolved
resolved(t, bdp) ==
  LET stream == Max({t.stream, bdp})
  IN [t EXCEPT !.recv = Max({@, bdp}), !.stream = stream, !.session = Max({@, 4 * stream})]

\* staleTuningFingerprints
Fingerprints == [i \in 1..5 |-> bdpBytes(<<20, 100, 500, 800, 2000>>[i], 80)]

\* The configuration is a fresh default, or one that v0.12.0 wrote, whose
\* tiers were fitted to a guessed bandwidth.
Init ==
  /\ link = 0 /\ bug \in 0..5
  /\ cfg = IF bug = 0 THEN Tiers[2] ELSE resolved(Tiers[bug], Fingerprints[bug])

\* askStaticTier and applyTierToConfig
PickTier == \E i \in 1..5 : cfg' = Tiers[i] /\ link' = 0 /\ bug' = 0

\* askManualBenchTier, askLiveBenchTier and applyTierToConfig
FitTier ==
  \E cores \in Cores, mbps \in Mbps, rtt \in Rtts :
    /\ link' = bdpBytes(mbps, rtt) /\ bug' = 0
    /\ cfg' = resolved(Tiers[pickTier(cores, mbps)], link')

\* Mutant of the next definition: the session's number is compared unmultiplied.
HonestTwice(i) ==
  [cfg EXCEPT !.recv = Tiers[i].recv, !.stream = Tiers[i].stream,
              !.session = IF @ = Fingerprints[i] THEN Tiers[i].session ELSE @]

\* The reset of a configuration that matched fingerprint i.
Honest(i) ==
  [cfg EXCEPT !.recv = Tiers[i].recv, !.stream = Tiers[i].stream,
              !.session = IF @ = 4 * Fingerprints[i] THEN Tiers[i].session ELSE @]

\* menuUpdate's migrateStaleTuning
Update ==
  /\ \E i \in 1..5 : cfg.recv = Fingerprints[i] /\ cfg.stream = Fingerprints[i]
                     /\ cfg' = Honest(i)
  /\ UNCHANGED <<link, bug>>

Next == PickTier \/ FitTier \/ Update

Spec == Init /\ [][Next]_vars

-------------------------------------------------------------------------------
(* Properties.                                                             *)

\* An update gives a configuration v0.12.0 wrote for heavy, extreme or insane
\* exactly that tier's buffers, so that nothing of the bad numbers remains.
ResetRight ==
  Update => \/ bug \in 3..5 /\ cfg' = Tiers[bug]
            \/ link \in {Fingerprints[i] : i \in 2..5}
StaleReset == [][ResetRight]_vars

\* On every path by which the numbers come about, an update's reset included, a
\* session's receive buffer holds the window of at least four streams, and a
\* flow is never capped below the link the tunnel was fitted to, unless the
\* link's product is one of the fingerprints.
FitsLink ==
  /\ cfg.session >= 4 * cfg.stream
  /\ link \notin {Fingerprints[i] : i \in 2..5} => cfg.recv >= link /\ cfg.stream >= link

-------------------------------------------------------------------------------
(* What the comments say, and the code does not do.                        *)

\* update.go:292: "a genuinely hand-tuned config is never at risk".  On a box
\* of one core the manual entry's own defaults, 100 Mbps and 80 ms, give one; on
\* larger boxes 500, 800 or 2000 Mbps at that round trip do.
HandTunedKept == cfg.recv >= link /\ cfg.stream >= link

\* update.go:264: the three fields are "numerically equal for every tier" under
\* the bug.  For light and medium one buffer was larger than the guess.
BugIsThreeEqual == bug # 0 /\ cfg # Tiers[bug] => cfg.recv = cfg.stream
===============================================================================
