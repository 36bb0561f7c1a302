------------------------------- MODULE Setup_proofs -------------------------------
(***************************************************************************)
(* Proofs about what the menus prepare, MCSetup: the configurations of two *)
(* boxes, the buffers of a tunnel, its ports and the auto-refresh          *)
(* schedule, for every list of presets, every box and link, every set of   *)
(* ports and hosts, every interval, and lists of any length.               *)
(***************************************************************************)
EXTENDS MCSetup, SequenceTheorems, FiniteSetTheorems, TLAPS

-------------------------------------------------------------------------------
(* AutoRefresh.  That a timer which runs is one the menu shows is not      *)
(* inductive: it needs what the menu has done already at each of its       *)
(* steps, and that a restored file is never empty.                         *)

Steps == {"idle", "service", "timer", "reload", "enable", "disable", "rmtimer", "rmservice"}

AutoInv ==
  /\ timer \in Nat /\ active \in Nat /\ saved \in Nat /\ want \in Nat
  /\ service \in BOOLEAN /\ enabled \in BOOLEAN /\ step \in Steps
  /\ step \in {"service", "timer"} => want > 0
  /\ step \in {"timer", "enable"} => service
  /\ step = "enable" => timer > 0
  /\ step = "reload" /\ want > 0 => timer > 0 /\ service
  /\ step \in {"rmtimer", "rmservice"} => ~enabled /\ active = 0 /\ want = 0
  /\ step = "reload" /\ want = 0 => ~enabled /\ active = 0
  /\ step = "disable" => want = 0
  /\ active > 0 \/ enabled => timer > 0 /\ service

LEMMA AutoInit == Timer!Init => AutoInv
<1> SUFFICES ASSUME Timer!Init PROVE AutoInv
  OBVIOUS
<1>1. ~service /\ ~enabled /\ service \in BOOLEAN /\ enabled \in BOOLEAN
  BY Zenon DEF Timer!Init
<1>2. timer = 0 /\ active = 0 /\ saved = 0 /\ step = "idle" /\ want = 0
  BY DEF Timer!Init
<1>3. QED
  BY <1>1, <1>2 DEF AutoInv, Steps

LEMMA AutoStep == AutoInv /\ [Timer!Next]_auto => AutoInv'
<1> SUFFICES ASSUME AutoInv, [Timer!Next]_auto PROVE AutoInv'
  OBVIOUS
<1> USE DEF AutoInv, Steps, Timer!files, Timer!unit
<1>1. CASE Timer!Ask
  <2>1. PICK h \in Hours \cup {0} : want' = h /\ step' = IF h = 0 THEN "disable" ELSE "service"
    BY <1>1 DEF Timer!Ask
  <2>2. h \in Nat
    BY HoursAssumption
  <2>3. QED
    BY <1>1, <2>1, <2>2 DEF Timer!Ask
<1>2. CASE Timer!WriteService
  BY <1>2 DEF Timer!WriteService
<1>3. CASE Timer!WriteTimer
  BY <1>3 DEF Timer!WriteTimer
<1>4. CASE Timer!Reload
  BY <1>4 DEF Timer!Reload
<1>5. CASE Timer!Enable
  BY <1>5 DEF Timer!Enable
<1>6. CASE Timer!Disable
  <2>1. ~enabled' /\ enabled' \in BOOLEAN
    BY <1>6, Zenon DEF Timer!Disable
  <2>2. /\ step = "disable" /\ active' = 0 /\ step' = "rmtimer"
        /\ UNCHANGED <<timer, service, saved, want>>
    BY <1>6 DEF Timer!Disable
  <2>3. QED
    BY <2>1, <2>2
<1>7. CASE Timer!RemoveTimer
  BY <1>7 DEF Timer!RemoveTimer
<1>8. CASE Timer!RemoveService
  <2>1. ~service' /\ service' \in BOOLEAN
    BY <1>8, Zenon DEF Timer!RemoveService
  <2>2. /\ step = "rmservice" /\ step' = "reload"
        /\ UNCHANGED <<timer, enabled, active, saved, want>>
    BY <1>8 DEF Timer!RemoveService
  <2>3. QED
    BY <2>1, <2>2
<1>9. CASE Timer!CutOff
  BY <1>9 DEF Timer!CutOff
<1>10. CASE Timer!Reboot
  BY <1>10 DEF Timer!Reboot
<1>11. CASE Timer!Backup
  BY <1>11 DEF Timer!Backup
<1>12. CASE Timer!Restore
  BY <1>12 DEF Timer!Restore
<1>13. CASE UNCHANGED auto
  BY <1>13 DEF auto
<1>14. QED
  BY <1>1, <1>2, <1>3, <1>4, <1>5, <1>6, <1>7, <1>8, <1>9, <1>10, <1>11, <1>12, <1>13
     DEF Timer!Next

-------------------------------------------------------------------------------
(* Sizing.  The numbers of the tiers are the code's, and so is what makes  *)
(* the argument work: no tier's buffer is one of the fingerprints, and a   *)
(* session's buffer is four streams' in every tier, fitted or not.         *)

Recvs == {65536, 262144, 1048576, 2097152, 6291456}
Streams == {262144, 1048576, 2097152, 3145728, 6291456}
Printed == {1000000, 5000000, 8000000, 20000000}  \* of all tiers but the first

Sized == [recv : Nat, stream : Nat, session : Nat, idle : Nat \X Nat]

Refit(c, r, s, n) == [c EXCEPT !.recv = r, !.stream = s, !.session = n]

LEMMA Refitted ==
  ASSUME NEW c \in Sized, NEW r \in Nat, NEW s \in Nat, NEW n \in Nat
  PROVE  /\ Refit(c, r, s, n) \in Sized /\ Refit(c, r, s, n).idle = c.idle
         /\ Refit(c, r, s, n).recv = r /\ Refit(c, r, s, n).stream = s
         /\ Refit(c, r, s, n).session = n
BY DEF Sized, Refit

LEMMA TierNumbers ==
  ASSUME NEW i \in 1..5
  PROVE  /\ Size!Tiers[i] \in Sized
         /\ Size!Tiers[i].recv \in Recvs /\ Size!Tiers[i].stream \in Streams
         /\ Size!Tiers[i].session = 4 * Size!Tiers[i].stream
<1>1. CASE i = 1
  BY <1>1 DEF Size!Tiers, Size!Kb, Size!Mb, Sized, Recvs, Streams
<1>2. CASE i = 2
  BY <1>2 DEF Size!Tiers, Size!Kb, Size!Mb, Sized, Recvs, Streams
<1>3. CASE i = 3
  BY <1>3 DEF Size!Tiers, Size!Kb, Size!Mb, Sized, Recvs, Streams
<1>4. CASE i = 4
  BY <1>4 DEF Size!Tiers, Size!Kb, Size!Mb, Sized, Recvs, Streams
<1>5. CASE i = 5
  BY <1>5 DEF Size!Tiers, Size!Kb, Size!Mb, Sized, Recvs, Streams
<1>6. QED
  BY <1>1, <1>2, <1>3, <1>4, <1>5

LEMMA PrintNumbers ==
  /\ Size!Fingerprints[1] = 200000 /\ Size!Fingerprints[2] = 1000000
  /\ Size!Fingerprints[3] = 5000000 /\ Size!Fingerprints[4] = 8000000
  /\ Size!Fingerprints[5] = 20000000
BY DEF Size!Fingerprints, Size!bdpBytes

LEMMA PrintedAre == {Size!Fingerprints[i] : i \in 2..5} = Printed
<1>1. \A i \in 2..5 : i = 2 \/ i = 3 \/ i = 4 \/ i = 5
  OBVIOUS
<1>2. QED
  BY <1>1, PrintNumbers DEF Printed

LEMMA MaxOfTwo ==
  ASSUME NEW a \in Nat, NEW b \in Nat
  PROVE  Size!Max({a, b}) \in {a, b} /\ Size!Max({a, b}) >= a /\ Size!Max({a, b}) >= b
<1>1. \E x \in {a, b} : \A y \in {a, b} : x >= y
  <2>1. CASE a >= b
    BY <2>1
  <2>2. CASE b >= a
    BY <2>2
  <2>3. QED
    BY <2>1, <2>2
<1>2. /\ Size!Max({a, b}) \in {a, b}
      /\ \A y \in {a, b} : Size!Max({a, b}) >= y
  BY <1>1 DEF Size!Max
<1>3. QED
  BY <1>2

\* A tier fitted to a link: each buffer is the tier's or the link's, and not
\* smaller than the link's.
LEMMA ResolvedNumbers ==
  ASSUME NEW i \in 1..5, NEW bdp \in Nat
  PROVE  LET c == Size!resolved(Size!Tiers[i], bdp)
         IN /\ c \in Sized /\ c.idle = Size!Tiers[i].idle
            /\ c.recv = Size!Max({Size!Tiers[i].recv, bdp})
            /\ c.stream = Size!Max({Size!Tiers[i].stream, bdp})
            /\ c.session = 4 * c.stream
<1> DEFINE t == Size!Tiers[i]
           recv == Size!Max({t.recv, bdp})
           stream == Size!Max({t.stream, bdp})
           session == Size!Max({t.session, 4 * stream})
<1>1. t \in Sized /\ t.session = 4 * t.stream
  BY TierNumbers
<1> HIDE DEF t
<1>2. t.recv \in Nat /\ t.stream \in Nat /\ t.session \in Nat /\ t.idle \in Nat \X Nat
  BY <1>1 DEF Sized
<1>3. recv \in Nat
  BY <1>2, MaxOfTwo
<1>4. stream \in Nat /\ stream >= t.stream
  BY <1>2, MaxOfTwo
<1>5. session \in {t.session, 4 * stream} /\ session >= 4 * stream
  <2> HIDE DEF stream
  <2>1. 4 * stream \in Nat
    BY <1>4
  <2>2. QED
    BY <1>2, <2>1, MaxOfTwo
<1>6. session = 4 * stream
  <2> HIDE DEF stream, session
  <2>1. QED
    BY <1>1, <1>2, <1>4, <1>5
<1>7. Size!resolved(t, bdp) = Refit(t, recv, stream, session)
  BY DEF Size!resolved, Refit
<1> HIDE DEF recv, stream, session
<1>8. /\ Size!resolved(t, bdp) \in Sized /\ Size!resolved(t, bdp).idle = t.idle
      /\ Size!resolved(t, bdp).recv = recv /\ Size!resolved(t, bdp).stream = stream
      /\ Size!resolved(t, bdp).session = session
  <2>1. session \in Nat
    BY <1>4, <1>6
  <2>2. QED
    BY <1>1, <1>3, <1>4, <1>7, <2>1, Refitted
<1>9. QED
  BY <1>6, <1>8 DEF t, recv, stream

LEMMA TierPicked ==
  ASSUME NEW cores \in Nat, NEW mbps \in Nat
  PROVE  Size!pickTier(cores, mbps) \in 1..5
<1> DEFINE S == {i \in 1..5 : /\ cores >= <<0, 2, 4, 8, 16>>[i]
                              /\ mbps >= <<0, 20, 100, 500, 800>>[i]}
<1>1. 1 \in S /\ S \subseteq 1..5
  OBVIOUS
<1> HIDE DEF S
<1>2. \E x \in S : \A y \in S : x >= y
  <2>1. \A y \in S : y \in {1, 2, 3, 4, 5}
    BY <1>1
  <2>2. CASE 5 \in S
    BY <2>1, <2>2
  <2>3. CASE 4 \in S /\ 5 \notin S
    BY <2>1, <2>3
  <2>4. CASE 3 \in S /\ 4 \notin S /\ 5 \notin S
    BY <2>1, <2>4
  <2>5. CASE 2 \in S /\ 3 \notin S /\ 4 \notin S /\ 5 \notin S
    BY <2>1, <2>5
  <2>6. CASE 2 \notin S /\ 3 \notin S /\ 4 \notin S /\ 5 \notin S
    BY <2>1, <2>6, <1>1
  <2>7. QED
    BY <2>2, <2>3, <2>4, <2>5, <2>6
<1>3. Size!Max(S) \in S
  BY <1>2 DEF Size!Max
<1>4. QED
  BY <1>1, <1>3 DEF Size!pickTier, S

\* The numbers are a tier's, or were fitted to the link, or are those v0.12.0 wrote.
OfTier == cfg.recv \in Recvs /\ cfg.stream \in Streams /\ link \in Printed \cup {0}
Fitted == /\ cfg.recv >= link /\ cfg.stream >= link /\ bug = 0
          /\ cfg.recv \in Recvs \cup {link} /\ cfg.stream \in Streams \cup {link}
Buggy == link = 0 /\ bug \in 1..5 /\ cfg = Size!resolved(Size!Tiers[bug], Size!Fingerprints[bug])

SizeInv ==
  /\ link \in Nat /\ bug \in 0..5 /\ cfg \in Sized
  /\ cfg.session = 4 * cfg.stream /\ cfg.stream >= 262144
  /\ OfTier \/ Fitted \/ Buggy

LEMMA SizeInit == Size!Init => SizeInv
<1> SUFFICES ASSUME Size!Init PROVE SizeInv
  OBVIOUS
<1>1. link = 0 /\ bug \in 0..5
  BY DEF Size!Init
<1>2. CASE bug = 0
  <2>1. cfg = Size!Tiers[2] /\ 2 \in 1..5
    BY <1>2 DEF Size!Init
  <2>2. cfg \in Sized /\ cfg.recv \in Recvs /\ cfg.stream \in Streams
        /\ cfg.session = 4 * cfg.stream
    BY <2>1, TierNumbers
  <2>3. QED
    BY <1>1, <2>2 DEF SizeInv, OfTier, Streams
<1>3. CASE bug # 0
  <2>1. bug \in 1..5 /\ cfg = Size!resolved(Size!Tiers[bug], Size!Fingerprints[bug])
    BY <1>1, <1>3 DEF Size!Init
  <2>2. Size!Fingerprints[bug] \in Nat
    BY <2>1, PrintNumbers
  <2>3. Size!Tiers[bug].stream \in Streams
    BY <2>1, TierNumbers
  <2>4. /\ cfg \in Sized /\ cfg.session = 4 * cfg.stream
        /\ cfg.stream = Size!Max({Size!Tiers[bug].stream, Size!Fingerprints[bug]})
    BY <2>1, <2>2, ResolvedNumbers
  <2>5. cfg.stream >= Size!Tiers[bug].stream
    BY <2>2, <2>3, <2>4, MaxOfTwo DEF Streams
  <2>6. cfg.stream >= 262144
    BY <2>3, <2>4, <2>5 DEF Streams, Sized
  <2>7. QED
    BY <1>1, <2>1, <2>4, <2>6 DEF SizeInv, Buggy
<1>4. QED
  BY <1>2, <1>3

LEMMA FitInv == ASSUME Size!FitTier PROVE SizeInv'
<1>1. PICK cores \in Cores, mbps \in Mbps, rtt \in Rtts :
        /\ link' = Size!bdpBytes(mbps, rtt) /\ bug' = 0
        /\ cfg' = Size!resolved(Size!Tiers[Size!pickTier(cores, mbps)], link')
  BY DEF Size!FitTier
<1> DEFINE i == Size!pickTier(cores, mbps)
<1>2. cores \in Nat /\ mbps \in Nat /\ rtt \in Nat
  BY NumbersAssumption
<1>3. link' \in Nat /\ i \in 1..5 /\ cfg' = Size!resolved(Size!Tiers[i], link')
  BY <1>1, <1>2, TierPicked DEF Size!bdpBytes
<1> HIDE DEF i
<1>4. Size!Tiers[i].recv \in Recvs /\ Size!Tiers[i].stream \in Streams
  BY <1>3, TierNumbers
<1>5. /\ cfg' \in Sized /\ cfg'.session = 4 * cfg'.stream
      /\ cfg'.recv = Size!Max({Size!Tiers[i].recv, link'})
      /\ cfg'.stream = Size!Max({Size!Tiers[i].stream, link'})
  BY <1>3, ResolvedNumbers
<1>6. /\ cfg'.recv \in {Size!Tiers[i].recv, link'} /\ cfg'.recv >= link'
  BY <1>3, <1>4, <1>5, MaxOfTwo DEF Recvs
<1>7. /\ cfg'.stream \in {Size!Tiers[i].stream, link'} /\ cfg'.stream >= link'
      /\ cfg'.stream >= Size!Tiers[i].stream
  BY <1>3, <1>4, <1>5, MaxOfTwo DEF Streams
<1>8. cfg'.stream >= 262144
  BY <1>3, <1>4, <1>7 DEF Streams
<1>9. QED
  BY <1>1, <1>3, <1>4, <1>5, <1>6, <1>7, <1>8 DEF SizeInv, Fitted

\* What an update takes for one of v0.12.0's configurations is one, or was fitted
\* to a link with the same product; it gets a tier's buffers.
LEMMA UpdateOf ==
  ASSUME SizeInv, Size!Update
  PROVE  /\ OfTier' /\ cfg' \in Sized /\ cfg'.session = 4 * cfg'.stream
         /\ \/ bug \in 3..5 /\ cfg' = Size!Tiers[bug]
            \/ link \in Printed
<1>1. PICK i \in 1..5 : /\ cfg.recv = Size!Fingerprints[i] /\ cfg.stream = Size!Fingerprints[i]
                        /\ cfg' = Size!Honest(i)
  BY DEF Size!Update
<1>2. UNCHANGED <<link, bug>>
  BY DEF Size!Update
<1>3. cfg \in Sized /\ cfg.session = 4 * Size!Fingerprints[i] /\ cfg.stream >= 262144
  BY <1>1 DEF SizeInv
<1>4. i \in 2..5 /\ Size!Fingerprints[i] \in Printed
  <2>1. i # 1
    BY <1>1, <1>3, PrintNumbers
  <2>2. QED
    BY <2>1, PrintedAre
<1>5. Size!Tiers[i] \in Sized /\ Size!Tiers[i].recv \in Recvs /\ Size!Tiers[i].stream \in Streams
      /\ Size!Tiers[i].session = 4 * Size!Tiers[i].stream
  BY TierNumbers
<1>6. cfg' = Refit(cfg, Size!Tiers[i].recv, Size!Tiers[i].stream, Size!Tiers[i].session)
  BY <1>1, <1>3 DEF Size!Honest, Refit
<1>7. /\ cfg' \in Sized /\ cfg'.recv = Size!Tiers[i].recv /\ cfg'.stream = Size!Tiers[i].stream
      /\ cfg'.session = Size!Tiers[i].session /\ cfg'.idle = cfg.idle
  <2>1. Size!Tiers[i].recv \in Nat /\ Size!Tiers[i].stream \in Nat /\ Size!Tiers[i].session \in Nat
    BY <1>5 DEF Recvs, Streams
  <2> DEFINE r == Size!Tiers[i].recv
             s == Size!Tiers[i].stream
             n == Size!Tiers[i].session
  <2>2. cfg \in Sized /\ r \in Nat /\ s \in Nat /\ n \in Nat
    BY <1>3, <2>1
  <2>3. cfg' = Refit(cfg, r, s, n)
    BY <1>6
  <2> HIDE DEF r, s, n
  <2>4. /\ cfg' \in Sized /\ cfg'.recv = r /\ cfg'.stream = s /\ cfg'.session = n
        /\ cfg'.idle = cfg.idle
    BY <2>2, <2>3 DEF Sized, Refit
  <2>5. QED
    BY <2>4 DEF r, s, n
<1>8. ~OfTier
  BY <1>1, <1>4 DEF OfTier, Recvs, Printed
<1>9. ASSUME Fitted PROVE link \in Printed
  <2>1. Size!Fingerprints[i] \notin Streams
    BY <1>4 DEF Streams, Printed
  <2>2. QED
    BY <1>1, <1>4, <1>9, <2>1 DEF Fitted
<1>10. ASSUME Buggy PROVE bug = i /\ i \in 3..5 /\ cfg.idle = Size!Tiers[i].idle
  <2>1. bug \in 1..5 /\ Size!Fingerprints[bug] \in Nat
    BY <1>10, PrintNumbers DEF Buggy
  <2>2. /\ cfg.recv = Size!Max({Size!Tiers[bug].recv, Size!Fingerprints[bug]})
        /\ cfg.stream = Size!Max({Size!Tiers[bug].stream, Size!Fingerprints[bug]})
        /\ cfg.idle = Size!Tiers[bug].idle
    BY <1>10, <2>1, ResolvedNumbers DEF Buggy
  <2>3. Size!Tiers[bug].recv \in Recvs /\ Size!Tiers[bug].stream \in Streams
    BY <2>1, TierNumbers
  <2>4. cfg.stream \in {Size!Tiers[bug].stream, Size!Fingerprints[bug]}
        /\ cfg.stream >= Size!Tiers[bug].stream
    BY <2>1, <2>2, <2>3, MaxOfTwo DEF Streams
  <2>5. Size!Fingerprints[i] \notin Streams
    BY <1>4 DEF Streams, Printed
  <2>6. Size!Fingerprints[i] = Size!Fingerprints[bug]
    BY <1>1, <2>3, <2>4, <2>5
  <2>7. bug = i
    BY <2>1, <2>6, <1>4, PrintNumbers
  <2>8. i # 2
    <3>1. CASE i = 2
      <4>1. Size!Tiers[2].stream = 1048576
        BY DEF Size!Tiers, Size!Mb
      <4>2. QED
        BY <1>1, <2>4, <2>7, <3>1, <4>1, PrintNumbers
    <3>2. QED
      BY <3>1
  <2>9. QED
    BY <1>4, <2>2, <2>7, <2>8
<1>11. ASSUME Buggy PROVE bug \in 3..5 /\ cfg' = Size!Tiers[bug]
  <2>1. bug = i /\ i \in 3..5 /\ cfg'.idle = Size!Tiers[i].idle
    BY <1>7, <1>10, <1>11
  <2>2. cfg' = Size!Tiers[i]
    BY <1>5, <1>7, <2>1 DEF Sized
  <2>3. QED
    BY <2>1, <2>2
<1>12. OfTier'
  BY <1>2, <1>5, <1>7, <1>8, <1>9 DEF SizeInv, OfTier, Buggy
<1>13. QED
  BY <1>5, <1>7, <1>8, <1>9, <1>11, <1>12 DEF SizeInv

LEMMA SizeStep == SizeInv /\ [Size!Next]_size => SizeInv'
<1> SUFFICES ASSUME SizeInv, [Size!Next]_size PROVE SizeInv'
  OBVIOUS
<1>1. CASE Size!PickTier
  <2>1. PICK i \in 1..5 : cfg' = Size!Tiers[i] /\ link' = 0 /\ bug' = 0
    BY <1>1 DEF Size!PickTier
  <2>2. cfg' \in Sized /\ cfg'.recv \in Recvs /\ cfg'.stream \in Streams
        /\ cfg'.session = 4 * cfg'.stream
    BY <2>1, TierNumbers
  <2>3. QED
    BY <2>1, <2>2 DEF SizeInv, OfTier, Streams
<1>2. CASE Size!Update
  <2>1. UNCHANGED <<link, bug>>
    BY <1>2 DEF Size!Update
  <2>2. QED
    BY <1>2, <2>1, UpdateOf DEF SizeInv, OfTier, Streams
<1>3. CASE UNCHANGED size
  BY <1>3 DEF size, SizeInv, OfTier, Fitted, Buggy
<1>4. QED
  BY <1>1, <1>2, <1>3, FitInv DEF Size!Next

LEMMA SizeFits == SizeInv => Size!FitsLink
<1> SUFFICES ASSUME SizeInv PROVE Size!FitsLink
  OBVIOUS
<1>1. link \in Nat /\ cfg \in Sized /\ cfg.session = 4 * cfg.stream
  BY DEF SizeInv
<1>2. cfg.recv \in Nat /\ cfg.stream \in Nat /\ cfg.session \in Nat
  BY <1>1 DEF Sized
<1>3. link \notin Printed => cfg.recv >= link /\ cfg.stream >= link
  BY <1>1, <1>2 DEF SizeInv, OfTier, Fitted, Buggy
<1>4. QED
  BY <1>1, <1>2, <1>3, PrintedAre DEF Size!FitsLink

-------------------------------------------------------------------------------
(* PortSpecs.  What is shown for a port is read as that port again, or is  *)
(* refused; so is a line of them.                                          *)

Places == [host : Hosts \cup {Local}, port : Ports]
PortMaps == [listen : Ports, target : Seq(Places) \ {<<>>}]
Shown(l) == [i \in 1..Len(l) |-> Specs!formatPortSpec(l[i])]

LEMMA OneOf == ASSUME NEW x PROVE (CHOOSE y \in {x} : TRUE) = x
OBVIOUS

LEMMA ParseFormat ==
  ASSUME NEW pm \in PortMaps
  PROVE  \/ Specs!parsePortSpec(Specs!formatPortSpec(pm)) = {pm}
         \/ /\ Specs!parsePortSpec(Specs!formatPortSpec(pm)) = {}
            /\ Len(pm.target) > 1 /\ pm.target[1].host = Local
<1> DEFINE t == pm.target
           s == Specs!formatPortSpec(pm)
<1>1. pm = [listen |-> pm.listen, target |-> t] /\ t \in Seq(Places) /\ t # <<>>
  BY DEF PortMaps
<1> HIDE DEF t, s
<1>2. Len(t) \in Nat /\ Len(t) >= 1 /\ t[1] \in Places
  <2>1. Len(t) \in Nat /\ Len(t) # 0
    BY <1>1, EmptySeq, LenProperties
  <2>2. 1 \in 1..Len(t)
    BY <2>1
  <2>3. QED
    BY <1>1, <2>1, <2>2, ElementOfSeq
<1>3. CASE t = <<[host |-> Local, port |-> pm.listen]>>
  <2>1. s = [form |-> "bare", port |-> pm.listen, rest |-> <<>>]
    BY <1>3 DEF s, t, Specs!formatPortSpec, Specs!Bare, Specs!NoLine
  <2>2. Specs!parsePortSpec(s) = {[listen |-> pm.listen, target |-> t]}
    BY <2>1, <1>3 DEF Specs!parsePortSpec
  <2>3. QED
    BY <1>1, <2>2 DEF s
<1>4. CASE t # <<[host |-> Local, port |-> pm.listen]>> /\ t[1].host = Local
  <2>1. s = [form |-> "colon", port |-> pm.listen, rest |-> t]
    BY <1>4 DEF s, t, Specs!formatPortSpec, Specs!Colon
  <2>2. CASE Len(t) = 1
    <3>1. t = <<[host |-> Local, port |-> t[1].port]>>
      <4>1. t[1] = [host |-> Local, port |-> t[1].port]
        BY <1>2, <1>4 DEF Places
      <4>2. t = <<t[1]>>
        BY <1>1, <2>2
      <4>3. QED
        BY <4>1, <4>2
    <3>2. Specs!parsePortSpec(s) = {[listen |-> pm.listen, target |-> <<[host |-> Local, port |-> t[1].port]>>]}
      BY <2>1, <2>2 DEF Specs!parsePortSpec
    <3>3. QED
      BY <1>1, <3>1, <3>2 DEF s
  <2>3. CASE Len(t) # 1
    <3>1. Specs!parsePortSpec(s) = {}
      BY <2>1, <2>3 DEF Specs!parsePortSpec
    <3>2. Len(t) > 1
      BY <1>2, <2>3
    <3>3. QED
      BY <1>4, <3>1, <3>2 DEF s, t
  <2>4. QED
    BY <2>2, <2>3
<1>5. CASE t # <<[host |-> Local, port |-> pm.listen]>> /\ t[1].host # Local
  <2>1. s = [form |-> "equals", port |-> pm.listen, rest |-> t]
    BY <1>5 DEF s, t, Specs!formatPortSpec, Specs!Equals
  <2>2. Specs!parsePortSpec(s) = {[listen |-> pm.listen, target |-> t]}
    BY <2>1 DEF Specs!parsePortSpec
  <2>3. QED
    BY <1>1, <2>2 DEF s
<1>6. QED
  BY <1>3, <1>4, <1>5

LEMMA SpecParsed ==
  ASSUME NEW s \in Specs!Specs, NEW pm \in Specs!parsePortSpec(s)
  PROVE  pm \in PortMaps
<1>1. CASE \E p \in Ports : s = Specs!Bare(p)
  <2>1. PICK p \in Ports : s = [form |-> "bare", port |-> p, rest |-> <<>>]
    BY <1>1 DEF Specs!Bare, Specs!NoLine
  <2>2. pm = [listen |-> p, target |-> <<[host |-> Local, port |-> p]>>]
    BY <2>1 DEF Specs!parsePortSpec
  <2>3. QED
    BY <2>1, <2>2 DEF PortMaps, Places
<1>2. CASE \E p \in Ports, b \in [host : {Local}, port : Ports] : s = Specs!Colon(p, <<b>>)
  <2>1. PICK p \in Ports, b \in [host : {Local}, port : Ports] :
          s = [form |-> "colon", port |-> p, rest |-> <<b>>]
    BY <1>2 DEF Specs!Colon
  <2>2. pm = [listen |-> p, target |-> <<[host |-> Local, port |-> b.port]>>]
    BY <2>1 DEF Specs!parsePortSpec
  <2>3. QED
    BY <2>1, <2>2 DEF PortMaps, Places
<1>3. CASE \E p \in Ports, t \in Specs!Targets : s = Specs!Equals(p, t)
  <2>1. PICK p \in Ports, t \in Specs!Targets : s = [form |-> "equals", port |-> p, rest |-> t]
    BY <1>3 DEF Specs!Equals
  <2>2. pm = [listen |-> p, target |-> t]
    BY <2>1 DEF Specs!parsePortSpec
  <2>3. t \in Seq(Places) \ {<<>>}
    <3>1. PICK n \in 1..MaxBackends : t \in [1..n -> Specs!Backends]
      BY <2>1 DEF Specs!Targets
    <3>2. n \in Nat /\ n >= 1
      BY NumbersAssumption
    <3>3. \A i \in 1..n : t[i] \in Places
      BY <3>1 DEF Specs!Backends, Places
    <3>4. t \in [1..n -> Places]
      BY <3>1, <3>3
    <3>5. t \in Seq(Places)
      BY <3>2, <3>4, SeqDef
    <3>6. 1 \in DOMAIN t
      BY <3>1, <3>2
    <3>7. QED
      BY <3>5, <3>6
  <2>4. QED
    BY <2>1, <2>2, <2>3 DEF PortMaps
<1> DEFINE bare == {Specs!Bare(p) : p \in Ports}
           colon == {Specs!Colon(p, <<b>>) : p \in Ports, b \in [host : {Local}, port : Ports]}
           equals == {Specs!Equals(p, t) : p \in Ports, t \in Specs!Targets}
<1>4. s \in bare \cup colon \cup equals
  BY DEF Specs!Specs
<1>5. s \in bare => pm \in PortMaps
  BY <1>1
<1>6. s \in colon => pm \in PortMaps
  BY <1>2
<1>7. s \in equals => pm \in PortMaps
  BY <1>3
<1> HIDE DEF bare, colon, equals
<1>8. QED
  BY <1>4, <1>5, <1>6, <1>7

LEMMA LineBack ==
  ASSUME NEW l \in Seq(PortMaps), l # <<>>
  PROVE  /\ \A new \in Specs!parsePortsLine(Shown(l)) : new = l
         /\ Specs!parsePortsLine(Shown(l)) = {} =>
              \E i \in 1..Len(l) : Len(l[i].target) > 1 /\ l[i].target[1].host = Local
<1> DEFINE s == Shown(l)
           Refused == \E i \in 1..Len(s) : Specs!parsePortSpec(s[i]) = {}
<1>1. Len(l) \in Nat /\ DOMAIN l = 1..Len(l) /\ Len(l) # 0
  BY EmptySeq, LenProperties
<1>2. /\ s \in Seq({Specs!formatPortSpec(pm) : pm \in PortMaps}) /\ DOMAIN s = 1..Len(l)
      /\ \A i \in 1..Len(l) : s[i] = Specs!formatPortSpec(l[i])
  <2>1. /\ DOMAIN s = 1..Len(l) /\ \A i \in 1..Len(l) : s[i] = Specs!formatPortSpec(l[i])
    BY DEF Shown
  <2>2. s = [i \in 1..Len(l) |-> s[i]]
    BY DEF Shown
  <2>3. \A i \in 1..Len(l) : l[i] \in PortMaps
    BY <1>1, ElementOfSeq
  <2> HIDE DEF s
  <2>4. s \in [1..Len(l) -> {Specs!formatPortSpec(pm) : pm \in PortMaps}]
    BY <2>1, <2>2, <2>3
  <2>5. QED
    BY <1>1, <2>1, <2>4, SeqDef
<1> HIDE DEF s
<1>3. Len(s) = Len(l) /\ s # <<>>
  <2>1. Len(s) = Len(l)
    BY <1>1, <1>2, LenProperties
  <2>2. QED
    BY <1>1, <1>2, <2>1, EmptySeq
<1>4. \A i \in 1..Len(l) : l[i] \in PortMaps
  BY <1>1, ElementOfSeq
<1>5. CASE Refused
  <2>1. Specs!parsePortsLine(s) = {}
    BY <1>5 DEF Specs!parsePortsLine
  <2>2. PICK i \in 1..Len(l) : Specs!parsePortSpec(Specs!formatPortSpec(l[i])) = {}
    BY <1>2, <1>3, <1>5
  <2>3. Len(l[i].target) > 1 /\ l[i].target[1].host = Local
    BY <1>4, <2>2, ParseFormat
  <2>4. QED
    BY <2>1, <2>3 DEF s
<1>6. CASE ~Refused
  <2>1. \A i \in 1..Len(l) : Specs!parsePortSpec(s[i]) = {l[i]}
    BY <1>2, <1>3, <1>4, <1>6, ParseFormat
  <2> DEFINE new == [i \in 1..Len(s) |-> CHOOSE pm \in Specs!parsePortSpec(s[i]) : TRUE]
  <2>2. Specs!parsePortsLine(s) = {new}
    BY <1>3, <1>6 DEF Specs!parsePortsLine
  <2>3. \A i \in 1..Len(l) : new[i] = l[i]
    BY <1>3, <2>1, OneOf
  <2>4. new = l
    <3>1. DOMAIN new = 1..Len(l) /\ new = [i \in 1..Len(l) |-> new[i]]
      BY <1>3
    <3>2. l = [i \in 1..Len(l) |-> l[i]]
      BY <1>1, LenProperties
    <3> HIDE DEF new
    <3>3. QED
      BY <2>3, <3>1, <3>2
  <2>5. QED
    BY <2>2, <2>4 DEF s
<1>7. QED
  BY <1>5, <1>6

SpecInv ==
  /\ ports \in Seq(PortMaps) /\ typed \in Seq(PortMaps)
  /\ line # <<>> => typed # <<>> /\ line = Shown(typed)
  /\ line = <<>> /\ typed # <<>> => ports = typed

LEMMA SpecInit == Specs!Init => SpecInv
BY DEF Specs!Init, Specs!NoLine, SpecInv

LEMMA SpecStep == SpecInv /\ [Specs!Next]_spec => SpecInv'
<1> SUFFICES ASSUME SpecInv, [Specs!Next]_spec PROVE SpecInv'
  OBVIOUS
<1>1. CASE Specs!Type
  <2>1. PICK s \in Specs!Specs : \E new \in Specs!parsePortsLine(<<s>>) : ports' = ports \o new
    BY <1>1 DEF Specs!Type
  <2>2. PICK new \in Specs!parsePortsLine(<<s>>) : ports' = ports \o new
    BY <2>1
  <2>3. Len(<<s>>) = 1 /\ <<s>>[1] = s
    OBVIOUS
  <2>4. /\ Specs!parsePortSpec(s) # {}
        /\ new = [i \in 1..1 |-> CHOOSE pm \in Specs!parsePortSpec(<<s>>[i]) : TRUE]
    BY <2>2, <2>3 DEF Specs!parsePortsLine
  <2>5. new[1] \in PortMaps /\ new \in [1..1 -> PortMaps]
    <3> DEFINE first == CHOOSE pm \in Specs!parsePortSpec(s) : TRUE
    <3>1. first \in PortMaps
      <4>1. first \in Specs!parsePortSpec(s)
        BY <2>4
      <4> HIDE DEF first
      <4>2. QED
        BY <4>1, SpecParsed
    <3>2. new = [i \in 1..1 |-> first]
      BY <2>3, <2>4
    <3> HIDE DEF first
    <3>3. QED
      BY <3>1, <3>2
  <2>6. new \in Seq(PortMaps)
    BY <2>5, SeqDef
  <2>7. ports' \in Seq(PortMaps) /\ line' = <<>> /\ typed' = <<>>
    BY <1>1, <2>2, <2>6, ConcatProperties DEF SpecInv, Specs!Type, Specs!NoLine
  <2>8. QED
    BY <2>7 DEF SpecInv
<1>2. CASE Specs!Show
  BY <1>2 DEF Specs!Show, SpecInv, Shown
<1>3. CASE Specs!TypeBack
  <2>1. line # <<>> /\ typed # <<>> /\ line = Shown(typed) /\ typed' = typed /\ line' = <<>>
    BY <1>3 DEF Specs!TypeBack, SpecInv, Specs!NoLine
  <2>2. ports' = typed
    BY <1>3, <2>1, LineBack DEF Specs!TypeBack, SpecInv
  <2>3. QED
    BY <2>1, <2>2 DEF SpecInv
<1>4. CASE UNCHANGED spec
  BY <1>4 DEF spec, SpecInv
<1>5. QED
  BY <1>1, <1>2, <1>3, <1>4 DEF Specs!Next

LEMMA SpecSafe == SpecInv => Specs!SameOrRefused
<1> SUFFICES ASSUME SpecInv PROVE Specs!SameOrRefused
  OBVIOUS
<1>1. ASSUME line # <<>>, Specs!parsePortsLine(line) = {}
      PROVE  \E i \in 1..Len(typed) : Len(typed[i].target) > 1 /\ typed[i].target[1].host = Local
  BY <1>1, LineBack DEF SpecInv
<1>2. QED
  BY <1>1 DEF SpecInv, Specs!SameOrRefused, Specs!NoLine

-------------------------------------------------------------------------------
(* Setup.  Whoever wrote or edited a box's configuration, all its          *)
(* disguises face the way its role and direction have it.                  *)

Kinds == {"wss", "noise", "plain", "kcp", "quic"}
DataOnly == [preset |-> "custom", fec |-> <<10, 0>>]
KCPs == {[preset |-> Unset, fec |-> NoFEC], [preset |-> "turbo", fec |-> NoFEC],
         [preset |-> "custom", fec |-> NoFEC], DataOnly}
          \cup {[preset |-> p, fec |-> Shards(p)] : p \in Named}

Faced(listens) ==
  {[type |-> t, listen |-> listens, dial |-> ~listens, kcp |-> k] : t \in Kinds, k \in KCPs}
Listens(r, direction) == ~DialsOut(r, direction)

Written(r, c) ==
  /\ c = [mode |-> c.mode, direction |-> c.direction, dis |-> c.dis]
  /\ c.mode = "udp" => c.direction = "reverse"
  /\ c.direction \in Directions
  /\ c.dis \in Seq(Faced(Listens(r, c.direction))) /\ c.dis # <<>>

SetupInv ==
  /\ conf = [r \in Roles |-> conf[r]]
  /\ \A r \in Roles : conf[r] # None => Written(r, conf[r])

LEMMA WaysOpposed ==
  ASSUME NEW direction \in Directions
  PROVE  /\ Listens("server", direction) = (direction # "direct")
         /\ Listens("client", direction) = (direction = "direct")
         /\ DialsOut("server", direction) = (direction = "direct")
         /\ DialsOut("client", direction) = (direction # "direct")
<1>1. ("server" = "server") /\ ("client" # "server")
  OBVIOUS
<1>2. DialsOut("server", direction) = (direction = "direct")
  BY <1>1, Zenon DEF DialsOut
<1>3. DialsOut("client", direction) = (direction # "direct")
  BY <1>1, Zenon DEF DialsOut
<1>4. QED
  BY <1>2, <1>3, Zenon DEF Listens

LEMMA KCPTried ==
  ASSUME NEW k \in KCPs, k.preset \in {Unset, "custom"}, k.fec[1] > 0, k.fec[2] = 0
  PROVE  k = DataOnly
<1>1. CASE k \in {[preset |-> p, fec |-> Shards(p)] : p \in Named}
  BY <1>1 DEF Named, Unset
<1>2. CASE k \in {[preset |-> Unset, fec |-> NoFEC], [preset |-> "turbo", fec |-> NoFEC],
                  [preset |-> "custom", fec |-> NoFEC], DataOnly}
  <2>1. NoFEC[1] = 0
    BY DEF NoFEC
  <2>2. k.fec # NoFEC
    BY <2>1
  <2>3. QED
    BY <1>2, <2>2 DEF DataOnly, Unset
<1>3. QED
  BY <1>1, <1>2 DEF KCPs

LEMMA FacedFields ==
  ASSUME NEW out \in BOOLEAN, NEW d \in Faced(~out)
  PROVE  d.listen = ~out /\ d.dial = out /\ d.kcp \in KCPs
<1>1. PICK t \in Kinds, k \in KCPs :
        d = [type |-> t, listen |-> ~out, dial |-> ~~out, kcp |-> k]
  BY DEF Faced
<1>2. d.listen = ~out /\ d.kcp \in KCPs
  BY <1>1
<1>3. (~~out) = out
  BY Zenon
<1>4. d = [type |-> t, listen |-> ~out, dial |-> out, kcp |-> k]
  BY <1>1, <1>3, Zenon
<1>5. d.dial = out
  BY <1>4
<1>6. QED
  BY <1>2, <1>5

LEMMA AnswerFaced ==
  ASSUME NEW type \in Kinds, NEW listens, NEW a \in Answer(type, listens)
  PROVE  a \in Faced(listens)
<1>1. PICK k \in IF type = "kcp" THEN KCPSettings ELSE {[preset |-> Unset, fec |-> NoFEC]} :
        a = [type |-> type, listen |-> listens, dial |-> ~listens, kcp |-> k]
  BY DEF Answer
<1>2. k \in KCPs
  <2>1. KCPSettings \subseteq KCPs
    BY SetupAssumption DEF KCPSettings, KCPs, DataOnly
  <2>2. [preset |-> Unset, fec |-> NoFEC] \in KCPs
    BY DEF KCPs
  <2>3. QED
    BY <1>1, <2>1, <2>2
<1>3. QED
  BY <1>1, <1>2 DEF Faced

LEMMA AskedFaced ==
  ASSUME NEW listens, NEW exclude, Cardinality(exclude) \in Nat,
         NEW l \in AskDisguises(listens, exclude)
  PROVE  l \in Seq(Faced(listens)) /\ l # <<>>
<1> DEFINE answers == UNION {Answer(Types[i], listens) : i \in {j \in 1..5 : Types[j] \notin exclude}}
<1>1. PICK n \in 1..(MaxDisguises - Cardinality(exclude)) : l \in [1..n -> answers]
  BY DEF AskDisguises
<1>2. answers \subseteq Faced(listens)
  <2>1. \A i \in 1..5 : Types[i] \in Kinds
    BY DEF Types, Kinds
  <2>2. QED
    BY <2>1, AnswerFaced
<1> HIDE DEF answers
<1>3. n \in Nat /\ n >= 1
  BY <1>1, SetupAssumption
<1>4. l \in [1..n -> Faced(listens)]
  BY <1>1, <1>2
<1>5. l \in Seq(Faced(listens))
  BY <1>3, <1>4, SeqDef
<1>6. 1 \in DOMAIN l
  BY <1>1, <1>3
<1>7. QED
  BY <1>5, <1>6

LEMMA ListFaced ==
  ASSUME NEW mode, NEW type \in Kinds, NEW listens, NEW l \in Lists(mode, type, listens)
  PROVE  l \in Seq(Faced(listens)) /\ l # <<>>
<1> DEFINE backups == {<<>>} \cup IF mode = "udp" THEN {} ELSE AskDisguises(listens, {type})
<1>1. PICK a \in Answer(type, listens) : l \in {<<a>> \o more : more \in backups}
  BY DEF Lists
<1>2. PICK more \in backups : l = <<a>> \o more
  BY <1>1
<1>3. more = <<>> \/ more \in AskDisguises(listens, {type})
  BY <1>2
<1> HIDE DEF backups
<1>4. more \in Seq(Faced(listens))
  <2>1. Cardinality({type}) \in Nat
    BY FS_Singleton
  <2>2. CASE more = <<>>
    BY <2>2
  <2>3. CASE more \in AskDisguises(listens, {type})
    BY <2>1, <2>3, AskedFaced
  <2>4. QED
    BY <1>3, <2>2, <2>3
<1>5. <<a>> \in Seq(Faced(listens)) /\ Len(<<a>>) = 1
  BY <1>1, AnswerFaced
<1>6. l \in Seq(Faced(listens)) /\ Len(l) = Len(<<a>>) + Len(more) /\ Len(more) \in Nat
  BY <1>2, <1>4, <1>5, ConcatProperties, LenProperties
<1>7. Len(l) # 0
  BY <1>5, <1>6
<1>8. QED
  BY <1>6, <1>7, EmptySeq

LEMMA TransportKinds ==
  ASSUME NEW direction \in Directions, NEW t \in Transports(direction)
  PROVE  t[2] \in Kinds /\ (t[1] = "udp" => direction = "reverse")
<1>1. \/ t = <<"tcp", "plain">> \/ t = <<"tcpmux", "plain">> \/ t = <<"tcpmux", "noise">>
      \/ t = <<"tcpmux", "wss">> \/ t = <<"tcpmux", "kcp">> \/ t = <<"tcpmux", "quic">>
      \/ t = <<"udp", "plain">> /\ direction = "reverse"
  BY DEF Transports
<1>2. QED
  BY <1>1 DEF Kinds

LEMMA WrittenBy ==
  ASSUME NEW r, NEW direction \in Directions, NEW mode, NEW ds,
         mode = "udp" => direction = "reverse",
         ds \in Seq(Faced(Listens(r, direction))), ds # <<>>
  PROVE  Written(r, [mode |-> mode, direction |-> direction, dis |-> ds])
BY DEF Written

LEMMA SaveInv ==
  ASSUME SetupInv, NEW r \in Roles, NEW c, Written(r, c), Save(r, c)
  PROVE  SetupInv'
<1>1. conf' = [q \in Roles |-> IF q = r THEN c ELSE conf[q]]
  BY DEF SetupInv, Save
<1>2. conf' = [q \in Roles |-> conf'[q]] /\ \A q \in Roles : conf'[q] = IF q = r THEN c ELSE conf[q]
  BY <1>1
<1>3. \A q \in Roles : conf'[q] # None => Written(q, conf'[q])
  BY <1>2 DEF SetupInv
<1>4. QED
  BY <1>2, <1>3 DEF SetupInv

LEMMA HandWritten ==
  ASSUME NEW r \in Roles, NEW c \in ByHand(r), c # None
  PROVE  Written(r, c)
<1>1. PICK t \in {"plain", "kcp"} :
        c = [mode |-> "tcpmux", direction |-> "reverse",
             dis |-> <<[type |-> t, listen |-> r = "server", dial |-> r = "client",
                        kcp |-> [preset |-> IF t = "kcp" THEN "turbo" ELSE Unset, fec |-> NoFEC]]>>]
  BY DEF ByHand
<1> DEFINE d == [type |-> t, listen |-> r = "server", dial |-> r = "client",
                 kcp |-> [preset |-> IF t = "kcp" THEN "turbo" ELSE Unset, fec |-> NoFEC]]
<1> DEFINE way == Listens(r, "reverse")
<1>2. (r = "server") = way /\ (r = "client") = (~way)
  <2>1. Listens("server", "reverse") = TRUE /\ Listens("client", "reverse") = FALSE
    BY WaysOpposed DEF Directions
  <2>2. QED
    BY <2>1 DEF Roles
<1>3. [preset |-> IF t = "kcp" THEN "turbo" ELSE Unset, fec |-> NoFEC] \in KCPs
  BY DEF KCPs
<1> HIDE DEF way
<1>4. d = [type |-> t, listen |-> way, dial |-> ~way,
           kcp |-> [preset |-> IF t = "kcp" THEN "turbo" ELSE Unset, fec |-> NoFEC]]
  BY <1>2, Zenon
<1> HIDE DEF d
<1>5. d \in Faced(way)
  BY <1>1, <1>3, <1>4 DEF Faced, Kinds
<1>6. <<d>> \in Seq(Faced(Listens(r, "reverse"))) /\ <<d>> # <<>>
  BY <1>5 DEF way
<1>7. c = [mode |-> "tcpmux", direction |-> "reverse", dis |-> <<d>>]
  BY <1>1 DEF d
<1>8. QED
  BY <1>6, <1>7, WrittenBy DEF Directions

LEMMA SetupInit == (Init \/ conf = [r \in Roles |-> None]) => SetupInv
<1>1. CASE Init
  <2>1. PICK s \in ByHand("server"), c \in ByHand("client") :
          conf = [r \in Roles |-> IF r = "server" THEN s ELSE c]
    BY <1>1 DEF Init
  <2>2. conf = [r \in Roles |-> conf[r]] /\ conf["server"] = s /\ conf["client"] = c
    BY <2>1 DEF Roles
  <2>3. QED
    BY <2>2, HandWritten DEF SetupInv, Roles
<1>2. CASE conf = [r \in Roles |-> None]
  BY <1>2 DEF SetupInv
<1>3. QED
  BY <1>1, <1>2

LEMMA SetupStep == SetupInv /\ [Next]_conf => SetupInv'
<1> SUFFICES ASSUME SetupInv, [Next]_conf PROVE SetupInv'
  OBVIOUS
<1>1. CASE WizardServer
  <2>1. PICK direction \in Directions : \E t \in Transports(direction) :
          \E ds \in Lists(t[1], t[2], direction # "direct") :
            Save("server", [mode |-> t[1], direction |-> direction, dis |-> ds])
    BY <1>1 DEF WizardServer
  <2>2. PICK t \in Transports(direction) : \E ds \in Lists(t[1], t[2], direction # "direct") :
          Save("server", [mode |-> t[1], direction |-> direction, dis |-> ds])
    BY <2>1
  <2>3. PICK ds \in Lists(t[1], t[2], direction # "direct") :
          Save("server", [mode |-> t[1], direction |-> direction, dis |-> ds])
    BY <2>2
  <2>4. Lists(t[1], t[2], direction # "direct") = Lists(t[1], t[2], Listens("server", direction))
    BY WaysOpposed
  <2>5. ds \in Seq(Faced(Listens("server", direction))) /\ ds # <<>>
    BY <2>3, <2>4, TransportKinds, ListFaced
  <2>6. Written("server", [mode |-> t[1], direction |-> direction, dis |-> ds])
    BY <2>5, TransportKinds, WrittenBy
  <2>7. QED
    BY <2>3, <2>6, SaveInv DEF Roles
<1>2. CASE WizardClient
  <2>1. PICK direction \in Directions : \E t \in Transports(direction) :
          \E ds \in Lists(t[1], t[2], direction = "direct") :
            Save("client", [mode |-> t[1], direction |-> direction, dis |-> ds])
    BY <1>2 DEF WizardClient
  <2>2. PICK t \in Transports(direction) : \E ds \in Lists(t[1], t[2], direction = "direct") :
          Save("client", [mode |-> t[1], direction |-> direction, dis |-> ds])
    BY <2>1
  <2>3. PICK ds \in Lists(t[1], t[2], direction = "direct") :
          Save("client", [mode |-> t[1], direction |-> direction, dis |-> ds])
    BY <2>2
  <2>4. Lists(t[1], t[2], direction = "direct") = Lists(t[1], t[2], Listens("client", direction))
    BY WaysOpposed
  <2>5. ds \in Seq(Faced(Listens("client", direction))) /\ ds # <<>>
    BY <2>3, <2>4, TransportKinds, ListFaced
  <2>6. Written("client", [mode |-> t[1], direction |-> direction, dis |-> ds])
    BY <2>5, TransportKinds, WrittenBy
  <2>7. QED
    BY <2>3, <2>6, SaveInv DEF Roles
<1>3. ASSUME NEW r \in Roles, EditDisguises(r) PROVE SetupInv'
  <2>1. PICK ds \in AskDisguises(~DialsOut(r, conf[r].direction), {}) :
          Save(r, [conf[r] EXCEPT !.dis = ds])
    BY <1>3 DEF EditDisguises
  <2>2. Written(r, conf[r])
    BY <1>3 DEF EditDisguises, SetupInv
  <2>3. ds \in Seq(Faced(Listens(r, conf[r].direction))) /\ ds # <<>>
    <3>1. Cardinality({}) \in Nat
      BY FS_EmptySet
    <3>2. QED
      BY <2>1, <3>1, AskedFaced DEF Listens
  <2>4. [conf[r] EXCEPT !.dis = ds]
          = [mode |-> conf[r].mode, direction |-> conf[r].direction, dis |-> ds]
    BY <2>2 DEF Written
  <2>5. Written(r, [mode |-> conf[r].mode, direction |-> conf[r].direction, dis |-> ds])
    BY <2>2, <2>3, WrittenBy DEF Written
  <2>6. QED
    BY <2>1, <2>4, <2>5, SaveInv
<1>4. CASE UNCHANGED conf
  BY <1>4 DEF SetupInv
<1>5. QED
  BY <1>1, <1>2, <1>3, <1>4 DEF Next

LEMMA EachFaced ==
  ASSUME NEW r \in Roles, NEW c, Written(r, c), NEW i \in 1..Len(c.dis)
  PROVE  /\ c.dis[i].listen = ~DialsOut(r, c.direction)
         /\ c.dis[i].dial = DialsOut(r, c.direction)
         /\ c.dis[i].kcp \in KCPs
<1> DEFINE out == DialsOut(r, c.direction)
<1>1. c.dis[i] \in Faced(~out)
  BY ElementOfSeq DEF Written, Listens
<1>2. out \in BOOLEAN
  BY DEF DialsOut
<1> HIDE DEF out
<1>3. c.dis[i].listen = ~out /\ c.dis[i].dial = out /\ c.dis[i].kcp \in KCPs
  BY <1>1, <1>2, FacedFields
<1>4. QED
  BY <1>3 DEF out

LEMMA SetupSafe == SetupInv => PeersMeet
<1> SUFFICES ASSUME SetupInv PROVE PeersMeet
  OBVIOUS
<1>1. ASSUME NEW r \in Roles, conf[r] # None, ~Loads(r, conf[r])
      PROVE  \E i \in 1..Len(conf[r].dis) : conf[r].dis[i].kcp = DataOnly
  <2> DEFINE c == conf[r]
  <2>1. Written(r, c)
    BY <1>1 DEF SetupInv
  <2>2. ~Loads(r, c)
    BY <1>1
  <2> HIDE DEF c
  <2>3. PICK i \in 1..Len(c.dis) :
          ~(LET d == c.dis[i]
            IN /\ d.type = "kcp" /\ d.kcp.preset \in {Unset, "custom"} =>
                    ~(d.kcp.fec[1] > 0 /\ d.kcp.fec[2] = 0)
               /\ IF DialsOut(r, c.direction) THEN d.dial ELSE d.listen)
    BY <2>1, <2>2 DEF Loads, Written
  <2>4. IF DialsOut(r, c.direction) THEN c.dis[i].dial ELSE c.dis[i].listen
    BY <2>1, EachFaced, Zenon
  <2>5. /\ c.dis[i].kcp.preset \in {Unset, "custom"}
        /\ c.dis[i].kcp.fec[1] > 0 /\ c.dis[i].kcp.fec[2] = 0
    BY <2>3, <2>4
  <2>6. c.dis[i].kcp = DataOnly
    BY <2>1, <2>5, EachFaced, KCPTried
  <2>7. QED
    BY <2>6 DEF c
<1>2. WrittenLoads
  BY <1>1 DEF WrittenLoads, DataOnly
<1>3. ASSUME conf["server"] # None, conf["client"] # None,
             conf["server"].direction = conf["client"].direction,
             NEW i \in 1..Len(conf["server"].dis), NEW j \in 1..Len(conf["client"].dis)
      PROVE  /\ conf["server"].dis[i].listen = conf["client"].dis[j].dial
             /\ conf["server"].dis[i].dial = conf["client"].dis[j].listen
             /\ conf["server"].dis[i].listen # conf["server"].dis[i].dial
  <2> DEFINE s == conf["server"]
             c == conf["client"]
             out == s.direction = "direct"
  <2>1. Written("server", s) /\ Written("client", c) /\ s.direction \in Directions
    BY <1>3 DEF SetupInv, Written, Roles
  <2>2. s.direction = c.direction /\ i \in 1..Len(s.dis) /\ j \in 1..Len(c.dis)
    BY <1>3
  <2> HIDE DEF s, c
  <2>3. /\ s.dis[i].listen = ~DialsOut("server", s.direction)
        /\ s.dis[i].dial = DialsOut("server", s.direction)
    BY <2>1, <2>2, EachFaced DEF Roles
  <2>4. /\ c.dis[j].listen = ~DialsOut("client", s.direction)
        /\ c.dis[j].dial = DialsOut("client", s.direction)
    BY <2>1, <2>2, EachFaced DEF Roles
  <2>5. DialsOut("server", s.direction) = out /\ DialsOut("client", s.direction) = ~out
    BY <2>1, WaysOpposed
  <2>6. out \in BOOLEAN
    OBVIOUS
  <2> HIDE DEF out
  <2>7. /\ s.dis[i].listen = c.dis[j].dial /\ s.dis[i].dial = c.dis[j].listen
        /\ s.dis[i].listen # s.dis[i].dial
    BY <2>3, <2>4, <2>5, <2>6, Zenon
  <2>8. QED
    BY <2>7 DEF s, c
<1>4. QED
  BY <1>2, <1>3 DEF PeersMeet

-------------------------------------------------------------------------------
(* A behaviour is one of one part; the others keep their first state.      *)

PartInv == SetupInv /\ (part = "size" => SizeInv) /\ SpecInv /\ AutoInv

LEMMA PartFirst == PartInit => PartInv
<1> SUFFICES ASSUME PartInit PROVE PartInv
  OBVIOUS
<1>1. SpecInv /\ AutoInv
  BY SpecInit, AutoInit DEF PartInit
<1>2. SetupInv
  BY SetupInit DEF PartInit
<1>3. part = "size" => SizeInv
  BY SizeInit DEF PartInit
<1>4. QED
  BY <1>1, <1>2, <1>3 DEF PartInv

LEMMA PartStep == PartInv /\ [PartNext]_<<part, conf, size, spec, auto>> => PartInv'
<1> SUFFICES ASSUME PartInv, [PartNext]_<<part, conf, size, spec, auto>> PROVE PartInv'
  OBVIOUS
<1>1. /\ part' = part /\ [Next]_conf /\ [Specs!Next]_spec /\ [Timer!Next]_auto
      /\ part = "size" => [Size!Next]_size
  BY DEF PartNext
<1>2. SetupInv' /\ SpecInv' /\ AutoInv'
  BY <1>1, SetupStep, SpecStep, AutoStep DEF PartInv
<1>3. part' = "size" => SizeInv'
  BY <1>1, SizeStep DEF PartInv
<1>4. QED
  BY <1>2, <1>3 DEF PartInv

LEMMA PartAlways == PartSpec => []PartInv
BY PartFirst, PartStep, PTL DEF PartSpec

\* Two boxes given the same direction, whoever wrote and edited their files,
\* have one that listens and one that dials on each disguise they share, and
\* both files load (wizard.go, tunnels.go's editor, config.go's validate).
THEOREM BoxesMeet == PartSpec => []PeersMeet
<1>1. PartInv => PeersMeet
  BY SetupSafe DEF PartInv
<1>2. QED
  BY <1>1, PartAlways, PTL

\* A session's buffer holds four streams', and no buffer is below the link the
\* tunnel was fitted to, for every box and link whose product is not one of the
\* fingerprints (bench.go's resolved, update.go's migrateStaleTuning).
THEOREM BuffersFit == PartSpec => []FitsLink
<1>1. PartInv => FitsLink
  BY SizeFits DEF PartInv, FitsLink
<1>2. QED
  BY <1>1, PartAlways, PTL

\* An update leaves nothing of the numbers v0.12.0 wrote for the tiers that a
\* box of those days had (update.go's migrateStaleTuning).
THEOREM ResetsBugs == PartSpec => StaleReset
<1>1. PartInv => (part = "size" => Size!ResetRight)
  BY UpdateOf, PrintedAre DEF PartInv, Size!ResetRight
<1>2. PartInv /\ [PartNext]_<<part, conf, size, spec, auto>>
        => [part = "size" => Size!ResetRight]_<<part, size>>
  BY <1>1
<1>3. QED
  BY <1>2, PartAlways, PTL DEF PartSpec, StaleReset

\* A line of ports typed back as it is shown is refused or is the same ports,
\* for lines of any length (ports.go's parsePortSpec and formatPortSpec).
THEOREM SpecsReturn == PartSpec => []SameOrRefused
<1>1. PartInv => SameOrRefused
  BY SpecSafe DEF PartInv, SameOrRefused
<1>2. QED
  BY <1>1, PartAlways, PTL

\* A refresh timer that runs is one the menu shows, and has its service,
\* wherever the menu was cut off and the box restarted (autorefresh.go).
THEOREM TimersShown == PartSpec => []NeverHidden
<1>1. PartInv => NeverHidden
  BY DEF PartInv, AutoInv, NeverHidden, Timer!NeverHidden
<1>2. QED
  BY <1>1, PartAlways, PTL

===============================================================================
