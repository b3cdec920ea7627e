-------------------------- MODULE ThermostatProofs --------------------------
(***************************************************************************)
(* What holds of a thermostat for any setpoints, readings, guards, timeouts *)
(* and overrides, and any number of faults, restarts and things people do.  *)
(***************************************************************************)
EXTENDS Thermostat, SequenceTheorems, TLAPS

-----------------------------------------------------------------------------
(* The constants, and the parts of a thermostat that are records.           *)

LEMMA Sizes ==
    /\ SensorTimeout \in Nat \ {0} /\ Confirm \in Nat \ {0}
    /\ MaxRetry \in Nat \ {0} /\ StartupGrace \in Nat \ {0}
    /\ FirstReading \in Nat \ {0} /\ HoldFor \in Nat \ {0} /\ Room \in Nat \ {0}
    /\ MinOn \in Nat /\ MinOff \in Nat /\ MaxRun \in Nat /\ OverrideFor \in Nat
    /\ MaxInputs \in Nat /\ MaxFaults \in Nat /\ Half \in Nat
    /\ Guard \in Nat /\ Guard >= MinOff /\ None = -1 /\ None \notin Nat
  BY ThermostatAssumption DEF Guard, None

(* What a decision on a thermostat leaves alone.                            *)
Same(x, y) ==
    /\ y.mode = x.mode /\ y.commanded = x.commanded /\ y.confirmed = x.confirmed
    /\ y.changed = x.changed /\ y.bypass = x.bypass
    /\ y.enteringOff = x.enteringOff

LEMMA LookedIn ==
    ASSUME NEW x \in ThermoRecord, NEW r, NEW s
    PROVE  /\ Looked(x, r, s) \in ThermoRecord
           /\ Same(x, Looked(x, r, s))
           /\ x.override # 0 => Looked(x, r, s).override = x.override
<1> DEFINE grace == IF x.grace = 0 THEN None ELSE x.grace
<1>1. PICK st \in Flag : st = (Active(x) /\ ~IsFresh(r) /\ ~WaitingForFirst(grace, r))
  BY Zenon DEF Flag
<1>2. PICK tr \in Flag :
         tr = (x.tripped \/ /\ Active(x) /\ MaxRun > 0
                            /\ NowOn(x, s) = "on" /\ x.ran >= MaxRun)
  BY Zenon DEF Flag
<1>3. PICK fo \in Flag : fo = (x.force \/ x.override = 0)
  BY Zenon DEF Flag
<1>4. PICK ho, ov, gr : /\ ho = (IF x.hold.left = 0 THEN NoHold ELSE x.hold)
                        /\ ov = (IF x.override = 0 THEN None ELSE x.override)
                        /\ gr = grace
  OBVIOUS
<1>5. Looked(x, r, s) = [x EXCEPT !.hold = ho, !.override = ov, !.force = fo,
                               !.grace = gr, !.stale = st, !.tripped = tr]
  BY <1>1, <1>2, <1>3, <1>4 DEF Looked
<1>6. /\ x.hold \in Holds /\ x.override \in Overrides /\ x.grace \in Graces
  BY DEF ThermoRecord
<1>7. /\ ho \in Holds /\ ov \in Overrides /\ gr \in Graces
      /\ st \in Flag /\ tr \in Flag /\ fo \in Flag
  BY <1>1, <1>2, <1>3, <1>4, <1>6 DEF Holds, Overrides, Graces
<1>8. PICK y : y = [x EXCEPT !.hold = ho, !.override = ov, !.force = fo,
                             !.grace = gr, !.stale = st, !.tripped = tr]
  OBVIOUS
<1>9. y \in ThermoRecord /\ Same(x, y) /\ y.override = ov
  <2>1. y \in ThermoRecord
    BY <1>7, <1>8 DEF ThermoRecord
  <2>2. Same(x, y) /\ y.override = ov
    BY <1>8 DEF ThermoRecord, Same
  <2>3. QED
    BY <2>1, <2>2
<1>10. Looked(x, r, s) = y
  BY <1>5, <1>8
<1>11. QED
  BY <1>4, <1>9, <1>10

(* A decision: what it wants of the switch, and that it wants nothing of a  *)
(* switch in a person's hands.                                              *)
LEMMA DecidedIn ==
    ASSUME NEW x \in ThermoRecord, NEW r, NEW d, d = Decided(x, r)
    PROVE  /\ d.thermo \in ThermoRecord /\ Same(x, d.thermo)
           /\ d.thermo.override = x.override
           /\ d.want \in Asked
           /\ d.want = "on" => ~ d.safety
           /\ ~ x.enteringOff /\ x.override # None => d.want = "unknown"
<1>0. PICK c \in Flag : c = CallFor(r.value, Target(x), x.mode, x.calling)
  BY Zenon DEF Flag, CallFor
<1>1. PICK tr \in Flag : tr = (x.tripped /\ c)
  BY Zenon DEF Flag
<1>2. PICK y1, y2 : /\ y1 = [x EXCEPT !.calling = FALSE]
                    /\ y2 = [x EXCEPT !.calling = c, !.tripped = tr]
  OBVIOUS
<1>3. FALSE \in Flag /\ c \in Flag /\ tr \in Flag
  BY <1>0, <1>1 DEF Flag
<1>4. /\ y1 \in ThermoRecord /\ Same(x, y1) /\ y1.override = x.override
      /\ y2 \in ThermoRecord /\ Same(x, y2) /\ y2.override = x.override
      /\ x \in ThermoRecord /\ Same(x, x)
  BY <1>2, <1>3 DEF ThermoRecord, Same
<1>5. CASE x.enteringOff
  <2>1. d.thermo = x /\ d.want = "off"
    BY <1>5 DEF Decided
  <2>2. QED
    BY <1>4, <1>5, <2>1 DEF Asked, Words
<1>6. CASE ~ x.enteringOff /\ (~Active(x) \/ x.override # None \/ WaitingForFirst(x.grace, r))
  <2>1. d.thermo = x /\ d.want = "unknown"
    BY <1>6 DEF Decided
  <2>2. QED
    BY <1>4, <1>6, <2>1 DEF Asked, Words
<1>7. CASE /\ ~ x.enteringOff /\ x.stale
           /\ ~ (~Active(x) \/ x.override # None \/ WaitingForFirst(x.grace, r))
  <2>1. d.thermo = y1 /\ d.want \in {"off", "unknown"}
    BY <1>2, <1>7 DEF Decided
  <2>2. QED
    BY <1>4, <1>7, <2>1 DEF Asked, Words
<1>8. CASE /\ ~ x.enteringOff /\ ~ x.stale
           /\ ~ (~Active(x) \/ x.override # None \/ WaitingForFirst(x.grace, r))
  <2>1. d = [thermo |-> y2, want |-> IF c /\ ~tr THEN "on" ELSE "off", safety |-> tr]
    BY <1>0, <1>1, <1>2, <1>8 DEF Decided
  <2>2. d.thermo = y2 /\ d.want \in Words /\ (d.want = "on" => ~ d.safety)
    BY <2>1 DEF Words
  <2>3. QED
    BY <1>4, <1>8, <2>2 DEF Asked
<1>9. QED
  BY <1>5, <1>6, <1>7, <1>8

-----------------------------------------------------------------------------
(* A command, and what becomes of a want.                                   *)

LEMMA BackoffIn ==
    ASSUME NEW n \in 1..7
    PROVE  /\ Backoff(n) \in Retries /\ Tries(n) \in Counts
<1> DEFINE powers == <<1, 2, 4, 8, 16, 32>>
<1>1. PICK k \in 1..6 : k = (IF n > 6 THEN 6 ELSE n)
  OBVIOUS
<1>2. powers[k] \in Nat
  OBVIOUS
<1>3. PICK p \in Nat : p = powers[k]
  BY <1>2
<1>4. Confirm * p \in Nat
  BY Sizes
<1>5. Backoff(n) = (IF Confirm * p > MaxRetry THEN MaxRetry ELSE Confirm * p)
  BY <1>1, <1>3 DEF Backoff
<1>6. Backoff(n) \in Retries
  BY <1>4, <1>5, Sizes DEF Retries
<1>7. n = 7 => Backoff(7) = Backoff(6)
  BY DEF Backoff
<1>8. Tries(n) \in Counts
  BY <1>7 DEF Tries, Counts
<1>9. QED
  BY <1>6, <1>8

LEMMA SentIn ==
    ASSUME NEW x \in ThermoRecord, NEW s \in Sight, NEW w \in Words
    PROVE  LET y == Sent(x, s, w) IN
           /\ y \in ThermoRecord
           /\ y.commanded = w /\ (y.confirmed => s.on = w)
           /\ y.mode = x.mode /\ y.override = x.override /\ y.changed = x.changed
           /\ y.enteringOff => x.enteringOff
<1>1. PICK n \in 1..7 : n = (IF x.commanded = w /\ ~x.confirmed THEN x.attempts + 1 ELSE 1)
  BY DEF ThermoRecord, Counts
<1>2. PICK at \in Counts, re \in Retries : at = Tries(n) /\ re = Backoff(n)
  BY BackoffIn
<1>3. PICK wa \in Waits : wa = (IF x.commanded = w /\ ~x.confirmed THEN x.waited ELSE 0)
  BY Sizes DEF ThermoRecord, Waits
<1>4. PICK co \in Flag : co = (s.on = w)
  BY Zenon DEF Flag
<1>5. PICK en \in Flag : en = (x.enteringOff /\ n < 3)
  BY Zenon DEF Flag
<1>6. PICK ru \in RunTimes :
         ru = (IF w = "on" /\ x.ran = None THEN 0
               ELSE IF w = "off" /\ s.on = "unknown" THEN None ELSE x.ran)
  BY Sizes DEF ThermoRecord, RunTimes
<1>7. Sent(x, s, w) =
        [x EXCEPT !.attempts = at, !.waited = wa, !.commanded = w, !.confirmed = co,
                  !.retryIn = re, !.force = FALSE, !.bypass = FALSE, !.enteringOff = en,
                  !.ran = ru]
  BY <1>1, <1>2, <1>3, <1>4, <1>5, <1>6 DEF Sent
<1>8. PICK y : y =
        [x EXCEPT !.attempts = at, !.waited = wa, !.commanded = w, !.confirmed = co,
                  !.retryIn = re, !.force = FALSE, !.bypass = FALSE, !.enteringOff = en,
                  !.ran = ru]
  OBVIOUS
<1>9. /\ FALSE \in Flag /\ w \in Asked /\ at \in Counts /\ re \in Retries /\ wa \in Waits
      /\ co \in Flag /\ en \in Flag /\ ru \in RunTimes
  BY <1>2, <1>3, <1>4, <1>5, <1>6 DEF Flag, Asked
<1>10. y \in ThermoRecord
  BY <1>8, <1>9, ZenonT(30) DEF ThermoRecord
<1>11. /\ y.commanded = w /\ y.confirmed = co /\ y.enteringOff = en
       /\ y.mode = x.mode /\ y.override = x.override /\ y.changed = x.changed
  BY <1>8 DEF ThermoRecord
<1>12. Sent(x, s, w) = y
  BY <1>7, <1>8
<1>13. QED
  BY <1>4, <1>5, <1>10, <1>11, <1>12

(* What is confirmed is what the switch was last seen to be.                *)
Confirms(x, s) == x.confirmed => x.commanded \in Words /\ s.on = x.commanded

(* What settling a want on a thermostat leaves alone.                       *)
Keeps(x, y) ==
    /\ y.mode = x.mode /\ y.override = x.override
    /\ y.enteringOff => x.enteringOff

(* What comes of settling a want w.                                         *)
Outcome(x, s, w, safety, e) ==
    /\ e[1] \in ThermoRecord /\ e[2] \in Asked
    /\ e[2] # "unknown" => e[2] = w
    /\ Keeps(x, e[1]) /\ e[1].changed \in {x.changed, 0}
    /\ Confirms(x, s) => Confirms(e[1], s)
    /\ e[2] = "off" /\ x.commanded # "off" /\ s.on # "off" => e[1].changed = 0
    /\ e[2] = "on" /\ x.commanded # "on" /\ s.on # "on" /\ ~safety /\ ~x.bypass
       => x.changed >= MinOff

LEMMA SettledIn ==
    ASSUME NEW x \in ThermoRecord, NEW s \in Sight, NEW w \in Asked, NEW safety,
           NEW e, e = Settled(x, s, w, safety)
    PROVE  Outcome(x, s, w, safety, e)
<1> USE DEF Outcome
<1> DEFINE nowOn == NowOn(x, s)
           transition == nowOn # w /\ x.commanded # w
           guarded == /\ transition /\ ~safety /\ ~x.bypass
                      /\ LockoutRemaining(nowOn = "on", x.changed) > 0
<1>1. CASE w = "unknown"
  <2>1. PICK y : y = [x EXCEPT !.retryIn = None, !.force = FALSE]
    OBVIOUS
  <2>2. None \in Retries /\ FALSE \in Flag
    BY DEF Retries, Flag
  <2>3. y \in ThermoRecord
    BY <2>1, <2>2 DEF ThermoRecord
  <2>4. /\ y.confirmed = x.confirmed /\ y.commanded = x.commanded
        /\ y.changed = x.changed /\ Keeps(x, y)
    BY <2>1 DEF ThermoRecord, Keeps
  <2>5. e = <<y, "unknown">>
    BY <1>1, <2>1 DEF Settled
  <2>6. e[1] = y /\ e[2] = "unknown"
    BY <2>5
  <2>7. QED
    BY <2>3, <2>4, <2>6 DEF Confirms, Asked
<1>2. CASE w # "unknown" /\ x.commanded = w /\ ~x.confirmed /\ ~x.force
  <2>1. w \in Words
    BY <1>2 DEF Asked
  <2>2. PICK y : y = Sent(x, s, w)
    OBVIOUS
  <2>3. /\ y \in ThermoRecord /\ y.commanded = w /\ (y.confirmed => s.on = w)
        /\ y.changed = x.changed /\ Keeps(x, y)
    BY <2>1, <2>2, SentIn DEF Keeps
  <2>4. e = <<y, w>> \/ e = <<x, "unknown">>
    BY <1>2, <2>2 DEF Settled
  <2>5. (e[1] = y /\ e[2] = w) \/ (e[1] = x /\ e[2] = "unknown")
    BY <2>4
  <2>6. Confirms(y, s) /\ Keeps(x, x)
    BY <2>1, <2>3 DEF Confirms, Keeps
  <2>7. QED
    BY <1>2, <2>1, <2>3, <2>5, <2>6 DEF Asked
<1>3. CASE /\ w # "unknown" /\ (x.commanded # w \/ x.confirmed) /\ nowOn = w
           /\ ~x.force
  <2>1. w \in Words
    BY <1>3 DEF Asked
  <2>2. PICK y : y = [x EXCEPT !.commanded = w, !.confirmed = TRUE]
    OBVIOUS
  <2>3. TRUE \in Flag
    BY DEF Flag
  <2>4. y \in ThermoRecord
    BY <2>2, <2>3 DEF ThermoRecord
  <2>5. /\ y.commanded = w /\ y.changed = x.changed /\ Keeps(x, y)
    BY <2>2 DEF ThermoRecord, Keeps
  <2>6. e = <<IF s.on = w THEN y ELSE x, "unknown">>
    BY <1>3, <2>2 DEF Settled
  <2>7. e[1] = (IF s.on = w THEN y ELSE x) /\ e[2] = "unknown"
    BY <2>6
  <2>8. s.on = w => Confirms(y, s)
    BY <2>1, <2>5 DEF Confirms
  <2>9. QED
    BY <2>4, <2>5, <2>7, <2>8 DEF Asked, Keeps
<1>4. CASE /\ w # "unknown" /\ ~(x.commanded = w /\ ~x.confirmed /\ ~x.force)
           /\ ~((x.commanded # w \/ x.confirmed) /\ nowOn = w /\ ~x.force)
  <2>1. w \in Words
    BY <1>4 DEF Asked
  <2>2. PICK z : z = IF transition THEN [x EXCEPT !.changed = 0] ELSE x
    OBVIOUS
  <2>3. /\ z \in ThermoRecord /\ Keeps(x, z)
        /\ z.changed = IF transition THEN 0 ELSE x.changed
    <3>1. PICK v : v = [x EXCEPT !.changed = 0]
      OBVIOUS
    <3>2. 0 \in Changes
      BY Sizes DEF Changes
    <3>3. v \in ThermoRecord
      BY <3>1, <3>2 DEF ThermoRecord
    <3>4. v.changed = 0 /\ Keeps(x, v) /\ Keeps(x, x)
      BY <3>1 DEF ThermoRecord, Keeps
    <3>5. z = IF transition THEN v ELSE x
      BY <2>2, <3>1
    <3>6. QED
      BY <3>3, <3>4, <3>5
  <2>4. PICK y : y = Sent(z, s, w)
    OBVIOUS
  <2>5. /\ y \in ThermoRecord /\ y.commanded = w /\ (y.confirmed => s.on = w)
        /\ y.changed = z.changed /\ Keeps(z, y)
    BY <2>1, <2>3, <2>4, SentIn DEF Keeps
  <2>6. e = IF guarded THEN <<x, "unknown">> ELSE <<y, w>>
    BY <1>4, <2>2, <2>4 DEF Settled
  <2>7. /\ e[1] = (IF guarded THEN x ELSE y)
        /\ e[2] = (IF guarded THEN "unknown" ELSE w)
    BY <2>6
  <2>8. Confirms(y, s) /\ Keeps(x, x) /\ Keeps(x, y)
    BY <2>1, <2>3, <2>5 DEF Confirms, Keeps
  <2>9. ASSUME w = "off" \/ w = "on", x.commanded # w, s.on # w
        PROVE  transition
    BY <2>9 DEF NowOn
  <2>10. ASSUME w = "on", x.commanded # "on", s.on # "on", ~safety, ~x.bypass, ~guarded
         PROVE  x.changed >= MinOff
    <3>1. transition /\ nowOn # "on"
      BY <2>9, <2>10
    <3>2. ~ (LockoutRemaining(FALSE, x.changed) > 0)
      BY <2>10, <3>1
    <3>3. x.changed \in Nat
      BY Sizes DEF ThermoRecord, Changes
    <3>4. QED
      BY <3>2, <3>3, Sizes DEF LockoutRemaining
  <2> HIDE DEF transition, guarded, nowOn
  <2>11. e[1] \in ThermoRecord /\ e[2] \in Asked /\ Keeps(x, e[1])
    BY <2>1, <2>5, <2>7, <2>8 DEF Asked
  <2>12. e[1].changed \in {x.changed, 0} /\ (Confirms(x, s) => Confirms(e[1], s))
    BY <2>3, <2>5, <2>7, <2>8
  <2>13. e[2] # "unknown" => e[2] = w /\ e[1] = y /\ ~guarded
    BY <2>7
  <2>14. e[2] = "off" /\ x.commanded # "off" /\ s.on # "off" => e[1].changed = 0
    BY <2>3, <2>5, <2>9, <2>13
  <2>15. QED
    BY <1>4, <2>10, <2>11, <2>12, <2>13, <2>14
<1>5. QED
  BY <1>1, <1>2, <1>3, <1>4

LEMMA Appended ==
    ASSUME NEW q \in Seq(Words), NEW v \in Words, NEW w \in Words
    PROVE  /\ Append(q, v) \in Seq(Words) /\ Append(q, v) # q
           /\ Append(q, v) = Append(q, w) => v = w
<1>1. /\ Append(q, v) \in Seq(Words) /\ Len(Append(q, v)) = Len(q) + 1
      /\ Append(q, v)[Len(q) + 1] = v /\ Append(q, w)[Len(q) + 1] = w
      /\ Len(q) \in Nat
  BY AppendProperties
<1>2. Append(q, v) # q
  BY <1>1
<1>3. QED
  BY <1>1, <1>2

(* The age of the last change is no more than that of the last change to    *)
(* off, as far as the guard tells ages apart, unless a shutdown was the     *)
(* last to ask for one (p): it stamps no change.                            *)
RestedFor(x, age, p) == p \/ x.changed <= age \/ age >= MinOff

(* An off that x was told of, and t was not, is stamped as a change.        *)
Stamped(x) == x.commanded = "off" /\ t.commanded # "off" => x.changed = 0

(* What comes of deciding on x, for a switch seen as s, after a rest that   *)
(* has come to age.                                                         *)
Decides(x, s, age) ==
    /\ t' \in ThermoRecord /\ rest' \in 0..MinOff /\ orders' \in Seq(Words)
    /\ parted' \in BOOLEAN
    /\ t'.mode = x.mode /\ (t'.enteringOff => x.enteringOff)
    /\ x.override # 0 => t'.override = x.override
    /\ Confirms(x, s) => Confirms(t', s)
    /\ RestedFor(x, age, parted) /\ Stamped(x) => RestedFor(t', rest', parted')
    /\ /\ orders' = Append(orders, "on") /\ s.on # "on" /\ x.commanded # "on"
       /\ t.commanded # "on" /\ ~x.bypass /\ ~parted /\ RestedFor(x, age, parted) /\ Stamped(x)
       => rest' >= MinOff
    /\ ~x.enteringOff /\ x.override # None /\ x.override # 0 => orders' = orders

(* evaluate as a whole.                                                     *)
LEMMA DecideStep ==
    ASSUME NEW x \in ThermoRecord, NEW r, NEW s \in Sight, NEW age \in 0..MinOff,
           orders \in Seq(Words), parted \in BOOLEAN, Decide(x, r, s, age)
    PROVE  Decides(x, s, age)
<1>1. PICK y, d, e :
        /\ y = Looked(x, r, s) /\ d = Decided(y, r)
        /\ e = Settled(d.thermo, s, d.want, d.safety)
        /\ t' = [AtRest(e[1]) EXCEPT !.notResponding = NotResponding(e[1], s, d.want)]
        /\ orders' = IF e[2] = "unknown" THEN orders ELSE Append(orders, e[2])
        /\ rest' = IF \/ e[2] = "off" /\ y.commanded # "off" /\ s.on # "off"
                      \/ y.commanded = "off" /\ t.commanded # "off"
                   THEN 0 ELSE age
        /\ parted' = (parted /\ t'.changed # 0)
  BY DEF Decide
<1>2. /\ y \in ThermoRecord /\ Same(x, y) /\ (x.override # 0 => y.override = x.override)
  BY <1>1, LookedIn
<1>3. /\ d.thermo \in ThermoRecord /\ Same(y, d.thermo) /\ d.thermo.override = y.override
      /\ d.want \in Asked /\ (d.want = "on" => ~ d.safety)
      /\ ~ y.enteringOff /\ y.override # None => d.want = "unknown"
  BY <1>1, <1>2, DecidedIn
<1>4. PICK z, w, safe : /\ z = d.thermo /\ w = d.want /\ safe = d.safety
                        /\ z \in ThermoRecord /\ w \in Asked
  BY <1>3
<1>5. e = Settled(z, s, w, safe)
  BY <1>1, <1>4
<1>6. Outcome(z, s, w, safe, e)
  BY <1>4, <1>5, SettledIn
<1>7. /\ z \in ThermoRecord /\ Same(x, z)
      /\ x.override # 0 => z.override = x.override
      /\ ~ x.enteringOff /\ x.override # None /\ x.override # 0 => w = "unknown"
      /\ w = "on" => ~ safe
  BY <1>2, <1>3, <1>4 DEF Same
<1>8. PICK f, g : f = e[1] /\ g = e[2]
  OBVIOUS
<1>9. /\ f \in ThermoRecord /\ g \in Asked
      /\ g # "unknown" => g = w
      /\ Keeps(z, f) /\ f.changed \in {z.changed, 0}
      /\ Confirms(z, s) => Confirms(f, s)
      /\ g = "off" /\ z.commanded # "off" /\ s.on # "off" => f.changed = 0
      /\ g = "on" /\ z.commanded # "on" /\ s.on # "on" /\ ~safe /\ ~z.bypass
         => z.changed >= MinOff
  BY <1>6, <1>8 DEF Outcome
<1>10. /\ t' \in ThermoRecord /\ Keeps(f, t') /\ t'.changed = f.changed
       /\ t'.confirmed = f.confirmed /\ t'.commanded = f.commanded
  <2>1. PICK n \in Flag : n = NotResponding(f, s, d.want)
    BY Zenon DEF Flag, NotResponding
  <2>2. PICK a : a = AtRest(f)
    OBVIOUS
  <2>3. /\ a \in ThermoRecord /\ Keeps(f, a) /\ a.changed = f.changed
        /\ a.confirmed = f.confirmed /\ a.commanded = f.commanded
    <3>1. PICK b : b = [f EXCEPT !.attempts = 0, !.retryIn = None, !.waited = 0]
      OBVIOUS
    <3>2. 0 \in Counts /\ None \in Retries /\ 0 \in Waits
      BY Sizes DEF Counts, Retries, Waits
    <3>3. b \in ThermoRecord
      BY <1>9, <3>1, <3>2 DEF ThermoRecord
    <3>4. /\ Keeps(f, b) /\ b.changed = f.changed /\ Keeps(f, f)
          /\ b.confirmed = f.confirmed /\ b.commanded = f.commanded
      BY <1>9, <3>1 DEF ThermoRecord, Keeps
    <3>5. a = b \/ a = f
      BY <2>2, <3>1 DEF AtRest
    <3>6. QED
      BY <1>9, <3>3, <3>4, <3>5
  <2>4. PICK c : c = [a EXCEPT !.notResponding = n]
    OBVIOUS
  <2>5. c \in ThermoRecord
    BY <2>1, <2>3, <2>4 DEF ThermoRecord
  <2>6. /\ Keeps(a, c) /\ c.changed = a.changed
        /\ c.confirmed = a.confirmed /\ c.commanded = a.commanded
    BY <2>3, <2>4 DEF ThermoRecord, Keeps
  <2>7. t' = c
    BY <1>1, <1>8, <2>1, <2>2, <2>4
  <2>8. QED
    BY <2>3, <2>5, <2>6, <2>7 DEF Keeps
<1>11. orders' \in Seq(Words) /\ (orders' = Append(orders, "on") => g = "on")
  <2>1. orders' = IF g = "unknown" THEN orders ELSE Append(orders, g)
    BY <1>1, <1>8
  <2>2. CASE g = "unknown"
    BY <2>1, <2>2, Appended DEF Words
  <2>3. CASE g # "unknown"
    <3>1. g \in Words /\ "on" \in Words
      BY <1>9, <2>3 DEF Asked, Words
    <3>2. QED
      BY <2>1, <2>3, <3>1, Appended
  <2>4. QED
    BY <2>2, <2>3
<1>12. rest' = IF \/ g = "off" /\ z.commanded # "off" /\ s.on # "off"
                  \/ z.commanded = "off" /\ t.commanded # "off"
               THEN 0 ELSE age
  BY <1>1, <1>2, <1>7, <1>8 DEF Same
<1>13. rest' \in 0..MinOff /\ z.changed \in Nat /\ f.changed \in Nat
  BY <1>7, <1>9, <1>12, Sizes DEF ThermoRecord, Changes
<1>14. /\ t'.mode = x.mode /\ (t'.enteringOff => x.enteringOff)
       /\ x.override # 0 => t'.override = x.override
  BY <1>7, <1>9, <1>10 DEF Keeps, Same
<1>15. Confirms(x, s) => Confirms(t', s)
  BY <1>7, <1>9, <1>10 DEF Confirms, Same
<1>16. ASSUME RestedFor(x, age, parted), Stamped(x)
       PROVE  RestedFor(t', rest', parted')
  <2>1. parted /\ t'.changed # 0 => parted'
    BY <1>1, Zenon
  <2>2. CASE t'.changed = 0
    BY <1>13, <2>2, Sizes DEF RestedFor
  <2>3. CASE t'.changed # 0
    <3>1. t'.changed = x.changed /\ x.changed # 0
      BY <1>7, <1>9, <1>10, <2>3 DEF Same
    <3>2. rest' = age
      BY <1>7, <1>9, <1>10, <1>12, <1>16, <2>3, <3>1 DEF Stamped, Same
    <3>3. QED
      BY <1>16, <2>1, <2>3, <3>1, <3>2 DEF RestedFor
  <2>4. QED
    BY <2>2, <2>3
<1>17. ASSUME orders' = Append(orders, "on"), s.on # "on", x.commanded # "on",
              t.commanded # "on", ~x.bypass, ~parted, RestedFor(x, age, parted), Stamped(x)
       PROVE  rest' >= MinOff
  <2>1. g = "on" /\ w = "on"
    BY <1>9, <1>11, <1>17
  <2>2. z.changed >= MinOff /\ z.changed = x.changed /\ z.commanded = x.commanded
    BY <1>7, <1>9, <1>17, <2>1 DEF Same
  <2>3. CASE z.commanded = "off" /\ t.commanded # "off"
    BY <1>13, <1>17, <2>2, <2>3, Sizes DEF Stamped
  <2>4. CASE ~(z.commanded = "off" /\ t.commanded # "off")
    <3>1. rest' = age
      BY <1>12, <2>1, <2>4
    <3>2. QED
      BY <1>13, <1>17, <2>2, <3>1, Sizes DEF RestedFor
  <2>5. QED
    BY <2>3, <2>4
<1>18. ASSUME ~x.enteringOff, x.override # None, x.override # 0
       PROVE  orders' = orders
  BY <1>1, <1>7, <1>8, <1>9, <1>18
<1>19. parted' \in BOOLEAN
  BY <1>1, Zenon
<1>20. QED
  BY <1>10, <1>11, <1>13, <1>14, <1>15, <1>16, <1>17, <1>18, <1>19 DEF Decides

LEMMA EvaluateStep ==
    ASSUME NEW x \in ThermoRecord, NEW r, NEW s \in Sight, NEW age \in 0..MinOff,
           orders \in Seq(Words), parted \in BOOLEAN, Evaluate(x, r, s, age)
    PROVE  Decides(x, s, age) /\ (started \/ t' = x)
<1>1. CASE started /\ Decide(x, r, s, age)
  BY <1>1, DecideStep
<1>2. CASE ~started /\ t' = x /\ rest' = age /\ UNCHANGED <<orders, parted>>
  <2>1. orders' # Append(orders, "on")
    BY <1>2, Appended DEF Words
  <2>2. QED
    BY <1>2, <2>1 DEF Decides
<1>3. QED
  BY <1>1, <1>2 DEF Evaluate

-----------------------------------------------------------------------------
(* What is decided on: a thermostat after a tick, a report, a command, a    *)
(* restart.                                                                 *)

LEMMA ElapsedIn ==
    ASSUME NEW x \in ThermoRecord
    PROVE  LET y == Elapsed(x) IN
           /\ y \in ThermoRecord
           /\ y.mode = x.mode /\ y.commanded = x.commanded /\ y.confirmed = x.confirmed
           /\ y.bypass = x.bypass /\ y.enteringOff = x.enteringOff
           /\ y.changed = Older(x.changed, Guard) /\ y.override = Later(x.override)
<1>1. PICK ho, wa, re, ch, ru, ov, gr :
        /\ ho = [x.hold EXCEPT !.left = Later(@)] /\ wa = Older(x.waited, Confirm)
        /\ re = Later(x.retryIn) /\ ch = Older(x.changed, Guard)
        /\ ru = Older(x.ran, MaxRun) /\ ov = Later(x.override) /\ gr = Later(x.grace)
  OBVIOUS
<1>2. Elapsed(x) = [x EXCEPT !.hold = ho, !.waited = wa, !.retryIn = re, !.changed = ch,
                             !.ran = ru, !.override = ov, !.grace = gr]
  BY <1>1 DEF Elapsed
<1>3. /\ x.hold \in Holds /\ x.waited \in Waits /\ x.retryIn \in Retries
      /\ x.changed \in Changes /\ x.ran \in RunTimes /\ x.override \in Overrides
      /\ x.grace \in Graces
  BY DEF ThermoRecord
<1>4. ho \in Holds
  <2>1. CASE x.hold = NoHold
    <3>1. ho = NoHold
      BY <1>1, <2>1 DEF NoHold, Later, None
    <3>2. QED
      BY <3>1 DEF Holds
  <2>2. CASE x.hold \in [setpoint : HoldSetpoints, left : 0..HoldFor]
    BY <1>1, <2>2, Sizes DEF Holds, Later
  <2>3. QED
    BY <1>3, <2>1, <2>2 DEF Holds
<1>5. wa \in Waits /\ ch \in Changes
  BY <1>1, <1>3, Sizes DEF Waits, Changes, Older
<1>6. ru \in RunTimes
  BY <1>1, <1>3, Sizes DEF RunTimes, Older
<1>7. re \in Retries /\ ov \in Overrides /\ gr \in Graces
  BY <1>1, <1>3, Sizes DEF Retries, Overrides, Graces, Later
<1>8. PICK y : y = [x EXCEPT !.hold = ho, !.waited = wa, !.retryIn = re, !.changed = ch,
                             !.ran = ru, !.override = ov, !.grace = gr]
  OBVIOUS
<1>9. y \in ThermoRecord
  BY <1>4, <1>5, <1>6, <1>7, <1>8, ZenonT(30) DEF ThermoRecord
<1>10. /\ y.mode = x.mode /\ y.commanded = x.commanded /\ y.confirmed = x.confirmed
       /\ y.bypass = x.bypass /\ y.enteringOff = x.enteringOff
       /\ y.changed = ch /\ y.override = ov
  BY <1>8 DEF ThermoRecord
<1>11. Elapsed(x) = y
  BY <1>2, <1>8
<1>12. QED
  BY <1>1, <1>9, <1>10, <1>11

LEMMA NoteSwitchIn ==
    ASSUME NEW x \in ThermoRecord, NEW on \in Words
    PROVE  LET y == NoteSwitch(x, on) IN
           y \in ThermoRecord /\ Same(x, y) /\ y.override = x.override
<1>1. PICK ru \in RunTimes : ru = IF on = "on" THEN 0 ELSE None
  BY Sizes DEF RunTimes
<1>2. PICK y : y = [x EXCEPT !.ran = ru]
  OBVIOUS
<1>3. ru \in RunTimes
  BY <1>1
<1>4. y \in ThermoRecord
  BY <1>2, <1>3 DEF ThermoRecord
<1>5. Same(x, y) /\ y.override = x.override
  BY <1>2 DEF ThermoRecord, Same
<1>6. NoteSwitch(x, on) = y
  BY <1>1, <1>2 DEF NoteSwitch
<1>7. QED
  BY <1>4, <1>5, <1>6

(* A report on to a thermostat that knew the switch to be prev.             *)
Heard(x, prev, on, y) ==
    /\ y \in ThermoRecord /\ y.mode = x.mode /\ y.bypass = x.bypass
    /\ y.enteringOff => x.enteringOff
    /\ y.changed \in {x.changed, 0} /\ y.override \in {x.override, OverrideFor}
    /\ y.commanded \in {x.commanded, on}
    /\ y.commanded # x.commanded => y.changed = 0
    /\ /\ x.confirmed => started /\ x.commanded \in Words /\ prev = x.commanded
       => (y.confirmed => y.commanded = on)
    /\ ~started /\ x.commanded # on => y.commanded = x.commanded /\ y.confirmed = x.confirmed
    /\ /\ started /\ Active(x) /\ OverrideFor > 0 /\ x.confirmed
       /\ x.commanded = prev /\ prev = Not(on)
       => y.override = OverrideFor

LEMMA ReportedIn ==
    ASSUME NEW x \in ThermoRecord, NEW prev \in Asked, NEW on \in Words,
           NEW y, y = Reported(x, prev, on)
    PROVE  Heard(x, prev, on, y)
<1> DEFINE flipped == prev # "unknown" /\ prev # on
           noted == IF flipped THEN NoteSwitch(x, on)
                    ELSE IF prev = "unknown" /\ on = "on" /\ x.ran = None /\ started
                    THEN [x EXCEPT !.ran = 0] ELSE x
<1>1. PICK n : n = noted
  OBVIOUS
<1>2. n \in ThermoRecord /\ Same(x, n) /\ n.override = x.override
  <2>1. PICK z : z = [x EXCEPT !.ran = 0]
    OBVIOUS
  <2>2. 0 \in RunTimes
    BY Sizes DEF RunTimes
  <2>3. z \in ThermoRecord
    BY <2>1, <2>2 DEF ThermoRecord
  <2>4. Same(x, z) /\ z.override = x.override /\ Same(x, x)
    BY <2>1 DEF ThermoRecord, Same
  <2>5. n = NoteSwitch(x, on) \/ n = z \/ n = x
    BY <1>1, <2>1
  <2>6. QED
    BY <2>3, <2>4, <2>5, NoteSwitchIn
<1> HIDE DEF noted
<1>3. CASE x.commanded = on /\ ~x.confirmed
  <2>1. PICK en \in Flag : en = (n.enteringOff /\ on = "on")
    BY Zenon DEF Flag
  <2>2. y = [n EXCEPT !.confirmed = TRUE, !.attempts = 0, !.retryIn = None, !.waited = 0,
                      !.notResponding = FALSE, !.enteringOff = en]
    BY <1>1, <1>3, <2>1 DEF Reported, noted
  <2>3. /\ TRUE \in Flag /\ FALSE \in Flag /\ 0 \in Counts /\ None \in Retries
        /\ 0 \in Waits /\ en \in Flag
    BY <2>1, Sizes DEF Flag, Counts, Retries, Waits
  <2>4. y \in ThermoRecord
    BY <1>2, <2>2, <2>3, ZenonT(30) DEF ThermoRecord
  <2>5. /\ y.mode = n.mode /\ y.bypass = n.bypass /\ y.enteringOff = en
        /\ y.changed = n.changed /\ y.override = n.override /\ y.commanded = n.commanded
    BY <1>2, <2>2 DEF ThermoRecord
  <2>6. QED
    BY <1>2, <1>3, <2>1, <2>4, <2>5 DEF Heard, Same
<1>4. CASE /\ ~(x.commanded = on /\ ~x.confirmed)
           /\ (x.commanded = Not(on) /\ ~x.confirmed) \/ ~started \/ ~flipped
  <2>1. y = n
    BY <1>1, <1>4 DEF Reported, noted
  <2>2. QED
    BY <1>2, <1>4, <2>1 DEF Heard, Same, Words, Not
<1>5. CASE /\ ~(x.commanded = on /\ ~x.confirmed)
           /\ ~((x.commanded = Not(on) /\ ~x.confirmed) \/ ~started \/ ~flipped)
  <2>1. PICK ov \in Overrides :
           ov = IF Active(x) /\ OverrideFor > 0 THEN OverrideFor ELSE n.override
    BY <1>2, Sizes DEF Overrides, ThermoRecord
  <2>2. y = [n EXCEPT !.changed = 0, !.commanded = on, !.confirmed = TRUE, !.override = ov]
    BY <1>1, <1>5, <2>1 DEF Reported, noted
  <2>3. TRUE \in Flag /\ 0 \in Changes /\ on \in Asked /\ ov \in Overrides
    BY <2>1, Sizes DEF Flag, Changes, Asked
  <2>4. y \in ThermoRecord
    BY <1>2, <2>2, <2>3, ZenonT(30) DEF ThermoRecord
  <2>5. /\ y.mode = n.mode /\ y.bypass = n.bypass /\ y.enteringOff = n.enteringOff
        /\ y.changed = 0 /\ y.override = ov /\ y.commanded = on
    BY <1>2, <2>2 DEF ThermoRecord
  <2>6. QED
    BY <1>2, <1>5, <2>1, <2>4, <2>5 DEF Heard, Same
<1>6. QED
  BY <1>3, <1>4, <1>5

LEMMA FreshIn ==
    ASSUME NEW m \in Modes, NEW v \in Setpoints
    PROVE  LET y == Fresh(m, v) IN
           /\ y \in ThermoRecord /\ y.mode = m /\ y.commanded = "unknown" /\ ~y.confirmed
           /\ y.changed = Guard /\ ~y.enteringOff /\ y.override = None /\ ~y.bypass
<1>1. /\ NoHold \in Holds /\ FALSE \in Flag /\ "unknown" \in Asked /\ 0 \in Waits
      /\ 0 \in Counts /\ None \in Retries /\ Guard \in Changes /\ None \in RunTimes
      /\ None \in Overrides /\ None \in Graces
  BY Sizes DEF Holds, Flag, Asked, Waits, Counts, Retries, Changes, RunTimes, Overrides,
               Graces
<1>2. Fresh(m, v) \in ThermoRecord
  BY <1>1, ZenonT(30) DEF ThermoRecord, Fresh
<1>3. QED
  BY <1>2 DEF Fresh

LEMMA RestoredIn ==
    ASSUME NEW x \in ThermoRecord
    PROVE  LET y == Restored(x) IN
           /\ y \in ThermoRecord /\ y.mode = x.mode /\ y.commanded = "unknown"
           /\ ~y.confirmed /\ y.changed = x.changed /\ ~y.enteringOff
           /\ y.override = IF x.override > 0 THEN x.override ELSE None
<1>1. PICK f : f = Fresh(x.mode, x.setpoint)
  OBVIOUS
<1>2. x.mode \in Modes /\ x.setpoint \in Setpoints
  BY DEF ThermoRecord
<1>3. /\ f \in ThermoRecord /\ f.mode = x.mode /\ f.commanded = "unknown" /\ ~f.confirmed
      /\ ~f.enteringOff
  BY <1>1, <1>2, FreshIn
<1>4. PICK ho, ov, ch, ru : /\ ho = (IF x.hold.left > 0 THEN x.hold ELSE NoHold)
                            /\ ov = (IF x.override > 0 THEN x.override ELSE None)
                            /\ ch = x.changed /\ ru = x.ran
  OBVIOUS
<1>5. PICK ca \in Flag : ca = (/\ x.calling /\ Active(x) /\ ~x.stale /\ x.override = None
                               /\ ~x.tripped /\ ~x.notResponding)
  BY Zenon DEF Flag
<1>6. PICK y : y = [f EXCEPT !.hold = ho, !.override = ov, !.changed = ch, !.ran = ru,
                             !.calling = ca]
  OBVIOUS
<1>7. Restored(x) = y
  BY <1>1, <1>4, <1>5, <1>6 DEF Restored
<1>8. /\ x.hold \in Holds /\ x.override \in Overrides /\ x.changed \in Changes
      /\ x.ran \in RunTimes
  BY DEF ThermoRecord
<1>9. /\ ho \in Holds /\ ov \in Overrides /\ ch \in Changes /\ ru \in RunTimes /\ ca \in Flag
  BY <1>4, <1>5, <1>8 DEF Holds, Overrides
<1>10. y \in ThermoRecord
  BY <1>3, <1>6, <1>9, ZenonT(30) DEF ThermoRecord
<1>11. /\ y.mode = f.mode /\ y.commanded = f.commanded /\ y.confirmed = f.confirmed
       /\ y.enteringOff = f.enteringOff /\ y.changed = ch /\ y.override = ov
  BY <1>3, <1>6 DEF ThermoRecord
<1>12. QED
  BY <1>3, <1>4, <1>7, <1>10, <1>11

LEMMA PersonIn ==
    ASSUME NEW x \in ThermoRecord
    PROVE  LET y == PersonChangedIt(x) IN y \in ThermoRecord /\ Same(x, y)
<1>1. PICK y : y = [x EXCEPT !.override = None, !.tripped = FALSE]
  OBVIOUS
<1>2. None \in Overrides /\ FALSE \in Flag
  BY DEF Overrides, Flag
<1>3. y \in ThermoRecord
  BY <1>1, <1>2 DEF ThermoRecord
<1>4. Same(x, y)
  BY <1>1 DEF ThermoRecord, Same
<1>5. PersonChangedIt(x) = y
  BY <1>1 DEF PersonChangedIt
<1>6. QED
  BY <1>3, <1>4, <1>5

(* A command alters a thermostat's settings, not what it knows of its       *)
(* switch.                                                                  *)
Alters(x, y) ==
    /\ y \in ThermoRecord /\ y.commanded = x.commanded /\ y.confirmed = x.confirmed
    /\ y.changed = x.changed
    /\ (x.enteringOff => x.mode = "off") => (y.enteringOff => y.mode = "off")

LEMMA WithModeIn ==
    ASSUME t \in ThermoRecord, NEW m \in Modes, NEW y, y = WithMode(m)
    PROVE  Alters(t, y) /\ y.bypass = t.bypass
<1>1. CASE m = t.mode
  <2>1. y = PersonChangedIt(t)
    BY <1>1 DEF WithMode
  <2>2. y \in ThermoRecord /\ Same(t, y)
    BY <2>1, PersonIn
  <2>3. QED
    BY <2>2 DEF Same, Alters
<1>2. CASE m # t.mode
  <2>1. PICK x \in ThermoRecord : x = t
    OBVIOUS
  <2>2. PICK en \in Flag : en = (m = "off")
    BY Zenon DEF Flag
  <2>3. PICK fo \in Flag : fo = (x.force \/ m = "off")
    BY Zenon DEF Flag
  <2>4. PICK ho : ho = IF m = "off" THEN NoHold ELSE x.hold
    OBVIOUS
  <2>5. PICK z : z = [x EXCEPT !.mode = m, !.calling = FALSE, !.enteringOff = en,
                               !.force = fo, !.hold = ho]
    OBVIOUS
  <2>6. FALSE \in Flag /\ en \in Flag /\ fo \in Flag
    BY <2>2, <2>3 DEF Flag
  <2>7. ho \in Holds /\ x \in ThermoRecord
    BY <2>1, <2>4 DEF Holds, ThermoRecord
  <2>8. z \in ThermoRecord
    BY <2>5, <2>6, <2>7, ZenonT(30) DEF ThermoRecord
  <2>9. /\ z.commanded = x.commanded /\ z.confirmed = x.confirmed /\ z.bypass = x.bypass
        /\ z.changed = x.changed /\ z.mode = m /\ z.enteringOff = en
    BY <2>5, <2>7 DEF ThermoRecord
  <2>10. y = PersonChangedIt(z)
    BY <1>2, <2>1, <2>2, <2>3, <2>4, <2>5 DEF WithMode
  <2>11. y \in ThermoRecord /\ Same(z, y)
    BY <2>8, <2>10, PersonIn
  <2>12. QED
    BY <2>1, <2>2, <2>9, <2>11 DEF Same, Alters
<1>3. QED
  BY <1>1, <1>2

-----------------------------------------------------------------------------
(* The inductive invariant.                                                 *)

(* A controller that has yet to start has asked for nothing.                *)
Down == ~started => t.commanded = "unknown" /\ ~t.confirmed

(* The last report of a state in q says on; none in q is of a state.        *)
Says(q, on) ==
    \E j \in 1..Len(q) : /\ q[j].type = "state" /\ q[j].on = on
                         /\ \A k \in 1..Len(q) : k > j => q[k].type # "state"
Silent(q) == \A k \in 1..Len(q) : q[k].type # "state"

(* The last report of its state under way from a switch within reach, or    *)
(* else the last one heard, is what it is.                                  *)
LastSaid == reach => Says(reports, plug) \/ (seen.on = plug /\ Silent(reports))

(* Only an Off thermostat owes its switch an OFF.                           *)
OwesOff(x) == x.enteringOff => x.mode = "off"

(* A flip by hand that may be counted on is an override with as long to go. *)
InHand(x, age) ==
    age # None /\ age < OverrideFor =>
        Active(x) /\ x.override # None /\ x.override + age >= OverrideFor

ThermostatInv ==
    /\ ThermostatTypeOK /\ Down /\ LastSaid
    /\ Confirms(t, seen) /\ RestedFor(t, rest, parted) /\ OwesOff(t) /\ InHand(t, hand)

(* What a thermostat x must be for a decision on it to keep the invariant.  *)
Ready(x, s, age, hd) ==
    /\ x \in ThermoRecord /\ s \in Sight /\ age \in 0..MinOff /\ hd \in Overrides
    /\ Confirms(x, s) /\ RestedFor(x, age, parted) /\ OwesOff(x) /\ InHand(x, hd)
    /\ Stamped(x) /\ parted \in BOOLEAN
    /\ s.on # "on" /\ t.commanded # "on" => x.commanded # "on"

(* What a step must keep, beside the queues: the parts of the invariant     *)
(* that are about the thermostat, and what it may not send.                 *)
Sound(x) ==
    /\ t' \in ThermoRecord /\ seen' \in Sight /\ rest' \in 0..MinOff /\ hand' \in Overrides
    /\ orders' \in Seq(Words) /\ parted' \in BOOLEAN
    /\ Confirms(t', seen') /\ RestedFor(t', rest', parted') /\ OwesOff(t') /\ InHand(t', hand')
    /\ SendsOrder("on") /\ seen'.on # "on" /\ t.commanded # "on" /\ ~x.bypass /\ ~parted
       => rest' >= MinOff
    /\ SendsAny /\ hand' # None => hand' >= OverrideFor

LEMMA ReadyStep ==
    ASSUME NEW x, NEW s, NEW age, NEW hd, Ready(x, s, age, hd), Decides(x, s, age),
           seen' = s, hand' = hd, orders \in Seq(Words)
    PROVE  Sound(x)
<1>1. hd \in Int /\ x.override \in Int
  BY Sizes DEF Ready, Overrides, ThermoRecord
<1>2. hd # None /\ hd < OverrideFor =>
        Active(x) /\ x.override # None /\ x.override # 0 /\ x.override + hd >= OverrideFor
  BY <1>1, Sizes DEF Ready, InHand
<1>3. OwesOff(t') /\ InHand(t', hand')
  BY <1>2 DEF Ready, Decides, OwesOff, InHand, Active
<1>4. SendsOrder("on") /\ seen'.on # "on" /\ t.commanded # "on" /\ ~x.bypass /\ ~parted
      => rest' >= MinOff
  BY DEF Ready, Decides, SendsOrder
<1>5. ASSUME SendsAny, hand' # None
      PROVE  hand' >= OverrideFor
  <2>1. PICK w \in Words : orders' = Append(orders, w)
    BY <1>5 DEF SendsAny, SendsOrder
  <2>2. orders' # orders
    BY <2>1, Appended
  <2>3. ~ (hd < OverrideFor)
    BY <1>2, <1>5, <2>2 DEF Ready, Decides, OwesOff, Active
  <2>4. QED
    BY <1>1, <2>3, Sizes
<1>6. QED
  BY <1>3, <1>4, <1>5 DEF Ready, Decides, Sound

(* What a step may not send.                                                *)
Permits ==
    /\ SendsOrder("on") /\ seen'.on # "on" /\ t.commanded # "on" /\ ~t.bypass /\ ~parted
       => rest' >= MinOff \/ StartNow
    /\ SendsAny /\ hand' # None => hand' >= OverrideFor

LEMMA EvaluateKeeps ==
    ASSUME ThermostatInv, NEW x, NEW r, NEW s, NEW age, NEW hd, Ready(x, s, age, hd),
           Evaluate(x, r, s, age), seen' = s, hand' = hd, started' = started,
           x.bypass = t.bypass \/ StartNow,
           ~started => x.commanded = "unknown" /\ ~x.confirmed
    PROVE  Sound(x) /\ Down' /\ Permits
<1>1. orders \in Seq(Words)
  BY DEF ThermostatInv, ThermostatTypeOK
<1>2. Decides(x, s, age) /\ (started \/ t' = x)
  BY <1>1, EvaluateStep DEF Ready
<1>3. Sound(x)
  BY <1>1, <1>2, ReadyStep
<1>4. Down'
  BY <1>2 DEF Down
<1>5. Permits
  BY <1>3 DEF Sound, Permits
<1>6. QED
  BY <1>3, <1>4, <1>5

LEMMA Assembled ==
    ASSUME NEW x, Sound(x), Down', LastSaid', started' \in BOOLEAN, reading' \in Reading,
           reports' \in Seq(Message), plug' \in Words, reach' \in BOOLEAN,
           inputs' \in 0..MaxInputs, faults' \in 0..MaxFaults
    PROVE  ThermostatInv'
  BY DEF Sound, ThermostatInv, ThermostatTypeOK

LEMMA SaidUnchanged ==
    ASSUME LastSaid, UNCHANGED <<reach, reports, plug>>, seen'.on = seen.on
    PROVE  LastSaid'
  BY DEF LastSaid

(* What is known of a thermostat carries over to one that differs from it   *)
(* in nothing the invariant is about.                                       *)
LEMMA AltersReady ==
    ASSUME ThermostatInv, NEW x, Alters(t, x), NEW hd \in Overrides, NEW s \in Sight,
           s.on = seen.on, InHand(x, hd)
    PROVE  /\ Ready(x, s, rest, hd)
           /\ ~started => x.commanded = "unknown" /\ ~x.confirmed
<1>1. /\ Confirms(x, s) /\ RestedFor(x, rest, parted) /\ OwesOff(x) /\ x \in ThermoRecord
  BY DEF Alters, ThermostatInv, Confirms, RestedFor, OwesOff
<1>2. ~started => x.commanded = "unknown" /\ ~x.confirmed
  BY DEF Alters, ThermostatInv, Down
<1>3. rest \in 0..MinOff /\ parted \in BOOLEAN
  BY DEF ThermostatInv, ThermostatTypeOK
<1>4. QED
  BY <1>1, <1>2, <1>3 DEF Ready, Alters, Stamped

-----------------------------------------------------------------------------
(* The actions.                                                             *)

LEMMA TickStep ==
    ASSUME ThermostatInv, Tick
    PROVE  ThermostatInv' /\ Permits
<1>1. /\ ThermostatTypeOK /\ t \in ThermoRecord /\ rest \in 0..MinOff /\ hand \in Overrides
      /\ seen \in Sight /\ reading \in Reading
  BY DEF ThermostatInv, ThermostatTypeOK
<1>2. PICK x, r, s, age, hd :
        /\ x = Elapsed(t) /\ r = reading' /\ s = seen /\ age = Older(rest, MinOff)
        /\ hd = Older(hand, OverrideFor)
  OBVIOUS
<1>3. /\ x \in ThermoRecord
      /\ x.mode = t.mode /\ x.commanded = t.commanded /\ x.confirmed = t.confirmed
      /\ x.bypass = t.bypass /\ x.enteringOff = t.enteringOff
      /\ x.changed = Older(t.changed, Guard) /\ x.override = Later(t.override)
  BY <1>1, <1>2, ElapsedIn
<1>4. t.changed \in Nat /\ t.override \in Int /\ hand \in Int /\ t.override >= None /\ hand >= None
  BY <1>1, Sizes DEF ThermoRecord, Changes, Overrides
<1>5. age \in 0..MinOff /\ hd \in Overrides
  BY <1>1, <1>2, Sizes DEF Older, Overrides
<1>6. RestedFor(x, age, parted)
  BY <1>1, <1>2, <1>3, <1>4, Sizes DEF ThermostatInv, RestedFor, Older
<1>7. InHand(x, hd)
  BY <1>1, <1>2, <1>3, <1>4, Sizes DEF ThermostatInv, InHand, Older, Later, Active
<1>8. /\ Ready(x, s, age, hd) /\ (~started => x.commanded = "unknown" /\ ~x.confirmed)
  BY <1>1, <1>2, <1>3, <1>5, <1>6, <1>7
     DEF ThermostatInv, ThermostatTypeOK, Ready, Stamped, Confirms, OwesOff, Down
<1>9. /\ Evaluate(x, r, s, age) /\ hand' = hd
      /\ UNCHANGED <<started, seen, reports, plug, reach, inputs, faults>>
      /\ reading' = [reading EXCEPT !.age = Older(@, SensorTimeout + 1)]
  BY <1>2 DEF Tick
<1>10. Sound(x) /\ Down' /\ Permits
  BY <1>2, <1>3, <1>8, <1>9, EvaluateKeeps
<1>11. reading' \in Reading
  BY <1>1, <1>9, Sizes DEF Reading, Older
<1>12. LastSaid'
  BY <1>9, SaidUnchanged DEF ThermostatInv
<1>13. QED
  BY <1>1, <1>9, <1>10, <1>11, <1>12, Assembled DEF ThermostatTypeOK

LEMMA SensorStep ==
    ASSUME ThermostatInv,
           (\E v \in Temps \cup {NoTemp} : OnSensorState(v)) \/ OnSensorAvailability
    PROVE  ThermostatInv' /\ Permits
<1>1. /\ ThermostatTypeOK /\ t \in ThermoRecord /\ hand \in Overrides /\ seen \in Sight
      /\ reading \in Reading /\ InHand(t, hand) /\ faults \in 0..MaxFaults
  BY DEF ThermostatInv, ThermostatTypeOK
<1>2. PICK x, r, s, age, hd :
        x = t /\ r = reading' /\ s = seen /\ age = rest /\ hd = hand
  OBVIOUS
<1>3. Alters(t, x)
  BY <1>1, <1>2 DEF Alters
<1>4. Ready(x, s, age, hd) /\ (~started => x.commanded = "unknown" /\ ~x.confirmed)
  BY <1>1, <1>2, <1>3, AltersReady
<1>5. reading' \in Reading /\ faults' \in 0..MaxFaults
  <2>1. ASSUME NEW v \in Temps \cup {NoTemp}, OnSensorState(v)
        PROVE  reading' \in Reading /\ faults' \in 0..MaxFaults
    <3>1. reading' = [reading EXCEPT !.value = v, !.age = 0] /\ faults' = faults
      BY <2>1, Zenon DEF OnSensorState
    <3>2. 0 \in {None} \cup 0..(SensorTimeout + 1)
      BY Sizes
    <3>3. reading' \in Reading
      BY <1>1, <3>1, <3>2 DEF Reading
    <3>4. QED
      BY <1>1, <3>1, <3>3
  <2>2. ASSUME OnSensorAvailability
        PROVE  reading' \in Reading /\ faults' \in 0..MaxFaults
    <3>1. /\ reading' = [reading EXCEPT !.offline = ~@]
          /\ faults' \in {faults, faults + 1} /\ faults' <= MaxFaults
      BY <2>2 DEF OnSensorAvailability
    <3>2. reading' \in Reading
      BY <1>1, <3>1 DEF Reading
    <3>3. QED
      BY <1>1, <3>1, <3>2, Sizes
  <2>3. QED
    BY <2>1, <2>2
<1>6. Evaluate(x, r, s, age) /\ UNCHANGED <<started, seen, reports, plug, reach, hand, inputs>>
  <2>1. CASE \E v \in Temps \cup {NoTemp} : OnSensorState(v)
    BY <1>2, <2>1, Zenon DEF OnSensorState
  <2>2. CASE OnSensorAvailability
    BY <1>2, <2>2, Zenon DEF OnSensorAvailability
  <2>3. QED
    BY <2>1, <2>2
<1>7. Sound(x) /\ Down' /\ Permits
  BY <1>2, <1>4, <1>6, EvaluateKeeps
<1>8. LastSaid'
  BY <1>6, SaidUnchanged DEF ThermostatInv
<1>9. QED
  BY <1>1, <1>5, <1>6, <1>7, <1>8, Assembled DEF ThermostatTypeOK

LEMMA CommandedStep ==
    ASSUME ThermostatInv, NEW x, Alters(t, x), NEW personal \in BOOLEAN,
           personal \/ (x.mode = t.mode /\ x.override = t.override),
           x.bypass = t.bypass \/ StartNow, Commanded(x, personal)
    PROVE  ThermostatInv' /\ Permits
<1>1. /\ ThermostatTypeOK /\ t \in ThermoRecord /\ hand \in Overrides /\ seen \in Sight
      /\ InHand(t, hand) /\ inputs \in 0..MaxInputs
  BY DEF ThermostatInv, ThermostatTypeOK
<1>2. PICK r, s, age, hd :
        r = reading /\ s = seen /\ age = rest /\ hd = IF personal THEN None ELSE hand
  OBVIOUS
<1>3. hd \in Overrides /\ InHand(x, hd)
  BY <1>1, <1>2 DEF Overrides, InHand, Active
<1>4. Ready(x, s, age, hd) /\ (~started => x.commanded = "unknown" /\ ~x.confirmed)
  BY <1>1, <1>2, <1>3, AltersReady
<1>5. /\ Evaluate(x, r, s, age) /\ hand' = hd
      /\ UNCHANGED <<started, reading, seen, reports, plug, reach, faults>>
      /\ inputs' = inputs + 1 /\ inputs < MaxInputs
  BY <1>2 DEF Commanded
<1>6. Sound(x) /\ Down' /\ Permits
  BY <1>2, <1>4, <1>5, EvaluateKeeps
<1>7. LastSaid'
  BY <1>5, SaidUnchanged DEF ThermostatInv
<1>8. inputs' \in 0..MaxInputs
  BY <1>1, <1>5, Sizes
<1>9. QED
  BY <1>1, <1>5, <1>6, <1>7, <1>8, Assembled DEF ThermostatTypeOK

(* What a person asks, but for the mode, which is WithModeIn's.             *)
LEMMA AskedIn ==
    ASSUME NEW x \in ThermoRecord, NEW z \in ThermoRecord, Same(x, z)
    PROVE  Alters(x, PersonChangedIt(z)) /\ PersonChangedIt(z).bypass = x.bypass
  BY PersonIn DEF Same, Alters

LEMMA HouseholdStep ==
    ASSUME ThermostatInv,
           \/ \E m \in {Running, "off"} : SetMode(m)
           \/ \E v \in Setpoints : SetSetpoint(v)
           \/ \E v \in HoldSetpoints : HoldAt(v)
           \/ Resume \/ Resync \/ StartNow \/ SetSensors
    PROVE  ThermostatInv' /\ Permits
<1>1. /\ ThermostatTypeOK /\ t \in ThermoRecord /\ hand \in Overrides /\ seen \in Sight
      /\ InHand(t, hand) /\ inputs \in 0..MaxInputs /\ TRUE \in BOOLEAN /\ FALSE \in BOOLEAN
  BY DEF ThermostatInv, ThermostatTypeOK
<1>2. PICK y \in ThermoRecord : y = t
  BY <1>1
<1>3. NoHold \in Holds /\ (\A v \in HoldSetpoints : [setpoint |-> v, left |-> HoldFor] \in Holds)
  BY Sizes DEF Holds
<1>4. PICK fo \in Flag : fo = Active(y)
  BY Zenon DEF Flag, Active
<1>5. y.setpoint \in Setpoints /\ FirstReading \in Graces /\ TRUE \in Flag /\ fo \in Flag
  BY <1>2, <1>4, Sizes DEF ThermoRecord, Graces, Flag
<1>6. CASE \E m \in {Running, "off"} : SetMode(m)
  <2>1. PICK m \in Modes : SetMode(m)
    BY <1>6 DEF Modes
  <2>2. PICK x : x = WithMode(m)
    OBVIOUS
  <2>3. Alters(t, x) /\ x.bypass = t.bypass
    BY <1>1, <2>2, WithModeIn
  <2>4. Commanded(x, TRUE)
    BY <2>1, <2>2, Zenon DEF SetMode
  <2>5. QED
    BY <1>1, <2>3, <2>4, CommandedStep
<1>7. CASE \E v \in Setpoints : SetSetpoint(v)
  <2>1. PICK v \in Setpoints : SetSetpoint(v)
    BY <1>7
  <2>2. PICK z, x : z = [y EXCEPT !.setpoint = v, !.hold = NoHold] /\ x = PersonChangedIt(z)
    OBVIOUS
  <2>3. Alters(t, x) /\ x.bypass = t.bypass
    <3>1. z \in ThermoRecord
      BY <1>2, <1>3, <2>1, <2>2 DEF ThermoRecord
    <3>2. Same(y, z)
      BY <1>2, <1>3, <2>1, <2>2 DEF ThermoRecord, Same
    <3>3. QED
      BY <1>2, <2>2, <3>1, <3>2, AskedIn
  <2>4. Commanded(x, TRUE)
    BY <1>2, <2>1, <2>2, Zenon DEF SetSetpoint
  <2>5. QED
    BY <1>1, <2>3, <2>4, CommandedStep
<1>8. CASE \E v \in HoldSetpoints : HoldAt(v)
  <2>1. PICK v \in HoldSetpoints : HoldAt(v)
    BY <1>8
  <2>2. PICK ho \in Holds : ho = [setpoint |-> v, left |-> HoldFor]
    BY <1>3, <2>1
  <2>3. PICK z, x : z = [y EXCEPT !.hold = ho] /\ x = PersonChangedIt(z)
    OBVIOUS
  <2>4. Alters(t, x) /\ x.bypass = t.bypass
    <3>1. z \in ThermoRecord
      BY <1>2, <2>2, <2>3 DEF ThermoRecord
    <3>2. Same(y, z)
      BY <1>2, <2>2, <2>3 DEF ThermoRecord, Same
    <3>3. QED
      BY <1>2, <2>3, <3>1, <3>2, AskedIn
  <2>5. Commanded(x, TRUE)
    BY <1>2, <2>1, <2>2, <2>3, Zenon DEF HoldAt
  <2>6. QED
    BY <1>1, <2>4, <2>5, CommandedStep
<1>9. CASE Resume
  <2>1. PICK z, x : z = [y EXCEPT !.hold = NoHold, !.force = fo] /\ x = PersonChangedIt(z)
    OBVIOUS
  <2>2. Alters(t, x) /\ x.bypass = t.bypass
    <3>1. z \in ThermoRecord
      BY <1>2, <1>3, <1>5, <2>1 DEF ThermoRecord
    <3>2. Same(y, z)
      BY <1>2, <1>3, <1>5, <2>1 DEF ThermoRecord, Same
    <3>3. QED
      BY <1>2, <2>1, <3>1, <3>2, AskedIn
  <2>3. Commanded(x, TRUE)
    BY <1>2, <1>4, <1>9, <2>1 DEF Resume
  <2>4. QED
    BY <1>1, <2>2, <2>3, CommandedStep
<1>10. CASE Resync
  <2>1. PICK x : x = [y EXCEPT !.force = fo]
    OBVIOUS
  <2>2. x \in ThermoRecord
    BY <1>2, <1>5, <2>1 DEF ThermoRecord
  <2>3. /\ Alters(y, x) /\ x.bypass = y.bypass /\ x.mode = y.mode /\ x.override = y.override
    BY <1>2, <2>1, <2>2 DEF ThermoRecord, Alters
  <2>4. Commanded(x, FALSE)
    BY <1>2, <1>4, <1>10, <2>1 DEF Resync
  <2>5. QED
    BY <1>1, <1>2, <2>3, <2>4, CommandedStep
<1>11. CASE StartNow
  <2>1. PICK x : x = [y EXCEPT !.bypass = TRUE]
    OBVIOUS
  <2>2. x \in ThermoRecord
    BY <1>2, <1>5, <2>1 DEF ThermoRecord
  <2>3. Alters(y, x) /\ x.mode = y.mode /\ x.override = y.override
    BY <1>2, <2>1, <2>2 DEF ThermoRecord, Alters
  <2>4. Commanded(x, FALSE)
    BY <1>2, <1>11, <2>1 DEF StartNow
  <2>5. QED
    BY <1>1, <1>2, <1>11, <2>3, <2>4, CommandedStep
<1>12. CASE SetSensors
  <2>1. PICK x, r, s, age, hd : /\ x = [y EXCEPT !.grace = FirstReading] /\ r = reading'
                                /\ s = seen /\ age = rest /\ hd = hand
    OBVIOUS
  <2>2. x \in ThermoRecord
    BY <1>2, <1>5, <2>1 DEF ThermoRecord
  <2>3. /\ Alters(y, x) /\ x.mode = y.mode /\ x.override = y.override /\ x.bypass = y.bypass
    BY <1>2, <2>1, <2>2 DEF ThermoRecord, Alters
  <2>4. InHand(x, hd)
    BY <1>1, <1>2, <2>1, <2>3 DEF InHand, Active
  <2>5. Ready(x, s, age, hd) /\ (~started => x.commanded = "unknown" /\ ~x.confirmed)
    BY <1>1, <1>2, <2>1, <2>3, <2>4, AltersReady
  <2>6. /\ Evaluate(x, r, s, age) /\ inputs' = inputs + 1 /\ inputs < MaxInputs
        /\ UNCHANGED <<started, seen, reports, plug, reach, hand, faults>>
        /\ reading' = Unheard
    BY <1>2, <1>12, <2>1 DEF SetSensors
  <2>7. Sound(x) /\ Down' /\ Permits
    BY <1>2, <2>1, <2>3, <2>5, <2>6, EvaluateKeeps
  <2>8. LastSaid'
    BY <2>6, SaidUnchanged DEF ThermostatInv
  <2>9. inputs' \in 0..MaxInputs /\ reading' \in Reading
    BY <1>1, <2>6, Sizes DEF Unheard, Reading, NoTemp
  <2>10. QED
    BY <1>1, <2>6, <2>7, <2>8, <2>9, Assembled DEF ThermostatTypeOK
<1>13. QED
  BY <1>6, <1>7, <1>8, <1>9, <1>10, <1>11, <1>12

-----------------------------------------------------------------------------
(* The reports of the switch.                                               *)

LEMMA SaysTail ==
    ASSUME NEW q \in Seq(Message), q # <<>>, NEW on
    PROVE  /\ Head(q) \in Message /\ Tail(q) \in Seq(Message)
           /\ Silent(q) => Silent(Tail(q)) /\ Head(q).type # "state"
           /\ Says(q, on) => \/ Says(Tail(q), on)
                             \/ Head(q).type = "state" /\ Head(q).on = on /\ Silent(Tail(q))
<1>1. /\ Head(q) \in Message /\ Tail(q) \in Seq(Message) /\ Len(Tail(q)) = Len(q) - 1
      /\ \A i \in 1..Len(Tail(q)) : Tail(q)[i] = q[i + 1]
  BY HeadTailProperties
<1>2. PICK h, tl, n : h = Head(q) /\ tl = Tail(q) /\ n = Len(q)
  OBVIOUS
<1>3. n \in Nat /\ n >= 1 /\ h = q[1]
  BY <1>2, LenProperties, EmptySeq
<1>4. Len(tl) = n - 1 /\ \A i \in 1..(n - 1) : tl[i] = q[i + 1]
  BY <1>1, <1>2
<1>5. Silent(q) => Silent(tl) /\ h.type # "state"
  BY <1>2, <1>3, <1>4 DEF Silent
<1>6. ASSUME Says(q, on)
      PROVE  Says(tl, on) \/ (h.type = "state" /\ h.on = on /\ Silent(tl))
  <2>1. PICK j \in 1..n : /\ q[j].type = "state" /\ q[j].on = on
                          /\ \A k \in 1..n : k > j => q[k].type # "state"
    BY <1>2, <1>6 DEF Says
  <2>2. CASE j = 1
    BY <1>3, <1>4, <2>1, <2>2 DEF Silent
  <2>3. CASE j # 1
    <3>1. j - 1 \in 1..(n - 1)
      BY <1>3, <2>3
    <3>2. tl[j - 1].type = "state" /\ tl[j - 1].on = on
      BY <1>3, <1>4, <2>1, <3>1
    <3>3. ASSUME NEW k \in 1..(n - 1), k > j - 1
          PROVE  tl[k].type # "state"
      <4>1. k + 1 \in 1..n /\ k + 1 > j
        BY <1>3, <3>3
      <4>2. QED
        BY <1>4, <2>1, <4>1
    <3>4. QED
      BY <1>4, <3>1, <3>2, <3>3 DEF Says
  <2>4. QED
    BY <2>2, <2>3
<1>7. QED
  BY <1>1, <1>2, <1>5, <1>6

LEMMA SaysAppend ==
    ASSUME NEW q \in Seq(Message), NEW m \in Message
    PROVE  /\ Append(q, m) \in Seq(Message)
           /\ m.type = "state" => Says(Append(q, m), m.on)
<1>1. PICK a, n : a = Append(q, m) /\ n = Len(q) + 1
  OBVIOUS
<1>2. a \in Seq(Message) /\ Len(a) = n /\ a[n] = m /\ n \in Nat /\ n >= 1
  BY <1>1, AppendProperties, LenProperties
<1>3. m.type = "state" => Says(a, m.on)
  BY <1>2 DEF Says
<1>4. QED
  BY <1>1, <1>2, <1>3

LEMMA SaysNow ==
    ASSUME NEW m \in Message, NEW a \in Message
    PROVE  /\ <<m>> \in Seq(Message) /\ <<a, m>> \in Seq(Message)
           /\ m.type = "state" => Says(<<m>>, m.on) /\ Says(<<a, m>>, m.on)
<1>1. <<m>> \in Seq(Message) /\ Len(<<m>>) = 1 /\ <<m>>[1] = m
  OBVIOUS
<1>2. <<a, m>> \in Seq(Message) /\ Len(<<a, m>>) = 2 /\ <<a, m>>[2] = m
  OBVIOUS
<1>3. PICK p, q : p = <<m>> /\ q = <<a, m>>
  OBVIOUS
<1>4. m.type = "state" => Says(p, m.on) /\ Says(q, m.on)
  BY <1>1, <1>2, <1>3 DEF Says
<1>5. QED
  BY <1>1, <1>2, <1>3, <1>4

LEMMA ReportStep ==
    ASSUME ThermostatInv, OnSwitchState
    PROVE  ThermostatInv' /\ Permits
<1>1. /\ ThermostatTypeOK /\ t \in ThermoRecord /\ rest \in 0..MinOff /\ hand \in Overrides
      /\ seen \in Sight /\ reports \in Seq(Message) /\ InHand(t, hand)
  BY DEF ThermostatInv, ThermostatTypeOK
<1>2. PICK m : m = Head(reports)
  OBVIOUS
<1>3. /\ reports # <<>> /\ m.type = "state" /\ reports' = Tail(reports)
      /\ seen' = [seen EXCEPT !.on = m.on]
      /\ Evaluate(Reported(t, seen.on, m.on), reading, seen', rest)
      /\ hand' = IF TellsByHand(m) THEN 0 ELSE hand
      /\ UNCHANGED <<started, reading, plug, reach, inputs, faults>>
  BY <1>2, Zenon DEF OnSwitchState
<1>4. /\ m \in Message /\ reports' \in Seq(Message)
      /\ ~ Silent(reports)
      /\ Says(reports, plug) => \/ Says(reports', plug)
                                \/ m.on = plug /\ Silent(reports')
  BY <1>1, <1>2, <1>3, SaysTail
<1>5. m.on \in Words /\ seen.on \in Asked /\ seen' \in Sight /\ seen'.on = m.on
  BY <1>1, <1>3, <1>4 DEF Message, Sight, Asked
<1>6. PICK x, r, s, age, hd, prev, y :
        /\ y = t /\ prev = seen.on /\ x = Reported(y, prev, m.on) /\ r = reading /\ s = seen'
        /\ age = rest /\ hd = IF TellsByHand(m) THEN 0 ELSE hand
  OBVIOUS
<1>7. Heard(t, seen.on, m.on, x)
  BY <1>1, <1>5, <1>6, ReportedIn
<1>8. x \in ThermoRecord /\ s \in Sight /\ s.on = m.on /\ hd \in Overrides
  BY <1>1, <1>5, <1>6, <1>7, Sizes DEF Heard, Overrides
<1>9. t.confirmed => started /\ t.commanded \in Words /\ seen.on = t.commanded
  BY DEF ThermostatInv, Confirms, Down
<1>10. Confirms(x, s)
  BY <1>5, <1>7, <1>8, <1>9 DEF Heard, Confirms
<1>11. RestedFor(x, age, parted) /\ OwesOff(x)
  BY <1>1, <1>6, <1>7, Sizes DEF Heard, ThermostatInv, RestedFor, OwesOff
<1>12. InHand(x, hd)
  <2>1. CASE TellsByHand(m)
    <3>1. x.override = OverrideFor /\ x.mode = t.mode /\ hd = 0 /\ Active(t)
      BY <1>6, <1>7, <1>9, <2>1 DEF Heard, TellsByHand
    <3>2. QED
      BY <3>1, Sizes DEF InHand, Active
  <2>2. CASE ~ TellsByHand(m)
    <3>1. x.override \in {t.override, OverrideFor} /\ x.mode = t.mode /\ hd = hand
      BY <1>6, <1>7, <2>2 DEF Heard
    <3>2. hand \in Int
      BY <1>1, Sizes DEF Overrides
    <3>3. ASSUME hand # None
          PROVE  hand \in Nat
      BY <1>1, <3>3, Sizes DEF Overrides
    <3>4. QED
      BY <1>1, <3>1, <3>2, <3>3, Sizes DEF InHand, Active
  <2>3. QED
    BY <2>1, <2>2
<1>13. Ready(x, s, age, hd)
  <2>1. Stamped(x) /\ (s.on # "on" /\ t.commanded # "on" => x.commanded # "on")
    BY <1>7, <1>8 DEF Heard, Stamped
  <2>2. QED
    BY <1>1, <1>6, <1>8, <1>10, <1>11, <1>12, <2>1 DEF Ready, ThermostatTypeOK
<1>14. ~started => x.commanded = "unknown" /\ ~x.confirmed
  BY <1>5, <1>7 DEF Heard, ThermostatInv, Down, Words
<1>15. Evaluate(x, r, s, age) /\ hand' = hd /\ seen' = s /\ x.bypass = t.bypass
  BY <1>3, <1>6, <1>7 DEF Heard
<1>16. Sound(x) /\ Down' /\ Permits
  BY <1>3, <1>13, <1>14, <1>15, EvaluateKeeps
<1>17. LastSaid'
  BY <1>3, <1>4, <1>5 DEF ThermostatInv, LastSaid
<1>18. QED
  BY <1>1, <1>3, <1>4, <1>16, <1>17, Assembled DEF ThermostatTypeOK

LEMMA AvailabilityStep ==
    ASSUME ThermostatInv, OnSwitchAvailability
    PROVE  ThermostatInv' /\ Permits
<1>1. /\ ThermostatTypeOK /\ t \in ThermoRecord /\ rest \in 0..MinOff /\ hand \in Overrides
      /\ seen \in Sight /\ reports \in Seq(Message) /\ InHand(t, hand)
  BY DEF ThermostatInv, ThermostatTypeOK
<1>2. PICK offline \in BOOLEAN : offline = (Head(reports).type = "offline")
  BY Zenon
<1>3. PICK y \in ThermoRecord : y = t
  BY <1>1
<1>4. PICK z : z = [y EXCEPT !.retryIn = 0]
  OBVIOUS
<1>5. PICK x, r, s, age, hd :
        /\ x = IF ~offline /\ seen.offline /\ t.commanded # "unknown" /\ ~t.confirmed
               THEN z ELSE y
        /\ r = reading /\ s = seen' /\ age = rest /\ hd = hand
  OBVIOUS
<1>6. /\ reports # <<>> /\ Head(reports).type # "state" /\ reports' = Tail(reports)
      /\ seen' = [seen EXCEPT !.offline = offline] /\ Evaluate(x, r, s, age)
      /\ UNCHANGED <<started, reading, plug, reach, hand, inputs, faults>>
  BY <1>2, <1>3, <1>4, <1>5 DEF OnSwitchAvailability
<1>7. /\ reports' \in Seq(Message)
      /\ Silent(reports) => Silent(reports')
      /\ Says(reports, plug) => Says(reports', plug)
  BY <1>1, <1>6, SaysTail
<1>8. seen' \in Sight /\ seen'.on = seen.on
  BY <1>1, <1>2, <1>6 DEF Sight
<1>9. /\ Alters(y, x) /\ x.mode = y.mode /\ x.override = y.override /\ x.bypass = y.bypass
  <2>1. 0 \in Retries
    BY Sizes DEF Retries
  <2>2. z \in ThermoRecord
    BY <1>3, <1>4, <2>1 DEF ThermoRecord
  <2>3. Same(y, z) /\ z.override = y.override
    BY <1>3, <1>4 DEF ThermoRecord, Same
  <2>4. x = z \/ x = y
    BY <1>5
  <2>5. QED
    BY <1>3, <2>2, <2>3, <2>4 DEF Same, Alters
<1>10. InHand(x, hd)
  BY <1>1, <1>3, <1>5, <1>9 DEF InHand, Active
<1>11. Ready(x, s, age, hd) /\ (~started => x.commanded = "unknown" /\ ~x.confirmed)
  BY <1>1, <1>3, <1>5, <1>8, <1>9, <1>10, AltersReady
<1>12. Sound(x) /\ Down' /\ Permits
  BY <1>3, <1>5, <1>6, <1>9, <1>11, EvaluateKeeps
<1>13. LastSaid'
  BY <1>6, <1>7, <1>8 DEF ThermostatInv, LastSaid
<1>14. QED
  BY <1>1, <1>6, <1>7, <1>12, <1>13, Assembled DEF ThermostatTypeOK

-----------------------------------------------------------------------------
(* The switch, and the end and the start of the controller.                 *)

(* The messages of a switch are messages.                                   *)
LEMMA MessagesIn ==
    ASSUME NEW on \in Words, NEW byHand \in BOOLEAN
    PROVE  /\ State(on, byHand) \in Message /\ State(on, byHand).type = "state"
           /\ State(on, byHand).on = on
           /\ plug \in Words => Availability("offline") \in Message
                                /\ Availability("online") \in Message
  BY DEF State, Availability, Message

(* A step of the switch alone sends nothing.                                *)
LEMMA SwitchSound ==
    ASSUME ThermostatInv, UNCHANGED <<started, t, reading, seen, rest, parted, hand>>,
           orders' = orders \/ (orders # <<>> /\ orders' = Tail(orders)),
           reports' \in Seq(Message), plug' \in Words, reach' \in BOOLEAN,
           inputs' \in 0..MaxInputs, faults' \in 0..MaxFaults, LastSaid'
    PROVE  ThermostatInv' /\ Permits
<1>1. orders \in Seq(Words)
  BY DEF ThermostatInv, ThermostatTypeOK
<1>2. orders' \in Seq(Words) /\ Len(orders') <= Len(orders) /\ Len(orders) \in Nat
  <2>1. Len(orders) \in Nat
    BY <1>1, LenProperties
  <2>2. CASE orders' = orders
    BY <1>1, <2>1, <2>2
  <2>3. CASE orders # <<>> /\ orders' = Tail(orders)
    BY <1>1, <2>1, <2>3, HeadTailProperties
  <2>4. QED
    BY <2>1, <2>2, <2>3
<1>3. \A w \in Words : orders' # Append(orders, w)
  BY <1>1, <1>2, AppendProperties
<1>4. Permits
  BY <1>3 DEF Permits, SendsAny, SendsOrder, Words
<1>5. ThermostatInv'
  BY <1>2 DEF ThermostatInv, ThermostatTypeOK, Down, Confirms, RestedFor, OwesOff, InHand,
              Active
<1>6. QED
  BY <1>4, <1>5

LEMMA SwitchStep ==
    ASSUME ThermostatInv, CarryOut \/ Lose \/ FlipByHand \/ OutOfReach \/ WithinReach
    PROVE  ThermostatInv' /\ Permits
<1>1. /\ ThermostatTypeOK /\ orders \in Seq(Words) /\ reports \in Seq(Message)
      /\ plug \in Words /\ reach \in BOOLEAN /\ inputs \in 0..MaxInputs
      /\ faults \in 0..MaxFaults /\ LastSaid
  BY DEF ThermostatInv, ThermostatTypeOK
<1>2. CASE CarryOut
  <2>1. /\ orders # <<>> /\ orders' = Tail(orders)
        /\ plug' = IF reach THEN Head(orders) ELSE plug
        /\ reports' = IF plug' # plug THEN Append(reports, State(plug', FALSE)) ELSE reports
        /\ UNCHANGED <<started, t, reading, seen, reach, rest, parted, hand, inputs, faults>>
    BY <1>2 DEF CarryOut
  <2>2. plug' \in Words
    BY <1>1, <2>1, HeadTailProperties
  <2>3. PICK p \in Words : p = plug'
    BY <2>2
  <2>4. State(p, FALSE) \in Message /\ State(p, FALSE).type = "state" /\ State(p, FALSE).on = p
    BY <2>3, MessagesIn
  <2>5. /\ Append(reports, State(p, FALSE)) \in Seq(Message)
        /\ Says(Append(reports, State(p, FALSE)), p)
    BY <1>1, <2>4, SaysAppend
  <2>6. reports' \in Seq(Message)
    BY <1>1, <2>1, <2>3, <2>5
  <2>7. LastSaid'
    BY <1>1, <2>1, <2>3, <2>5 DEF LastSaid
  <2>8. QED
    BY <1>1, <2>1, <2>2, <2>6, <2>7, SwitchSound
<1>3. CASE Lose
  <2>1. /\ orders # <<>> /\ orders' = Tail(orders) /\ faults' = faults + 1
        /\ faults < MaxFaults
        /\ UNCHANGED <<started, t, reading, seen, reports, plug, reach, rest, parted, hand, inputs>>
    BY <1>3 DEF Lose
  <2>2. LastSaid' /\ faults' \in 0..MaxFaults
    BY <1>1, <2>1, Sizes DEF LastSaid
  <2>3. QED
    BY <1>1, <2>1, <2>2, SwitchSound
<1>4. CASE FlipByHand
  <2>1. PICK b \in BOOLEAN : b = (orders = <<>>)
    BY Zenon
  <2>2. PICK p \in Words : p = Not(plug)
    BY <1>1 DEF Words, Not
  <2>3. /\ plug' = p /\ inputs' = inputs + 1 /\ inputs < MaxInputs
        /\ reports' = IF reach THEN Append(reports, State(p, b)) ELSE reports
        /\ UNCHANGED <<started, t, reading, seen, orders, reach, rest, parted, hand, faults>>
    BY <1>4, <2>1, <2>2 DEF FlipByHand
  <2>4. State(p, b) \in Message /\ State(p, b).type = "state" /\ State(p, b).on = p
    BY <2>1, <2>2, MessagesIn
  <2>5. /\ Append(reports, State(p, b)) \in Seq(Message) /\ Says(Append(reports, State(p, b)), p)
    BY <1>1, <2>4, SaysAppend
  <2>6. /\ reports' \in Seq(Message) /\ plug' \in Words /\ LastSaid'
        /\ inputs' \in 0..MaxInputs
    BY <1>1, <2>2, <2>3, <2>5, Sizes DEF LastSaid
  <2>7. QED
    BY <1>1, <2>3, <2>6, SwitchSound
<1>5. CASE OutOfReach
  <2>1. /\ ~reach' /\ reach' \in BOOLEAN /\ faults' = faults + 1 /\ faults < MaxFaults
        /\ reports' = Append(reports, Availability("offline"))
        /\ UNCHANGED <<started, t, reading, seen, orders, plug, rest, parted, hand, inputs>>
    BY <1>5 DEF OutOfReach
  <2>2. PICK m \in Message : m = Availability("offline")
    BY <1>1, MessagesIn
  <2>3. reports' \in Seq(Message)
    BY <1>1, <2>1, <2>2, SaysAppend
  <2>4. LastSaid' /\ faults' \in 0..MaxFaults
    BY <1>1, <2>1, Sizes DEF LastSaid
  <2>5. QED
    BY <1>1, <2>1, <2>3, <2>4, SwitchSound
<1>6. CASE WithinReach
  <2>1. /\ reach' \in BOOLEAN /\ reports' = <<Availability("online"), State(plug, FALSE)>>
        /\ UNCHANGED <<started, t, reading, seen, orders, plug, rest, parted, hand, inputs, faults>>
    BY <1>6 DEF WithinReach
  <2>2. PICK p \in Words : p = plug
    BY <1>1
  <2>3. PICK a \in Message, m \in Message :
          /\ a = Availability("online") /\ m = State(p, FALSE)
          /\ m.type = "state" /\ m.on = p /\ reports' = <<a, m>>
    <3>1. /\ State(p, FALSE) \in Message /\ Availability("online") \in Message
          /\ State(p, FALSE).type = "state" /\ State(p, FALSE).on = p
      BY <1>1, MessagesIn
    <3>2. QED
      BY <2>1, <2>2, <3>1
  <2>4. reports' \in Seq(Message) /\ Says(reports', plug)
    BY <2>2, <2>3, SaysNow
  <2>5. LastSaid'
    BY <2>1, <2>4 DEF LastSaid
  <2>6. QED
    BY <1>1, <2>1, <2>4, <2>5, SwitchSound
<1>7. QED
  BY <1>2, <1>3, <1>4, <1>5, <1>6

LEMMA EndsStep ==
    ASSUME ThermostatInv, Shutdown \/ Crash
    PROVE  ThermostatInv' /\ Permits
<1>1. /\ ThermostatTypeOK /\ t \in ThermoRecord /\ orders \in Seq(Words) /\ plug \in Words
      /\ reach \in BOOLEAN /\ faults \in 0..MaxFaults /\ hand \in Overrides
      /\ rest \in 0..MinOff /\ InHand(t, hand) /\ RestedFor(t, rest, parted)
      /\ parted \in BOOLEAN
  BY DEF ThermostatInv, ThermostatTypeOK
<1>2. /\ ~started' /\ started' \in BOOLEAN /\ faults' = faults + 1 /\ faults < MaxFaults
      /\ t' = Restored(t) /\ reading' = Unheard /\ seen' = Unseen
      /\ reports' = <<IF reach THEN State(plug, FALSE) ELSE Availability("offline")>>
      /\ UNCHANGED <<plug, reach, hand, inputs>>
      /\ orders' = orders \/ orders' = Append(orders, "off")
      /\ (rest' = 0 /\ parted') \/ (rest' = rest /\ (parted => parted'))
      /\ parted' \in BOOLEAN
  <2>1. PICK off \in BOOLEAN : Ends(off)
    BY Zenon DEF Shutdown, Crash
  <2>2. parted' \in BOOLEAN /\ (off \/ parted => parted')
    BY <2>1, Zenon DEF Ends
  <2>3. QED
    BY <2>1, <2>2 DEF Ends
<1>3. /\ t' \in ThermoRecord /\ t'.mode = t.mode /\ t'.commanded = "unknown"
      /\ ~t'.confirmed /\ t'.changed = t.changed /\ ~t'.enteringOff
      /\ t'.override = IF t.override > 0 THEN t.override ELSE None
  BY <1>1, <1>2, RestoredIn
<1>4. orders' \in Seq(Words)
  BY <1>1, <1>2, Appended DEF Words
<1>5. reading' \in Reading /\ seen' \in Sight /\ faults' \in 0..MaxFaults
  BY <1>1, <1>2, Sizes DEF Unheard, Unseen, Reading, Sight, Asked, NoTemp
<1>6. reports' \in Seq(Message) /\ (reach => Says(reports', plug))
  <2>1. PICK p \in Words : p = plug
    BY <1>1
  <2>2. /\ State(p, FALSE) \in Message /\ Availability("offline") \in Message
        /\ State(p, FALSE).type = "state" /\ State(p, FALSE).on = p
    BY <1>1, MessagesIn
  <2>3. PICK m \in Message : /\ m = IF reach THEN State(plug, FALSE) ELSE Availability("offline")
                             /\ reach => m.type = "state" /\ m.on = plug
    BY <2>1, <2>2
  <2>4. reports' = <<m>>
    BY <1>2, <2>3
  <2>5. QED
    BY <2>3, <2>4, SaysNow
<1>7. LastSaid' /\ Down'
  BY <1>2, <1>3, <1>6 DEF LastSaid, Down
<1>8. Confirms(t', seen') /\ RestedFor(t', rest', parted') /\ OwesOff(t') /\ rest' \in 0..MinOff
  BY <1>1, <1>2, <1>3, Sizes DEF Confirms, RestedFor, OwesOff
<1>9. InHand(t', hand')
  <2>1. t.override \in Int /\ hand \in Int /\ (t.override # None => t.override \in Nat)
    BY <1>1, Sizes DEF ThermoRecord, Overrides
  <2>2. QED
    BY <1>1, <1>2, <1>3, <2>1, Sizes DEF InHand, Active
<1>10. Permits
  BY <1>2 DEF Permits, SendsAny, SendsOrder
<1>11. QED
  BY <1>1, <1>2, <1>3, <1>4, <1>5, <1>6, <1>7, <1>8, <1>9, <1>10
     DEF ThermostatInv, ThermostatTypeOK

LEMMA StartStep ==
    ASSUME ThermostatInv, Start
    PROVE  ThermostatInv' /\ Permits
<1>1. /\ ThermostatTypeOK /\ t \in ThermoRecord /\ orders \in Seq(Words) /\ seen \in Sight
      /\ hand \in Overrides /\ InHand(t, hand)
  BY DEF ThermostatInv, ThermostatTypeOK
<1>2. PICK y \in ThermoRecord : y = t
  BY <1>1
<1>3. PICK ru \in RunTimes : ru = IF seen.on = "off" THEN None
                                  ELSE IF seen.on = "on" /\ y.ran = None THEN 0 ELSE y.ran
  BY <1>2, Sizes DEF RunTimes, ThermoRecord
<1>4. PICK fo \in Flag : fo = Active(y)
  BY Zenon DEF Flag, Active
<1>5. PICK x, r, s, age, hd :
        /\ x = [y EXCEPT !.ran = ru, !.force = fo, !.grace = StartupGrace]
        /\ r = reading /\ s = seen /\ age = rest /\ hd = hand
  OBVIOUS
<1>6. /\ started' = TRUE /\ Decide(x, r, s, age)
      /\ UNCHANGED <<reading, seen, reports, plug, reach, hand, inputs, faults>>
  BY <1>2, <1>3, <1>4, <1>5 DEF Start
<1>7. ru \in RunTimes /\ fo \in Flag /\ StartupGrace \in Graces /\ y \in ThermoRecord
  BY <1>2, <1>3, <1>4, Sizes DEF Graces
<1>8. x \in ThermoRecord
  BY <1>5, <1>7 DEF ThermoRecord
<1>9. /\ Alters(y, x) /\ x.mode = y.mode /\ x.override = y.override /\ x.bypass = y.bypass
  BY <1>5, <1>7, <1>8 DEF ThermoRecord, Alters
<1>10. InHand(x, hd)
  BY <1>1, <1>2, <1>5, <1>9 DEF InHand, Active
<1>11. Ready(x, s, age, hd)
  BY <1>1, <1>2, <1>5, <1>9, <1>10, AltersReady
<1>12. Decides(x, s, age)
  BY <1>1, <1>6, <1>11, DecideStep DEF Ready
<1>13. Sound(x)
  BY <1>1, <1>5, <1>6, <1>11, <1>12, ReadyStep
<1>14. Permits
  BY <1>2, <1>9, <1>13 DEF Sound, Permits
<1>15. LastSaid' /\ Down' /\ started' \in BOOLEAN
  BY <1>6, SaidUnchanged DEF ThermostatInv, Down
<1>16. QED
  BY <1>1, <1>6, <1>13, <1>14, <1>15, Assembled DEF ThermostatTypeOK

LEMMA InitHolds == ThermostatInit => ThermostatInv
<1> SUFFICES ASSUME ThermostatInit
             PROVE  ThermostatInv
  OBVIOUS
<1>1. PICK m \in Modes, v \in Setpoints : t = Fresh(m, v)
  BY DEF ThermostatInit, Modes
<1>2. /\ t \in ThermoRecord /\ t.mode = m /\ t.commanded = "unknown" /\ ~t.confirmed
      /\ t.changed = Guard /\ ~t.enteringOff /\ t.override = None
  BY <1>1, FreshIn
<1>3. /\ started = FALSE /\ reading = Unheard /\ seen = Unseen /\ orders = <<>>
      /\ plug \in Words /\ reach = TRUE /\ reports = <<State(plug, FALSE)>>
      /\ rest = MinOff /\ parted = FALSE /\ hand = None /\ inputs = 0 /\ faults = 0
  BY DEF ThermostatInit
<1>4. PICK p \in Words : p = plug
  BY <1>3
<1>5. PICK n \in Message : n = State(p, FALSE) /\ n.type = "state" /\ n.on = p
  BY <1>4, MessagesIn
<1>6. reports \in Seq(Message) /\ Says(reports, plug)
  BY <1>3, <1>4, <1>5, SaysNow
<1>7. reading \in Reading /\ seen \in Sight
  BY <1>3, Sizes DEF Unheard, Unseen, Reading, Sight, Asked, NoTemp
<1>8. orders \in Seq(Words) /\ hand \in Overrides /\ rest \in 0..MinOff
  BY <1>3, Sizes DEF Overrides
<1>9. ThermostatTypeOK
  <2>1. started \in BOOLEAN /\ reach \in BOOLEAN /\ parted \in BOOLEAN
    BY <1>3
  <2>2. inputs \in 0..MaxInputs /\ faults \in 0..MaxFaults
    BY <1>3, Sizes
  <2>3. plug \in Words
    BY <1>3
  <2>4. QED
    BY <1>2, <1>6, <1>7, <1>8, <2>1, <2>2, <2>3 DEF ThermostatTypeOK
<1>10. Down /\ LastSaid
  BY <1>2, <1>3, <1>6 DEF Down, LastSaid
<1>11. Confirms(t, seen) /\ RestedFor(t, rest, parted) /\ OwesOff(t) /\ InHand(t, hand)
  BY <1>2, <1>3, Sizes DEF Confirms, RestedFor, OwesOff, InHand
<1>12. QED
  BY <1>9, <1>10, <1>11 DEF ThermostatInv

LEMMA NextHolds ==
    ASSUME ThermostatInv, ThermostatNext
    PROVE  ThermostatInv' /\ Permits
<1>1. CASE Tick
  BY <1>1, TickStep
<1>2. CASE (\E v \in Temps \cup {NoTemp} : OnSensorState(v)) \/ OnSensorAvailability
  BY <1>2, SensorStep
<1>3. CASE OnSwitchState
  BY <1>3, ReportStep
<1>4. CASE OnSwitchAvailability
  BY <1>4, AvailabilityStep
<1>5. CASE \/ \E m \in {Running, "off"} : SetMode(m)
           \/ \E v \in Setpoints : SetSetpoint(v)
           \/ \E v \in HoldSetpoints : HoldAt(v)
           \/ Resume \/ Resync \/ StartNow \/ SetSensors
  BY <1>5, HouseholdStep
<1>6. CASE CarryOut \/ Lose \/ FlipByHand \/ OutOfReach \/ WithinReach
  BY <1>6, SwitchStep
<1>7. CASE Shutdown \/ Crash
  BY <1>7, EndsStep
<1>8. CASE Start
  BY <1>8, StartStep
<1>9. QED
  BY <1>1, <1>2, <1>3, <1>4, <1>5, <1>6, <1>7, <1>8, Zenon DEF ThermostatNext, Household

LEMMA InvHolds == ThermostatSpec => []ThermostatInv
<1>1. ThermostatInv /\ [ThermostatNext]_thermostatVars => ThermostatInv'
  <2> SUFFICES ASSUME ThermostatInv, [ThermostatNext]_thermostatVars
               PROVE  ThermostatInv'
    OBVIOUS
  <2>1. CASE ThermostatNext
    BY <2>1, NextHolds
  <2>2. CASE UNCHANGED thermostatVars
    BY <2>2 DEF thermostatVars, ThermostatInv, ThermostatTypeOK, Down, LastSaid, Confirms,
                RestedFor, OwesOff, InHand, Active
  <2>3. QED
    BY <2>1, <2>2
<1>2. QED
  BY <1>1, InitHolds, PTL DEF ThermostatSpec

-----------------------------------------------------------------------------
(* The state of a thermostat, its readings, its switch, its queues and the  *)
(* history kept of it are of their types: no age, wait, count of tries or   *)
(* rest of an override leaves its range, whatever the timeouts are.         *)
THEOREM ThermostatTypes == ThermostatSpec => []ThermostatTypeOK
<1>1. ThermostatInv => ThermostatTypeOK
  BY DEF ThermostatInv
<1>2. QED
  BY <1>1, InvHolds, PTL

(* confirmed (on_switch_state, evaluate): a switch within reach, none of    *)
(* whose reports is under way, is what a thermostat that holds it confirmed *)
(* asked it to be.                                                          *)
THEOREM ConfirmedHolds == ThermostatSpec => []ConfirmedIsTrue
<1>1. ThermostatInv => ConfirmedIsTrue
  <2> SUFFICES ASSUME ThermostatInv, started, reports = <<>>, reach, t.confirmed
               PROVE  plug = t.commanded
    BY DEF ConfirmedIsTrue
  <2>1. Len(reports) = 0
    OBVIOUS
  <2>2. ~ Says(reports, plug)
    BY <2>1 DEF Says
  <2>3. QED
    BY <2>2 DEF ThermostatInv, LastSaid, Confirms
<1>2. QED
  BY <1>1, InvHolds, PTL

(* lockout_remaining and last_change: nothing but start_now asks a switch   *)
(* on sooner than MinOff after the thermostat last asked it to go off or,   *)
(* running, was told that it was turned off; what follows a shutdown's OFF, *)
(* which the code does not stamp, is left out up to the next change.        *)
THEOREM GuardHolds == ThermostatSpec => GuardKept
<1>1. ThermostatInv /\ [ThermostatNext]_thermostatVars =>
        [SendsOrder("on") /\ seen'.on # "on" /\ t.commanded # "on" /\ ~t.bypass /\ ~parted
           => rest' >= MinOff \/ StartNow]_thermostatVars
  BY NextHolds DEF Permits
<1>2. QED
  BY <1>1, InvHolds, PTL DEF ThermostatSpec, GuardKept

(* override_until: a switch flipped by hand is sent nothing for OverrideFor *)
(* or until someone changes the target or the mode, over a restart too.     *)
THEOREM HandHolds == ThermostatSpec => LeftAlone
<1>1. ThermostatInv /\ [ThermostatNext]_thermostatVars =>
        [SendsAny /\ hand' # None => hand' >= OverrideFor]_thermostatVars
  BY NextHolds DEF Permits
<1>2. QED
  BY <1>1, InvHolds, PTL DEF ThermostatSpec, LeftAlone
=============================================================================
