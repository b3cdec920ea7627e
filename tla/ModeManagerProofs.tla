------------------------- MODULE ModeManagerProofs -------------------------
(***************************************************************************)
(* What holds of the mode manager for any modes, length of day, sunrise,    *)
(* sunset and offsets, and any number of commands, edits and restarts.      *)
(***************************************************************************)
EXTENDS ModeManager, WellFoundedInduction, TLAPS

-----------------------------------------------------------------------------
(* The clock.                                                               *)

LEMMA Sizes ==
    /\ DayLen \in Nat \ {0} /\ Sunrise \in Moments /\ Sunset \in Moments
    /\ Offsets \subseteq Nat /\ 0 \in Offsets
    /\ MaxApiCalls \in Nat /\ MaxModeCmds \in Nat
    /\ MaxEdits \in Nat /\ MaxModeCrashes \in Nat
    /\ Builtins \subseteq ModeIds /\ NoMode \notin ModeIds
  BY ModeAssumption

LEMMA Around ==
    ASSUME NEW n \in Nat
    PROVE  /\ n % DayLen \in Moments
           /\ n < DayLen => n % DayLen = n
           /\ n >= DayLen /\ n < 2 * DayLen => n % DayLen = n - DayLen
<1>1. PICK d \in Nat \ {0} : d = DayLen
  BY Sizes
<1>2. n % d \in 0..(d - 1)
  BY <1>1
<1>3. n < d => n % d = n
  BY <1>1
<1>4. n >= d /\ n < 2 * d => n % d = n - d
  BY <1>1
<1>5. QED
  BY <1>1, <1>2, <1>3, <1>4 DEF Moments

LEMMA Transitions ==
    ASSUME NEW m, NEW c \in Configs
    PROVE  OnAt(m, c) \in Moments /\ OffAt(m, c) \in Moments
<1>1. c.on \in Nat /\ c.off \in Nat /\ Sunset \in Nat /\ Sunrise \in Nat
  <2>1. c.on \in Offsets /\ c.off \in Offsets
    BY DEF Configs
  <2>2. Offsets \subseteq Nat
    BY Sizes
  <2>3. Sunset \in Nat /\ Sunrise \in Nat
    BY Sizes DEF Moments
  <2>4. QED
    BY <2>1, <2>2, <2>3
<1>2. PICK a \in Nat, b \in Nat : /\ a = (IF m = Night THEN Sunset ELSE Sunrise) + c.on
                                  /\ b = (IF m = Night THEN Sunrise ELSE Sunset) + c.off
  BY <1>1
<1>3. OnAt(m, c) = a % DayLen /\ OffAt(m, c) = b % DayLen
  BY <1>2 DEF OnAt, OffAt
<1>4. QED
  BY <1>2, <1>3, Around

(* How long ago it was s, at t.                                             *)
Since(t, s) == IF t >= s THEN t - s ELSE t + DayLen - s

LEMMA SinceIs ==
    ASSUME NEW t \in Moments, NEW s \in Moments, NEW n \in Moments
    PROVE  Since(t, s) \in Moments /\ ((t + DayLen - n) % DayLen = s <=> n = Since(t, s))
<1>1. PICK d \in Nat \ {0} : d = DayLen
  BY Sizes
<1>2. t \in 0..(d - 1) /\ s \in 0..(d - 1) /\ n \in 0..(d - 1)
  BY <1>1 DEF Moments
<1>3. t + d - n \in Nat /\ t + d - n < 2 * d
  BY <1>1, <1>2
<1>4. PICK k \in Nat : k = t + d - n
  BY <1>3
<1>5. k % DayLen = IF k < d THEN k ELSE k - d
  BY <1>1, <1>3, <1>4, Around
<1>6. Since(t, s) \in Moments
  BY <1>1, <1>2 DEF Since, Moments
<1>7. QED
  BY <1>1, <1>2, <1>4, <1>5, <1>6 DEF Since

(* solar_mode_is_on agrees with the sun: the two clocks of a window that    *)
(* does, and one that does not, go over midnight.                           *)
LEMMA SunAgrees ==
    ASSUME NEW m, NEW c \in Configs, NEW t \in Moments
    PROVE  SunSays(m, c, t) <=> SolarModeIsOn(m, c, t)
<1>1. PICK a \in Moments, b \in Moments : a = OnAt(m, c) /\ b = OffAt(m, c)
  BY Transitions
<1>2. PICK p \in Moments, q \in Moments : p = Since(t, a) /\ q = Since(t, b)
  BY <1>1, SinceIs
<1>3. \A n \in Moments : /\ (t + DayLen - n) % DayLen = a <=> n = p
                         /\ (t + DayLen - n) % DayLen = b <=> n = q
  BY <1>1, <1>2, SinceIs
<1>4. SunSays(m, c, t) <=> q > p
  <2>1. \A n \in Moments : 0..n \subseteq Moments
    BY Sizes DEF Moments
  <2>2. p \in Nat /\ q \in Nat
    BY <1>2, Sizes DEF Moments
  <2>3. ASSUME SunSays(m, c, t)
        PROVE  q > p
    <3>1. PICK n \in Moments : /\ (t + DayLen - n) % DayLen = a
                               /\ \A k \in 0..n : (t + DayLen - k) % DayLen # b
      BY <1>1, <2>3 DEF SunSays
    <3>2. n = p
      BY <1>3, <3>1
    <3>3. q \notin 0..p
      BY <1>2, <1>3, <3>1, <3>2
    <3>4. QED
      BY <2>2, <3>3
  <2>4. ASSUME q > p
        PROVE  SunSays(m, c, t)
    <3>1. (t + DayLen - p) % DayLen = a
      BY <1>2, <1>3
    <3>2. \A k \in 0..p : (t + DayLen - k) % DayLen # b
      BY <1>2, <1>3, <2>1, <2>2, <2>4
    <3>3. QED
      BY <1>1, <1>2, <3>1, <3>2 DEF SunSays
  <2>5. QED
    BY <2>3, <2>4
<1>5. SolarModeIsOn(m, c, t) <=> q > p
  BY <1>1, <1>2, Sizes DEF SolarModeIsOn, Since, Moments
<1>6. QED
  BY <1>4, <1>5

(* Between two transitions nothing changes.                                 *)
LEMMA Steady ==
    ASSUME NEW m, NEW c \in Configs, NEW t \in Moments,
           (t + 1) % DayLen \notin {OnAt(m, c), OffAt(m, c)}
    PROVE  SolarModeIsOn(m, c, (t + 1) % DayLen) <=> SolarModeIsOn(m, c, t)
<1>1. PICK a \in Moments, b \in Moments : a = OnAt(m, c) /\ b = OffAt(m, c)
  BY Transitions
<1>2. PICK d \in Nat \ {0} : d = DayLen
  BY Sizes
<1>3. /\ t \in 0..(d - 1) /\ a \in 0..(d - 1) /\ b \in 0..(d - 1)
      /\ t + 1 \in Nat /\ t + 1 < 2 * d
  BY <1>1, <1>2 DEF Moments
<1>4. PICK u : u = (t + 1) % DayLen
  OBVIOUS
<1>5. u = IF t + 1 < d THEN t + 1 ELSE t + 1 - d
  BY <1>2, <1>3, <1>4, Around
<1>6. u # a /\ u # b
  BY <1>1, <1>4
<1>7. SolarModeIsOn(m, c, u) <=> SolarModeIsOn(m, c, t)
  BY <1>1, <1>3, <1>5, <1>6 DEF SolarModeIsOn
<1>8. QED
  BY <1>4, <1>7

LEMMA Least ==
    ASSUME NEW S, S \subseteq Nat, S # {}
    PROVE  \E n \in S : \A k \in S : n <= k
<1>1. PICK n \in S : \A k \in S : <<k, n>> \notin OpToRel(<, Nat)
  BY NatLessThanWellFounded, WFMin
<1>2. \A k \in S : ~ (k < n)
  BY <1>1 DEF OpToRel
<1>3. QED
  BY <1>2

-----------------------------------------------------------------------------
(* Lists of modes.                                                          *)

LEMMA ListIs ==
    ASSUME NEW list \in Lists
    PROVE  Ids(list) \subseteq ModeIds /\ (\A m \in Ids(list) : list[m] \in Configs)
<1>1. PICK ids \in SUBSET ModeIds : list \in [ids -> Configs]
  BY DEF Lists
<1>2. QED
  BY <1>1 DEF Ids

LEMMA ListMade ==
    ASSUME NEW ids \in SUBSET ModeIds, NEW list \in [ids -> Configs]
    PROVE  list \in Lists /\ Ids(list) = ids
  BY DEF Lists, Ids

LEMMA ConfigsIn ==
    /\ Manual \in Configs /\ Manual.kind = "manual"
    /\ Solar(0, 0) \in Configs
  BY Sizes DEF Manual, Solar, Configs

(* Only the two built-in modes of a list follow the sun.                    *)
Plain(list) == SolarIn(list) \subseteq Builtins

LEMMA NoListIn == NoList \in Lists /\ Plain(NoList) /\ Ids(NoList) = {}
<1>1. {} \in SUBSET ModeIds /\ NoList \in [{} -> Configs]
  BY DEF NoList
<1>2. NoList \in Lists /\ Ids(NoList) = {}
  BY <1>1, ListMade
<1>3. QED
  BY <1>2 DEF Plain, SolarIn

(* At t, every solar mode of the list but skip is what the sun makes it.    *)
Right(list, skip, dev, t) ==
    \A m \in SolarIn(list) : m # skip => dev[m] = OnOff(SolarModeIsOn(m, list[m], t))

(* After t, none of them but skip has a transition before left moments.     *)
Horizon(list, skip, left, t) ==
    \A m \in SolarIn(list), n \in 1..(left - 1) :
        m # skip => (t + n) % DayLen \notin {OnAt(m, list[m]), OffAt(m, list[m])}

LEMMA NextIn ==
    ASSUME NEW list \in Lists, NEW t \in Moments, NEW skip
    PROVE  /\ NextSolarTransition(list, t) \in 1..DayLen
           /\ Horizon(list, skip, NextSolarTransition(list, t), t)
<1> DEFINE due(n) == \E m \in SolarIn(list) :
                        (t + n) % DayLen \in {OnAt(m, list[m]), OffAt(m, list[m])}
<1>1. PICK steps : steps = {n \in 1..DayLen : due(n)}
  OBVIOUS
<1>2. PICK next : next = NextSolarTransition(list, t)
  OBVIOUS
<1>3. next = IF steps = {} THEN DayLen ELSE CHOOSE n \in steps : \A k \in steps : n <= k
  BY <1>1, <1>2 DEF NextSolarTransition
<1>4. CASE steps = {}
  <2>1. next = DayLen /\ (\A n \in 1..DayLen : ~ due(n))
    BY <1>1, <1>3, <1>4
  <2>2. next \in 1..DayLen /\ (\A n \in 1..(next - 1) : ~ due(n))
    BY <2>1, Sizes
  <2>3. QED
    BY <1>2, <2>2 DEF Horizon
<1>5. CASE steps # {}
  <2>1. steps \subseteq Nat /\ steps \subseteq 1..DayLen
    BY <1>1, Sizes
  <2>2. \E n \in steps : \A k \in steps : n <= k
    BY <1>5, <2>1, Least
  <2>3. next \in steps /\ (\A k \in steps : next <= k)
    BY <1>3, <1>5, <2>2
  <2>4. next \in 1..DayLen
    BY <2>1, <2>3
  <2>5. ASSUME NEW n \in 1..(next - 1)
        PROVE  ~ due(n)
    <3>1. n \in 1..DayLen /\ ~ (next <= n)
      BY <2>4, <2>5, Sizes
    <3>2. n \notin steps
      BY <2>3, <3>1
    <3>3. QED
      BY <1>1, <3>1, <3>2
  <2>6. QED
    BY <1>2, <2>4, <2>5 DEF Horizon
<1>6. QED
  BY <1>4, <1>5

-----------------------------------------------------------------------------
(* The inductive invariant.                                                 *)

(* The loop is past its start-up, its sleep is not over and it has missed   *)
(* nothing.                                                                 *)
OnTime == mgr \in {"idle", "settling", "writing"} /\ toGo > 0 /\ ~ missed

(* While it is on time, the modes it does not owe a change are right, and   *)
(* stay so until its sleep is over.                                         *)
Awake == OnTime => Right(modes, owed, device, clock) /\ Horizon(modes, owed, toGo, clock)

AllPlain == Plain(modes) /\ Plain(file.list) /\ Plain(api.list)

CallsManual == api.op # "none" => api.mode \in ManualIds

ModeInv == ModeTypeOK /\ Awake /\ AllPlain /\ CallsManual

(* The loop as it was, and devices that may differ where no mode follows    *)
(* the sun.                                                                 *)
LEMMA AwakeKept ==
    ASSUME ModeInv, UNCHANGED <<mgr, modes, toGo, owed, missed, clock>>,
           \A m \in Builtins : device'[m] = device[m]
    PROVE  Awake'
<1>1. Plain(modes)
  BY DEF ModeInv, AllPlain
<1>2. QED
  BY <1>1 DEF ModeInv, Awake, OnTime, Right, Horizon, Plain

(* The loop comes round, the modes right if it was on time.                 *)
LEMMA RoundStep ==
    ASSUME NEW list \in Lists, clock \in Moments, toGo \in Nat, missed \in BOOLEAN,
           Round(list), clock' = clock, modes' = list,
           toGo > 0 /\ ~ missed => Right(list, owed', device', clock)
    PROVE  /\ mgr' = "idle" /\ toGo' \in 0..DayLen /\ missed' \in BOOLEAN /\ Awake'
<1>1. PICK n : n = NextSolarTransition(list, clock)
  OBVIOUS
<1>2. /\ mgr' = "idle" /\ toGo' = n /\ missed' = (missed \/ toGo = 0)
  BY <1>1 DEF Round
<1>3. n \in 1..DayLen /\ Horizon(list, owed', n, clock)
  BY <1>1, NextIn
<1>4. ~ missed' => toGo > 0 /\ ~ missed
  <2>1. ~ missed' => toGo # 0 /\ ~ missed
    BY <1>2, Zenon
  <2>2. toGo # 0 => toGo > 0
    OBVIOUS
  <2>3. QED
    BY <2>1, <2>2
<1>5. missed' \in BOOLEAN
  BY <1>2, Zenon
<1>6. Awake'
  BY <1>2, <1>3, <1>4 DEF Awake, OnTime
<1>7. QED
  BY <1>2, <1>3, <1>5, <1>6, Sizes

LEMMA OnOffIn == ASSUME NEW b PROVE OnOff(b) \in {"on", "off"}
  BY DEF OnOff

LEMMA AppliedIn ==
    ASSUME NEW list \in Lists, ModeTypeOK, NEW skip
    PROVE  /\ Applied(list) \in [ModeIds -> {"on", "off", Absent}]
           /\ Right(list, skip, Applied(list), clock)
<1>1. Ids(list) \subseteq ModeIds /\ SolarIn(list) \subseteq ModeIds
  BY ListIs DEF SolarIn
<1>2. device \in [ModeIds -> {"on", "off", Absent}]
  BY DEF ModeTypeOK
<1>3. Applied(list) \in [ModeIds -> {"on", "off", Absent}]
  BY <1>2, OnOffIn DEF Applied
<1>4. QED
  BY <1>1, <1>3 DEF Applied, Right

LEMMA ReloadedIn ==
    ASSUME NEW old \in Lists, NEW new \in Lists, ModeTypeOK, NEW skip, skip \notin ModeIds
    PROVE  /\ Reloaded(old, new) \in [ModeIds -> {"on", "off", Absent}]
           /\ Right(old, skip, device, clock) => Right(new, skip, Reloaded(old, new), clock)
<1>1. SolarIn(new) \subseteq ModeIds /\ SolarIn(new) \subseteq Ids(new)
  BY ListIs DEF SolarIn
<1>2. device \in [ModeIds -> {"on", "off", Absent}]
  BY DEF ModeTypeOK
<1>3. Reloaded(old, new) \in [ModeIds -> {"on", "off", Absent}]
  BY <1>2, OnOffIn DEF Reloaded
<1>4. ASSUME Right(old, skip, device, clock), NEW m \in SolarIn(new)
      PROVE  Reloaded(old, new)[m] = OnOff(SolarModeIsOn(m, new[m], clock))
  <2>1. CASE m \in Ids(old) /\ old[m] = new[m]
    <3>1. m \in SolarIn(old) /\ m # skip
      BY <1>1, <1>4, <2>1 DEF SolarIn
    <3>2. device[m] = OnOff(SolarModeIsOn(m, new[m], clock))
      BY <1>4, <2>1, <3>1 DEF Right
    <3>3. QED
      BY <1>1, <1>4, <2>1, <3>2 DEF Reloaded
  <2>2. CASE ~ (m \in Ids(old) /\ old[m] = new[m])
    BY <1>1, <1>4, <2>2 DEF Reloaded
  <2>3. QED
    BY <2>1, <2>2
<1>5. QED
  BY <1>3, <1>4 DEF Right

LEMMA NoticedIn ==
    ASSUME ModeTypeOK, Noticed
    PROVE  notice' \in BOOLEAN /\ unseen' \in BOOLEAN
<1>1. notice' = (notice \/ watched) /\ unseen' = (unseen \/ ~ watched)
  BY DEF Noticed
<1>2. QED
  BY <1>1, Zenon

-----------------------------------------------------------------------------
(* One lemma per action.                                                    *)

LEMMA StartStep == ASSUME ModeInv, ModeStart PROVE ModeInv'
<1>1. PICK L : L = LoadedOrEmpty
  OBVIOUS
<1>2. L \in Lists /\ Plain(L)
  BY <1>1, NoListIn DEF LoadedOrEmpty, ModeInv, ModeTypeOK, AllPlain
<1>3. PICK list : list = [m \in Ids(L) \cup Builtins |->
                            IF m \in Ids(L) THEN L[m] ELSE Defaults[m]]
  OBVIOUS
<1>4. list \in Lists /\ Plain(list)
  <2>1. Ids(L) \cup Builtins \in SUBSET ModeIds
    BY <1>2, ListIs, Sizes
  <2>2. list \in [Ids(L) \cup Builtins -> Configs]
    BY <1>2, <1>3, ListIs, ConfigsIn DEF Defaults
  <2>3. list \in Lists /\ Ids(list) = Ids(L) \cup Builtins
    BY <2>1, <2>2, ListMade
  <2>4. QED
    BY <1>2, <1>3, <2>3 DEF Plain, SolarIn
<1>5. /\ file' = file \/ file' = [list |-> list, ok |-> TRUE]
      /\ modes' = list /\ mgr' = "starting" /\ unseen' = FALSE /\ mgr = "down"
      /\ UNCHANGED <<clock, toGo, owed, missed, device, watched, notice, api,
                     apiCalls, modeCmds, edits, modeCrashes>>
  BY <1>1, <1>3 DEF ModeStart
<1>6. file' \in [list : Lists, ok : BOOLEAN] /\ Plain(file'.list)
  <2>1. CASE file' = file
    BY <2>1 DEF ModeInv, ModeTypeOK, AllPlain
  <2>2. CASE file' = [list |-> list, ok |-> TRUE]
    <3>1. file' \in [list : Lists, ok : BOOLEAN] /\ file'.list = list
      BY <1>4, <2>2
    <3>2. QED
      BY <1>4, <3>1
  <2>3. QED
    BY <1>5, <2>1, <2>2
<1>7. ModeTypeOK'
  BY <1>4, <1>5, <1>6 DEF ModeInv, ModeTypeOK
<1>8. Awake'
  BY <1>5 DEF Awake, OnTime
<1>9. AllPlain' /\ CallsManual'
  BY <1>4, <1>5, <1>6 DEF ModeInv, AllPlain, CallsManual, Plain
<1>10. QED
  BY <1>7, <1>8, <1>9 DEF ModeInv

LEMMA ReadyStep == ASSUME ModeInv, ModeReady PROVE ModeInv'
<1> USE DEF ModeReady, fileVars
<1>1. modes \in Lists /\ ModeTypeOK /\ clock \in Moments
  BY DEF ModeInv, ModeTypeOK
<1>2. PICK n, dev : n = NextSolarTransition(modes, clock) /\ dev = Applied(modes)
  OBVIOUS
<1>3. n \in 1..DayLen /\ Horizon(modes, owed, n, clock)
  BY <1>1, <1>2, NextIn
<1>4. dev \in [ModeIds -> {"on", "off", Absent}] /\ Right(modes, owed, dev, clock)
  BY <1>1, <1>2, AppliedIn
<1>5. n \in 0..DayLen
  BY <1>3, Sizes
<1>6. ModeTypeOK'
  BY <1>2, <1>4, <1>5 DEF ModeInv, ModeTypeOK
<1>7. Awake'
  BY <1>2, <1>3, <1>4 DEF Awake
<1>8. AllPlain' /\ CallsManual'
  BY DEF ModeInv, AllPlain, CallsManual, Plain
<1>9. QED
  BY <1>6, <1>7, <1>8 DEF ModeInv

LEMMA WakeStep == ASSUME ModeInv, SolarWake PROVE ModeInv'
<1> USE DEF SolarWake, fileVars
<1>1. modes \in Lists /\ ModeTypeOK /\ clock \in Moments
  BY DEF ModeInv, ModeTypeOK
<1>2. PICK n, dev : n = NextSolarTransition(modes, clock) /\ dev = Applied(modes)
  OBVIOUS
<1>3. n \in 1..DayLen /\ Horizon(modes, owed, n, clock)
  BY <1>1, <1>2, NextIn
<1>4. dev \in [ModeIds -> {"on", "off", Absent}] /\ Right(modes, owed, dev, clock)
  BY <1>1, <1>2, AppliedIn
<1>5. n \in 0..DayLen
  BY <1>3, Sizes
<1>6. ModeTypeOK'
  BY <1>2, <1>4, <1>5 DEF ModeInv, ModeTypeOK
<1>7. Awake'
  BY <1>2, <1>3, <1>4 DEF Awake
<1>8. AllPlain' /\ CallsManual'
  BY DEF ModeInv, AllPlain, CallsManual, Plain
<1>9. QED
  BY <1>6, <1>7, <1>8 DEF ModeInv

LEMMA MessageStep == ASSUME ModeInv, OtherMessage PROVE ModeInv'
<1> USE DEF OtherMessage, fileVars
<1>1. modes \in Lists /\ clock \in Moments /\ missed \in BOOLEAN /\ toGo = 0
  BY DEF ModeInv, ModeTypeOK
<1>2. mgr' = "idle" /\ toGo' \in 0..DayLen /\ missed' \in BOOLEAN /\ Awake'
  BY <1>1, RoundStep
<1>3. ModeTypeOK'
  BY <1>2 DEF ModeInv, ModeTypeOK
<1>4. AllPlain' /\ CallsManual'
  BY DEF ModeInv, AllPlain, CallsManual, Plain
<1>5. QED
  BY <1>2, <1>3, <1>4 DEF ModeInv

LEMMA DueStep == ASSUME ModeInv, ReloadDue PROVE ModeInv'
<1> USE DEF ReloadDue, fileVars
<1>1. ModeTypeOK'
  BY DEF ModeInv, ModeTypeOK
<1>2. Awake'
  BY DEF ModeInv, Awake, OnTime
<1>3. AllPlain' /\ CallsManual'
  BY DEF ModeInv, AllPlain, CallsManual, Plain
<1>4. QED
  BY <1>1, <1>2, <1>3 DEF ModeInv

LEMMA ReloadStep == ASSUME ModeInv, Reload PROVE ModeInv'
<1>1. /\ modes \in Lists /\ file.list \in Lists /\ clock \in Moments /\ missed \in BOOLEAN
      /\ toGo \in Nat /\ mgr = "settling" /\ owed = NoMode /\ ModeTypeOK
      /\ Plain(modes) /\ Plain(file.list) /\ owed \notin ModeIds
  BY Sizes DEF ModeInv, ModeTypeOK, AllPlain, Reload
<1>2. UNCHANGED <<clock, owed, file, unseen, watched, api,
                  apiCalls, modeCmds, edits, modeCrashes>> /\ notice' = FALSE
  BY DEF Reload
<1>3. toGo > 0 /\ ~ missed => Right(modes, owed, device, clock)
  BY <1>1 DEF ModeInv, Awake, OnTime
<1>4. /\ modes' \in Lists /\ Plain(modes')
      /\ device' \in [ModeIds -> {"on", "off", Absent}]
      /\ toGo > 0 /\ ~ missed => Right(modes', owed', device', clock)
  <2>1. CASE file.ok
    <3>1. device' = Reloaded(modes, file.list) /\ modes' = file.list
      BY <2>1 DEF Reload
    <3>2. PICK old, new : old = modes /\ new = file.list
      OBVIOUS
    <3>3. PICK dev : dev = Reloaded(old, new)
      OBVIOUS
    <3>4. /\ dev \in [ModeIds -> {"on", "off", Absent}]
          /\ Right(old, owed, device, clock) => Right(new, owed, dev, clock)
      BY <1>1, <3>2, <3>3, ReloadedIn
    <3>5. device' = dev /\ modes' = new /\ owed' = owed
      BY <1>2, <3>1, <3>2, <3>3
    <3>6. QED
      BY <1>1, <1>3, <3>2, <3>4, <3>5
  <2>2. CASE ~ file.ok
    <3>1. UNCHANGED <<device, modes, owed>>
      BY <1>2, <2>2 DEF Reload
    <3>2. QED
      BY <1>1, <1>3, <3>1 DEF ModeTypeOK
  <2>3. QED
    BY <2>1, <2>2
<1>5. PICK list \in Lists : list = modes'
  BY <1>4
<1>6. Round(list)
  BY <1>5 DEF Reload
<1>7. mgr' = "idle" /\ toGo' \in 0..DayLen /\ missed' \in BOOLEAN /\ Awake'
  BY <1>1, <1>2, <1>4, <1>5, <1>6, RoundStep
<1>8. ModeTypeOK'
  BY <1>1, <1>2, <1>4, <1>7 DEF ModeTypeOK
<1>9. AllPlain' /\ CallsManual'
  BY <1>2, <1>4 DEF ModeInv, AllPlain, CallsManual, Plain
<1>10. QED
  BY <1>7, <1>8, <1>9 DEF ModeInv

LEMMA ManualStep ==
    ASSUME ModeInv, NEW m \in ModeIds, NEW on \in BOOLEAN, ManualCommand(m, on)
    PROVE  ModeInv'
<1> USE DEF ManualCommand, Command, fileVars
<1>1. /\ modes \in Lists /\ clock \in Moments /\ missed \in BOOLEAN /\ toGo \in Nat
      /\ device \in [ModeIds -> {"on", "off", Absent}] /\ mgr = "idle"
      /\ m \notin SolarIn(modes)
  BY Sizes DEF ModeInv, ModeTypeOK
<1>2. device' \in [ModeIds -> {"on", "off", Absent}]
  BY <1>1, OnOffIn
<1>3. toGo > 0 /\ ~ missed => Right(modes, owed', device', clock)
  <2>1. \A k \in SolarIn(modes) : device'[k] = device[k]
    BY <1>1
  <2>2. toGo > 0 /\ ~ missed => Right(modes, owed, device, clock)
    BY <1>1 DEF ModeInv, Awake, OnTime
  <2>3. QED
    BY <2>1, <2>2 DEF Right
<1>4. mgr' = "idle" /\ toGo' \in 0..DayLen /\ missed' \in BOOLEAN /\ Awake'
  BY <1>1, <1>3, RoundStep
<1>5. modeCmds' \in 0..MaxModeCmds
  BY Sizes DEF ModeInv, ModeTypeOK
<1>6. ModeTypeOK'
  BY <1>1, <1>2, <1>4, <1>5 DEF ModeInv, ModeTypeOK
<1>7. AllPlain' /\ CallsManual'
  BY DEF ModeInv, AllPlain, CallsManual, Plain
<1>8. QED
  BY <1>4, <1>6, <1>7 DEF ModeInv

LEMMA OffsetStep ==
    ASSUME ModeInv, NEW m \in ModeIds, NEW c \in Configs, OffsetCommand(m, c)
    PROVE  ModeInv'
<1> USE DEF OffsetCommand, Command, fileVars
<1>1. /\ modes \in Lists /\ mgr = "idle" /\ m \in SolarIn(modes) /\ owed = NoMode
      /\ modes' = [modes EXCEPT ![m] = c] /\ c.kind = "solar" /\ owed' = m
      /\ m \in Ids(modes) /\ Plain(modes)
  BY DEF ModeInv, ModeTypeOK, SolarIn, AllPlain
<1>2. PICK ids \in SUBSET ModeIds : modes \in [ids -> Configs]
  BY <1>1 DEF Lists
<1>3. modes' \in [ids -> Configs] /\ m \in ids /\ modes'[m] = c
  BY <1>1, <1>2 DEF Ids
<1>4. /\ modes' \in Lists /\ Ids(modes') = ids /\ Ids(modes) = ids
      /\ \A k \in ids : k # m => modes'[k] = modes[k]
  BY <1>1, <1>2, <1>3, ListMade
<1>5. SolarIn(modes') = SolarIn(modes)
  BY <1>1, <1>3, <1>4 DEF SolarIn
<1>6. Plain(modes')
  BY <1>1, <1>5 DEF Plain
<1>7. file' = [list |-> NoList, ok |-> TRUE] /\ Noticed
  BY DEF Truncate
<1>8. file' \in [list : Lists, ok : BOOLEAN] /\ file'.list = NoList /\ Plain(file'.list)
  BY <1>7, NoListIn
<1>9. notice' \in BOOLEAN /\ unseen' \in BOOLEAN
  BY <1>7, NoticedIn DEF ModeInv
<1>10. modeCmds' \in 0..MaxModeCmds
  BY Sizes DEF ModeInv, ModeTypeOK
<1>11. ModeTypeOK'
  BY <1>1, <1>4, <1>8, <1>9, <1>10, Sizes DEF ModeInv, ModeTypeOK
<1>12. Awake'
  <2>1. SUFFICES ASSUME OnTime'
                 PROVE  Right(modes, owed, device, clock)' /\ Horizon(modes, owed, toGo, clock)'
    BY DEF Awake
  <2>2. Right(modes, owed, device, clock) /\ Horizon(modes, owed, toGo, clock)
    BY <1>1, <2>1 DEF ModeInv, Awake, OnTime
  <2>3. \A k \in SolarIn(modes) : k # NoMode /\ k \in ids
    BY <1>2, <1>4, Sizes DEF SolarIn
  <2>4. Right(modes', m, device, clock)
    BY <1>1, <1>4, <1>5, <2>2, <2>3 DEF Right
  <2>5. Horizon(modes', m, toGo, clock)
    BY <1>1, <1>4, <1>5, <2>2, <2>3 DEF Horizon
  <2>6. QED
    BY <1>1, <2>4, <2>5
<1>13. AllPlain' /\ CallsManual'
  BY <1>6, <1>8 DEF ModeInv, AllPlain, CallsManual, Plain
<1>14. QED
  BY <1>11, <1>12, <1>13 DEF ModeInv

LEMMA WrittenStep == ASSUME ModeInv, OffsetWritten PROVE ModeInv'
<1> USE DEF OffsetWritten, fileVars
<1>1. /\ modes \in Lists /\ clock \in Moments /\ missed \in BOOLEAN /\ toGo \in Nat
      /\ device \in [ModeIds -> {"on", "off", Absent}] /\ mgr = "writing"
      /\ owed \in ModeIds
  BY Sizes DEF ModeInv, ModeTypeOK
<1>2. PICK b : b = OnOff(SolarModeIsOn(owed, modes[owed], clock))
  OBVIOUS
<1>3. device' = [device EXCEPT ![owed] = b] /\ b \in {"on", "off"}
  BY <1>2, OnOffIn
<1>4. /\ device' \in [ModeIds -> {"on", "off", Absent}] /\ device'[owed] = b
      /\ \A k \in ModeIds : k # owed => device'[k] = device[k]
  BY <1>1, <1>3
<1>5. toGo > 0 /\ ~ missed => Right(modes, owed', device', clock)
  <2>1. toGo > 0 /\ ~ missed => Right(modes, owed, device, clock)
    BY <1>1 DEF ModeInv, Awake, OnTime
  <2>2. SolarIn(modes) \subseteq ModeIds
    BY <1>1, ListIs DEF SolarIn
  <2>3. QED
    BY <1>2, <1>4, <2>1, <2>2 DEF Right
<1>6. mgr' = "idle" /\ toGo' \in 0..DayLen /\ missed' \in BOOLEAN /\ Awake'
  BY <1>1, <1>5, RoundStep
<1>7. file' = [list |-> modes, ok |-> TRUE] /\ Noticed
  BY DEF Fill
<1>8. file' \in [list : Lists, ok : BOOLEAN] /\ file'.list = modes
  BY <1>1, <1>7
<1>9. notice' \in BOOLEAN /\ unseen' \in BOOLEAN
  BY <1>7, NoticedIn DEF ModeInv
<1>10. ModeTypeOK'
  BY <1>4, <1>6, <1>8, <1>9 DEF ModeInv, ModeTypeOK
<1>11. AllPlain' /\ CallsManual'
  BY <1>8 DEF ModeInv, AllPlain, CallsManual, Plain
<1>12. QED
  BY <1>6, <1>10, <1>11 DEF ModeInv

LEMMA LoadsStep ==
    ASSUME ModeInv, NEW m \in ModeIds, NEW op \in {"create", "delete"}, ApiLoads(op, m)
    PROVE  ModeInv'
<1> USE DEF ApiLoads, fileVars, loopVarsM
<1>1. PICK L : L = LoadedOrEmpty
  OBVIOUS
<1>2. L \in Lists /\ Plain(L)
  BY <1>1, NoListIn DEF LoadedOrEmpty, ModeInv, ModeTypeOK, AllPlain
<1>3. api' = [op |-> op, mode |-> m, list |-> L] /\ m \in ManualIds
  BY <1>1
<1>4. apiCalls' \in 0..MaxApiCalls
  BY Sizes DEF ModeInv, ModeTypeOK
<1>5. ModeTypeOK'
  BY <1>2, <1>3, <1>4 DEF ModeInv, ModeTypeOK
<1>6. Awake'
  BY AwakeKept
<1>7. AllPlain' /\ CallsManual'
  BY <1>2, <1>3 DEF ModeInv, AllPlain, CallsManual, Plain
<1>8. QED
  BY <1>5, <1>6, <1>7 DEF ModeInv

LEMMA EditedIn ==
    ASSUME NEW call, call.list \in Lists, call.mode \in ManualIds, Plain(call.list)
    PROVE  Edited(call) \in Lists /\ Plain(Edited(call))
<1>1. PICK L \in Lists, m \in ModeIds : L = call.list /\ m = call.mode
  BY DEF ManualIds
<1>2. Ids(L) \subseteq ModeIds /\ (\A k \in Ids(L) : L[k] \in Configs)
  BY ListIs
<1>3. PICK more : more = [k \in Ids(L) \cup {m} |-> IF k \in Ids(L) THEN L[k] ELSE Manual]
  OBVIOUS
<1>4. PICK less : less = [k \in Ids(L) \ {m} |-> L[k]]
  OBVIOUS
<1>5. more \in Lists /\ Ids(more) = Ids(L) \cup {m}
  BY <1>2, <1>3, ConfigsIn, ListMade
<1>6. less \in Lists /\ Ids(less) = Ids(L) \ {m}
  BY <1>2, <1>4, ListMade
<1>7. Plain(more) /\ Plain(less)
  BY <1>1, <1>3, <1>4, <1>5, <1>6, ConfigsIn DEF Plain, SolarIn
<1>8. Edited(call) = more \/ Edited(call) = less
  BY <1>1, <1>3, <1>4 DEF Edited, Restrict, Ids
<1>9. QED
  BY <1>5, <1>6, <1>7, <1>8

LEMMA TruncatesStep == ASSUME ModeInv, ApiTruncates PROVE ModeInv'
<1> USE DEF ApiTruncates, loopVarsM
<1>1. PICK E : E = Edited(api)
  OBVIOUS
<1>2. E \in Lists /\ Plain(E)
  <2>1. api.list \in Lists /\ Plain(api.list) /\ api.mode \in ManualIds
    BY DEF ModeInv, ModeTypeOK, AllPlain, CallsManual
  <2>2. PICK call : call = api
    OBVIOUS
  <2>3. QED
    BY <1>1, <2>1, <2>2, EditedIn
<1>3. PICK op \in {"creating", "deleting"} :
          op = IF api.op = "create" THEN "creating" ELSE "deleting"
  OBVIOUS
<1>4. api' = [api EXCEPT !.op = op, !.list = E]
  BY <1>1, <1>3
<1>5. /\ api' \in [op : {"none", "create", "delete", "creating", "deleting", "dropping"},
                   mode : ModeIds \cup {NoMode}, list : Lists]
      /\ api'.list = E /\ api'.mode = api.mode
  BY <1>2, <1>3, <1>4 DEF ModeInv, ModeTypeOK
<1>6. file' = [list |-> NoList, ok |-> TRUE] /\ Noticed
  BY DEF Truncate
<1>7. file' \in [list : Lists, ok : BOOLEAN] /\ file'.list = NoList /\ Plain(file'.list)
  BY <1>6, NoListIn
<1>8. notice' \in BOOLEAN /\ unseen' \in BOOLEAN
  BY <1>6, NoticedIn DEF ModeInv
<1>9. ModeTypeOK'
  BY <1>5, <1>7, <1>8 DEF ModeInv, ModeTypeOK
<1>10. Awake'
  BY AwakeKept
<1>11. AllPlain' /\ CallsManual'
  BY <1>2, <1>5, <1>7 DEF ModeInv, AllPlain, CallsManual, Plain
<1>12. QED
  BY <1>9, <1>10, <1>11 DEF ModeInv

LEMMA NoCallIn ==
    /\ NoCall \in [op : {"none", "create", "delete", "creating", "deleting", "dropping"},
                   mode : ModeIds \cup {NoMode}, list : Lists]
    /\ NoCall.op = "none" /\ NoCall.list = NoList
  BY NoListIn DEF NoCall

LEMMA FillsStep == ASSUME ModeInv, ApiFills PROVE ModeInv'
<1> USE DEF ApiFills, loopVarsM
<1>1. api.list \in Lists /\ Plain(api.list) /\ api.mode \in ManualIds
  BY DEF ModeInv, ModeTypeOK, AllPlain, CallsManual
<1>2. api' = NoCall \/ api' = [api EXCEPT !.op = "dropping", !.list = NoList]
  OBVIOUS
<1>3. /\ api' \in [op : {"none", "create", "delete", "creating", "deleting", "dropping"},
                   mode : ModeIds \cup {NoMode}, list : Lists]
      /\ api'.list = NoList /\ (api'.op # "none" => api'.mode \in ManualIds)
  BY <1>1, <1>2, NoCallIn, NoListIn DEF ModeInv, ModeTypeOK
<1>4. file' = [list |-> api.list, ok |-> TRUE] /\ Noticed
  BY DEF Fill
<1>5. file' \in [list : Lists, ok : BOOLEAN] /\ file'.list = api.list
  BY <1>1, <1>4
<1>6. notice' \in BOOLEAN /\ unseen' \in BOOLEAN
  BY <1>4, NoticedIn DEF ModeInv
<1>7. ModeTypeOK'
  BY <1>3, <1>5, <1>6 DEF ModeInv, ModeTypeOK
<1>8. Awake'
  BY AwakeKept
<1>9. AllPlain' /\ CallsManual'
  BY <1>1, <1>3, <1>5, NoListIn DEF ModeInv, AllPlain, CallsManual, Plain
<1>10. QED
  BY <1>7, <1>8, <1>9 DEF ModeInv

LEMMA DropsStep == ASSUME ModeInv, ApiDropsDevice PROVE ModeInv'
<1> USE DEF ApiDropsDevice, loopVarsM, fileVars
<1>1. api.mode \in ManualIds /\ device \in [ModeIds -> {"on", "off", Absent}]
  BY DEF ModeInv, ModeTypeOK, CallsManual
<1>2. /\ device' \in [ModeIds -> {"on", "off", Absent}]
      /\ \A m \in Builtins : device'[m] = device[m]
  BY <1>1, Sizes DEF ManualIds
<1>3. ModeTypeOK'
  BY <1>2, NoCallIn DEF ModeInv, ModeTypeOK
<1>4. Awake'
  BY <1>2, AwakeKept
<1>5. AllPlain' /\ CallsManual'
  BY NoCallIn, NoListIn DEF ModeInv, AllPlain, CallsManual, Plain
<1>6. QED
  BY <1>3, <1>4, <1>5 DEF ModeInv

LEMMA HandStep == ASSUME ModeInv, HandEdit \/ HandMend PROVE ModeInv'
<1> USE DEF HandEdit, HandMend, loopVarsM
<1>1. PICK ok \in BOOLEAN : file' = [file EXCEPT !.ok = ok]
  OBVIOUS
<1>2. /\ UNCHANGED <<loopVarsM, clock, device, watched, api, apiCalls, modeCmds, modeCrashes>>
      /\ Noticed
  OBVIOUS
<1>3. file' \in [list : Lists, ok : BOOLEAN] /\ file'.list = file.list
  BY <1>1 DEF ModeInv, ModeTypeOK
<1>4. notice' \in BOOLEAN /\ unseen' \in BOOLEAN
  BY <1>2, NoticedIn DEF ModeInv
<1>5. edits' \in 0..MaxEdits
  BY Sizes DEF ModeInv, ModeTypeOK
<1>6. ModeTypeOK'
  BY <1>2, <1>3, <1>4, <1>5 DEF ModeInv, ModeTypeOK
<1>7. Awake'
  BY <1>2, AwakeKept
<1>8. AllPlain' /\ CallsManual'
  BY <1>2, <1>3 DEF ModeInv, AllPlain, CallsManual, Plain
<1>9. QED
  BY <1>6, <1>7, <1>8 DEF ModeInv

LEMMA CrashStep == ASSUME ModeInv, ModeCrash PROVE ModeInv'
<1> USE DEF ModeCrash
<1>1. modeCrashes' \in 0..MaxModeCrashes /\ toGo' \in 0..DayLen
  BY Sizes DEF ModeInv, ModeTypeOK
<1>2. ModeTypeOK'
  BY <1>1, NoListIn, NoCallIn DEF ModeInv, ModeTypeOK
<1>3. Awake'
  BY DEF Awake, OnTime
<1>4. AllPlain' /\ CallsManual'
  BY NoCallIn, NoListIn DEF ModeInv, AllPlain, CallsManual, Plain
<1>5. QED
  BY <1>2, <1>3, <1>4 DEF ModeInv

(* n moments after the one that comes next are n + 1 after this one.        *)
LEMMA Later ==
    ASSUME NEW t \in Moments, NEW n \in 1..DayLen
    PROVE  (((t + 1) % DayLen) + n) % DayLen = (t + (n + 1)) % DayLen
<1>1. PICK d \in Nat \ {0} : d = DayLen
  BY Sizes
<1>2. t \in 0..(d - 1) /\ n \in 1..d /\ t + 1 \in Nat
  BY <1>1 DEF Moments
<1>3. PICK u \in Nat : u = (t + 1) % DayLen
  BY <1>2, Around DEF Moments
<1>4. u = IF t + 1 < d THEN t + 1 ELSE t + 1 - d
  BY <1>1, <1>2, <1>3, Around
<1>5. CASE t + 1 < d
  <2>1. u + n = t + (n + 1)
    BY <1>2, <1>4, <1>5
  <2>2. QED
    BY <1>3, <2>1
<1>6. CASE ~ (t + 1 < d)
  <2>1. u = 0 /\ t + (n + 1) = d + n
    BY <1>2, <1>4, <1>6
  <2>2. n % d = (d + n) % d
    BY <1>1, <1>2
  <2>3. QED
    BY <1>1, <1>2, <1>3, <2>1, <2>2
<1>7. QED
  BY <1>5, <1>6

LEMMA PassesStep == ASSUME ModeInv, MomentPasses PROVE ModeInv'
<1> USE DEF MomentPasses, fileVars
<1>1. clock \in Moments /\ toGo \in 0..DayLen /\ modes \in Lists /\ toGo \in Nat
  BY Sizes DEF ModeInv, ModeTypeOK
<1>2. clock' \in Moments /\ clock' = (clock + 1) % DayLen
  <2>1. clock + 1 \in Nat
    BY <1>1, Sizes DEF Moments
  <2>2. QED
    BY <2>1, Around
<1>3. toGo' \in 0..DayLen
  BY <1>1, Sizes
<1>4. ModeTypeOK'
  BY <1>2, <1>3 DEF ModeInv, ModeTypeOK
<1>5. Awake'
  <2>1. SUFFICES ASSUME OnTime'
                 PROVE  Right(modes, owed, device, clock)' /\ Horizon(modes, owed, toGo, clock)'
    BY DEF Awake
  <2>2. toGo > 1 /\ toGo' = toGo - 1
    BY <1>1, <2>1 DEF OnTime
  <2>3. Right(modes, owed, device, clock) /\ Horizon(modes, owed, toGo, clock)
    BY <1>1, <2>1, <2>2 DEF ModeInv, Awake, OnTime
  <2>4. PICK t \in Moments, u \in Moments : t = clock /\ u = clock'
    BY <1>1, <1>2
  <2>5. PICK left \in Nat, list \in Lists : left = toGo /\ list = modes
    BY <1>1
  <2>6. left > 1 /\ left \in 1..DayLen /\ u = (t + 1) % DayLen
    BY <1>1, <1>2, <2>2, <2>4, <2>5, Sizes
  <2>7. Right(list, owed, device, t) /\ Horizon(list, owed, left, t)
    BY <2>3, <2>4, <2>5
  <2>8. \A m \in SolarIn(list) : list[m] \in Configs
    BY ListIs DEF SolarIn
  <2>9. Right(list, owed, device, u)
    <3>1. SUFFICES ASSUME NEW m \in SolarIn(list), m # owed
                   PROVE  device[m] = OnOff(SolarModeIsOn(m, list[m], u))
      BY DEF Right
    <3>2. u \notin {OnAt(m, list[m]), OffAt(m, list[m])}
      <4>1. 1 \in 1..(left - 1)
        BY <2>6
      <4>2. QED
        BY <2>6, <2>7, <3>1, <4>1 DEF Horizon
    <3>3. SolarModeIsOn(m, list[m], u) <=> SolarModeIsOn(m, list[m], t)
      BY <2>6, <2>8, <3>2, Steady
    <3>4. QED
      BY <2>7, <3>1, <3>3 DEF Right, OnOff
  <2>10. Horizon(list, owed, left - 1, u)
    <3>1. SUFFICES ASSUME NEW m \in SolarIn(list), NEW n \in 1..((left - 1) - 1), m # owed
                   PROVE  (u + n) % DayLen \notin {OnAt(m, list[m]), OffAt(m, list[m])}
      BY DEF Horizon
    <3>2. n \in 1..DayLen /\ n + 1 \in 1..(left - 1)
      BY <2>6, Sizes
    <3>3. (u + n) % DayLen = (t + (n + 1)) % DayLen
      BY <2>6, <3>2, Later
    <3>4. (t + (n + 1)) % DayLen \notin {OnAt(m, list[m]), OffAt(m, list[m])}
      BY <2>7, <3>1, <3>2 DEF Horizon
    <3>5. QED
      BY <3>3, <3>4
  <2>11. QED
    BY <2>2, <2>4, <2>5, <2>9, <2>10
<1>6. AllPlain' /\ CallsManual'
  BY DEF ModeInv, AllPlain, CallsManual, Plain
<1>7. QED
  BY <1>4, <1>5, <1>6 DEF ModeInv

-----------------------------------------------------------------------------
(* The invariant and the theorems.                                          *)

LEMMA InitHolds == ASSUME ModeInit PROVE ModeInv
<1> USE DEF ModeInit
<1>1. PICK manuals : manuals = [m \in ManualIds |-> Manual]
  OBVIOUS
<1>2. manuals \in Lists /\ Plain(manuals)
  <2>1. ManualIds \in SUBSET ModeIds /\ manuals \in [ManualIds -> Configs]
    BY <1>1, ConfigsIn DEF ManualIds
  <2>2. manuals \in Lists /\ Ids(manuals) = ManualIds
    BY <2>1, ListMade
  <2>3. QED
    BY <1>1, <2>2, ConfigsIn DEF Plain, SolarIn
<1>3. PICK list \in {NoList, manuals} : file = [list |-> list, ok |-> TRUE]
  BY <1>1
<1>4. file \in [list : Lists, ok : BOOLEAN] /\ file.list = list /\ Plain(list)
  BY <1>2, <1>3, NoListIn
<1>5. toGo \in 0..DayLen /\ apiCalls \in 0..MaxApiCalls /\ modeCmds \in 0..MaxModeCmds
      /\ edits \in 0..MaxEdits /\ modeCrashes \in 0..MaxModeCrashes
  BY Sizes
<1>6. ModeTypeOK
  BY <1>4, <1>5, NoListIn, NoCallIn DEF ModeTypeOK
<1>7. Awake
  BY DEF Awake, OnTime
<1>8. AllPlain /\ CallsManual
  BY <1>4, NoListIn, NoCallIn DEF AllPlain, CallsManual
<1>9. QED
  BY <1>6, <1>7, <1>8 DEF ModeInv

LEMMA Stands == ASSUME ModeInv, UNCHANGED modeVars PROVE ModeInv'
<1> USE DEF modeVars, loopVarsM, fileVars
<1>1. ModeTypeOK'
  BY DEF ModeInv, ModeTypeOK
<1>2. Awake'
  BY AwakeKept
<1>3. AllPlain' /\ CallsManual'
  BY DEF ModeInv, AllPlain, CallsManual, Plain
<1>4. QED
  BY <1>1, <1>2, <1>3 DEF ModeInv

LEMMA ModeInductive == ASSUME ModeInv, [ModeNext]_modeVars PROVE ModeInv'
<1>1. CASE ModeLoop
  BY <1>1, StartStep, ReadyStep, ReloadStep, WrittenStep DEF ModeLoop
<1>2. ASSUME NEW m \in ModeIds,
             \/ \E on \in BOOLEAN : ManualCommand(m, on)
             \/ \E c \in Configs : OffsetCommand(m, c)
             \/ \E op \in {"create", "delete"} : ApiLoads(op, m)
      PROVE  ModeInv'
  BY <1>2, ManualStep, OffsetStep, LoadsStep
<1>3. CASE SolarWake \/ OtherMessage \/ ReloadDue
  BY <1>3, WakeStep, MessageStep, DueStep
<1>4. CASE ApiTruncates \/ ApiFills \/ ApiDropsDevice
  BY <1>4, TruncatesStep, FillsStep, DropsStep
<1>5. CASE HandEdit \/ HandMend \/ ModeCrash \/ MomentPasses
  BY <1>5, HandStep, CrashStep, PassesStep
<1>6. CASE UNCHANGED modeVars
  BY <1>6, Stands
<1>7. QED
  BY <1>1, <1>2, <1>3, <1>4, <1>5, <1>6 DEF ModeNext

(* The loop's list and devices keep to its clock: ModeInv always holds.     *)
THEOREM ModesSound == ModeSpec => []ModeInv
<1>1. ModeInit => ModeInv
  BY InitHolds
<1>2. ModeInv /\ [ModeNext]_modeVars => ModeInv'
  BY ModeInductive
<1>3. QED
  BY <1>1, <1>2, PTL DEF ModeSpec

(* Type correctness of the loop, modes.toml, the API call and the devices.  *)
THEOREM ModeTypes == ModeSpec => []ModeTypeOK
<1>1. ModeInv => ModeTypeOK
  BY DEF ModeInv
<1>2. QED
  BY <1>1, ModesSound, PTL

(* A solar mode of mode_manager.rs is on exactly when the sun says so, for  *)
(* every sunrise, sunset and offset, until the next transition is due and   *)
(* unless one came while the loop was busy.  The code's comparison of times *)
(* of day, with its window over midnight, is shown to be the order in which *)
(* the two transitions came.                                                *)
THEOREM SunIsFollowed == ModeSpec => []SolarRight
<1>1. ASSUME ModeInv
      PROVE  SolarRight
  <2>1. SUFFICES ASSUME mgr = "idle", toGo > 0, ~ missed
                 PROVE  AllRight
    BY DEF SolarRight
  <2>2. Right(modes, owed, device, clock) /\ owed = NoMode /\ clock \in Moments /\ modes \in Lists
    BY <1>1, <2>1 DEF ModeInv, ModeTypeOK, Awake, OnTime
  <2>3. SUFFICES ASSUME NEW m \in SolarIn(modes)
                 PROVE  device[m] = OnOff(SunSays(m, modes[m], clock))
    BY DEF AllRight
  <2>4. m # owed /\ modes[m] \in Configs
    BY <2>2, <2>3, ListIs, Sizes DEF SolarIn
  <2>5. SunSays(m, modes[m], clock) <=> SolarModeIsOn(m, modes[m], clock)
    BY <2>2, <2>4, SunAgrees
  <2>6. QED
    BY <2>2, <2>4, <2>5 DEF Right, OnOff
<1>2. QED
  BY <1>1, ModesSound, PTL
=============================================================================
