------------------------- MODULE AlertEngineProofs -------------------------
(***************************************************************************)
(* What holds of the alert engine for any alerts, people, sorts, minutes    *)
(* and room for mail: the types, that an alert is sent and fires at most    *)
(* once, and that acknowledgements and alerts go together.                  *)
(***************************************************************************)
EXTENDS AlertEngine, FiniteSetTheorems, TLAPS

-----------------------------------------------------------------------------
(* The inductive invariant, beside the types.                               *)

(* A pass has worked out its alerts and not yet put them in place.          *)
InFlight == pass \in {"sending", "replacing"}

(* Without a pass in flight there is no list that waits to be put in place. *)
NothingWaits == ~ InFlight => \A a \in Alerts : after[a] = NoAlert

(* What has been sent is in the list or about to be, and what is still to   *)
(* be sent is in neither and has not been.                                  *)
SendsOnce ==
    \A a \in Alerts :
        /\ sent[a] <= 1
        /\ sent[a] # 0 => active[a] # NoAlert \/ after[a] # NoAlert
        /\ a \in toSend => sent[a] = 0 /\ active[a] = NoAlert

(* The scheduler has the pair of what has fired, as long as it lasts.       *)
FiresOnce ==
    \A a \in Alerts :
        /\ fired[a] <= 1
        /\ fired[a] # 0 => a \in pairs /\ active[a] # NoAlert

AckIn(s) == IF s = NoAlert THEN Nobody ELSE s.ack

(* The acknowledgements kept are the ones of the list that will be in place *)
(* when the pass is over, but for those that came after it had looked.      *)
AcksKept ==
    \A a \in Alerts \ late :
        acks[a] = IF InFlight THEN AckIn(after[a]) ELSE AckIn(active[a])

AlertInv == AlertTypeOK /\ NothingWaits /\ SendsOnce /\ FiresOnce /\ AcksKept

-----------------------------------------------------------------------------
(* The operators.                                                           *)

(* An alert that is in the map.                                             *)
Entry == [lasted : Ages, ack : People \cup {Nobody}]

LEMMA AgesFit == Cap \in Nat /\ 0 \in Ages /\ Cap \in Ages
BY AlertAssumption DEF Cap, Ages

LEMMA AgedFits ==
    ASSUME NEW n \in Ages
    PROVE  Aged(n) \in Ages
BY AgesFit DEF Aged, Ages

LEMMA ShownIsEntry ==
    /\ \A s \in Shown : s # NoAlert => s \in Entry
    /\ \A s \in Entry : s \in Shown /\ s # NoAlert
    /\ NoAlert \in Shown
BY AlertAssumption DEF Shown, Entry

(* A minute makes the alerts older and nothing else.                        *)
LEMMA AllAgedFits ==
    ASSUME NEW f \in [Alerts -> Shown]
    PROVE  /\ AllAged(f) \in [Alerts -> Shown]
           /\ \A a \in Alerts : /\ AllAged(f)[a] = NoAlert <=> f[a] = NoAlert
                                /\ AckIn(AllAged(f)[a]) = AckIn(f[a])
<1>1. ASSUME NEW a \in Alerts
      PROVE  /\ AllAged(f)[a] \in Shown
             /\ AllAged(f)[a] = NoAlert <=> f[a] = NoAlert
             /\ AckIn(AllAged(f)[a]) = AckIn(f[a])
    <2>1. AllAged(f)[a] = IF f[a] = NoAlert THEN NoAlert
                          ELSE [f[a] EXCEPT !.lasted = Aged(f[a].lasted)]
        BY DEF AllAged
    <2>2. CASE f[a] = NoAlert
        BY <2>1, <2>2, ShownIsEntry
    <2>3. CASE f[a] # NoAlert
        <3>1. f[a] \in Entry
            BY <2>3, ShownIsEntry
        <3>2. Aged(f[a].lasted) \in Ages
            BY <3>1, AgedFits DEF Entry
        <3>3. AllAged(f)[a] \in Entry /\ AllAged(f)[a].ack = f[a].ack
            BY <2>1, <2>3, <3>1, <3>2 DEF Entry
        <3> QED
            BY <2>3, <3>3, ShownIsEntry DEF AckIn
    <2> QED
        BY <2>2, <2>3
<1>2. AllAged(f) = [a \in Alerts |-> AllAged(f)[a]]
    BY DEF AllAged
<1> QED
    BY <1>1, <1>2

LEMMA RememberedFits ==
    ASSUME AlertTypeOK, NEW a \in Alerts
    PROVE  Remembered(a) \in Ages \cup {Unseen}
BY AgesFit DEF Remembered, AlertTypeOK

(* An alert that is called for has an age, also when it is new.             *)
LEMMA FirstLastedFits ==
    ASSUME AlertTypeOK, NEW a \in Alerts, CalledFor(a)
    PROVE  FirstLasted(a) \in Ages
<1>1. sort[a] \in Sorts
    BY DEF AlertTypeOK
<1>2. view.house[a].age \in Ages
    BY DEF AlertTypeOK, Views
<1>3. CASE sort[a] = "level"
    <2>1. On(a) /\ InUse(a)
        BY <1>3 DEF CalledFor
    <2>2. Remembered(a) = IF memory[a] = Unseen THEN 0 ELSE memory[a]
        BY <1>3, <2>1 DEF Remembered
    <2>3. Remembered(a) \in Ages
        BY <2>2, AgesFit DEF AlertTypeOK
    <2> QED
        BY <1>3, <2>3 DEF FirstLasted
<1>4. CASE sort[a] = "plugin"
    BY <1>4, AgesFit DEF FirstLasted
<1>5. CASE sort[a] \notin {"level", "plugin"}
    BY <1>2, <1>5 DEF FirstLasted
<1> QED
    BY <1>3, <1>4, <1>5

(* The new list is a list of alerts.                                        *)
LEMMA WorkedOutFits ==
    ASSUME AlertTypeOK
    PROVE  WorkedOut \in [Alerts -> Shown]
<1>1. ASSUME NEW a \in Alerts
      PROVE  WorkedOut[a] \in Shown
    <2> DEFINE lasted == IF active[a] # NoAlert THEN active[a].lasted ELSE FirstLasted(a)
    <2>1. WorkedOut[a] = IF ~ CalledFor(a) \/ a \in view.ignored THEN NoAlert
                         ELSE [lasted |-> lasted, ack |-> Nobody]
        BY DEF WorkedOut
    <2>2. CASE ~ CalledFor(a) \/ a \in view.ignored
        BY <2>1, <2>2, ShownIsEntry
    <2>3. CASE ~ (~ CalledFor(a) \/ a \in view.ignored)
        <3>1. lasted \in Ages
            <4>1. active[a] # NoAlert => active[a] \in Entry
                BY ShownIsEntry DEF AlertTypeOK
            <4>2. active[a] # NoAlert => active[a].lasted \in Ages
                BY <4>1 DEF Entry
            <4>3. FirstLasted(a) \in Ages
                BY <2>3, FirstLastedFits
            <4> QED
                BY <4>2, <4>3
        <3> HIDE DEF lasted
        <3>2. [lasted |-> lasted, ack |-> Nobody] \in Entry
            BY <3>1 DEF Entry
        <3>3. WorkedOut[a] = [lasted |-> lasted, ack |-> Nobody]
            BY <2>1, <2>3
        <3> QED
            BY <3>2, <3>3, ShownIsEntry
    <2> QED
        BY <2>2, <2>3
<1>2. WorkedOut = [a \in Alerts |-> WorkedOut[a]]
    BY DEF WorkedOut
<1> QED
    BY <1>1, <1>2

(* Each alert of a list gets the acknowledgement that is kept.              *)
LEMMA CarriedFits ==
    ASSUME AlertTypeOK, NEW f \in [Alerts -> Shown]
    PROVE  /\ Carried(f) \in [Alerts -> Shown]
           /\ AcksOf(f) \in [Alerts -> People \cup {Nobody}]
           /\ \A a \in Alerts : /\ Carried(f)[a] = NoAlert <=> f[a] = NoAlert
                                /\ AcksOf(f)[a] = AckIn(Carried(f)[a])
<1>1. ASSUME NEW a \in Alerts
      PROVE  /\ Carried(f)[a] \in Shown
             /\ Carried(f)[a] = NoAlert <=> f[a] = NoAlert
             /\ AcksOf(f)[a] = AckIn(Carried(f)[a])
             /\ AcksOf(f)[a] \in People \cup {Nobody}
    <2>1. /\ Carried(f)[a] = IF f[a] = NoAlert THEN NoAlert
                             ELSE [f[a] EXCEPT !.ack = acks[a]]
          /\ AcksOf(f)[a] = IF f[a] = NoAlert THEN Nobody ELSE acks[a]
        BY DEF Carried, AcksOf
    <2>2. acks[a] \in People \cup {Nobody}
        BY DEF AlertTypeOK
    <2>3. CASE f[a] = NoAlert
        BY <2>1, <2>3, ShownIsEntry DEF AckIn
    <2>4. CASE f[a] # NoAlert
        <3>1. f[a] \in Entry
            BY <2>4, ShownIsEntry
        <3>2. Carried(f)[a] \in Entry /\ Carried(f)[a].ack = acks[a]
            BY <2>1, <2>2, <2>4, <3>1 DEF Entry
        <3> QED
            BY <2>1, <2>2, <2>4, <3>2, ShownIsEntry DEF AckIn
    <2> QED
        BY <2>3, <2>4
<1>2. Carried(f) = [a \in Alerts |-> Carried(f)[a]]
    BY DEF Carried
<1>3. AcksOf(f) = [a \in Alerts |-> AcksOf(f)[a]]
    BY DEF AcksOf
<1> QED
    BY <1>1, <1>2, <1>3

(* SetToSeq lists a finite set within its cardinality.                      *)
LEMMA SetToSeqFits ==
    ASSUME NEW T, NEW S \in SUBSET T, IsFiniteSet(S)
    PROVE  SetToSeq(S) \in Seq(T) /\ Len(SetToSeq(S)) = Cardinality(S)
<1>1. /\ Cardinality(S) \in Nat
      /\ \E g \in Bijection(1..Cardinality(S), S) : TRUE
    BY FS_CardinalityType DEF ExistsBijection
<1>2. PICK g \in [1..Cardinality(S) -> S] : IsInjective(g)
    BY <1>1 DEF Bijection, Injection
<1>3. SetToSeq(S) \in [1..Cardinality(S) -> S]
    BY <1>2 DEF SetToSeq
<1>4. SetToSeq(S) \in [1..Cardinality(S) -> T]
    BY <1>3
<1> QED
    BY <1>1, <1>4

-----------------------------------------------------------------------------
(* The types.                                                               *)

LEMMA AlertTypeInit == AlertInit => AlertTypeOK
<1> SUFFICES ASSUME AlertInit PROVE AlertTypeOK
    OBVIOUS
<1> USE AgesFit, ShownIsEntry
<1>1. sort \in [Alerts -> Sorts]
    BY AlertAssumption DEF AlertInit
<1>2. house \in [Alerts -> [level : Levels, age : Ages]]
    BY DEF AlertInit, Levels
<1>3. mail \in Seq([alert : Alerts, on : BOOLEAN]) /\ Len(mail) <= MailRoom
    <2>1. mail = <<>>
        BY DEF AlertInit
    <2>2. <<>> \in Seq([alert : Alerts, on : BOOLEAN]) /\ Len(<<>>) = 0
        OBVIOUS
    <2> QED
        BY <2>1, <2>2, AlertAssumption
<1>4. view \in Views
    <2>1. [a \in Alerts |-> [level |-> "clear", age |-> 0]]
              \in [Alerts -> [level : Levels, age : Ages]]
        BY DEF Levels
    <2> QED
        BY <2>1 DEF AlertInit, NoView, Views
<1>5. /\ active \in [Alerts -> Shown] /\ before \in [Alerts -> Shown]
      /\ after \in [Alerts -> Shown]
      /\ announced \in [Alerts -> People \cup {Nobody, NoAlert}]
    BY DEF AlertInit, Empty
<1>6. /\ acks \in [Alerts -> People \cup {Nobody}]
      /\ memory \in [Alerts -> Ages \cup {Unseen}]
    BY DEF AlertInit
<1>7. sent \in [Alerts -> Nat] /\ fired \in [Alerts -> Nat]
    BY DEF AlertInit
<1>8. /\ ignored \subseteq Alerts /\ off \subseteq Alerts
      /\ posting \subseteq [alert : Alerts, ack : People \cup {Nobody}]
      /\ toSend \subseteq Having(after) /\ pairs \subseteq Alerts
      /\ toSend # {} => pass = "sending"
      /\ pass \in {"waiting", "reading", "working", "sending", "replacing"}
    BY DEF AlertInit
<1> QED
    BY <1>1, <1>2, <1>3, <1>4, <1>5, <1>6, <1>7, <1>8 DEF AlertTypeOK

(* A report is in the bus, with the oldest forgotten when it was full.      *)
LEMMA MailFits ==
    ASSUME NEW q \in Seq([alert : Alerts, on : BOOLEAN]), Len(q) <= MailRoom,
           NEW m \in [alert : Alerts, on : BOOLEAN]
    PROVE  LET all == Append(q, m)
               new == IF Len(all) > MailRoom THEN Tail(all) ELSE all
           IN  new \in Seq([alert : Alerts, on : BOOLEAN]) /\ Len(new) <= MailRoom
<1> DEFINE all == Append(q, m)
<1>1. /\ all \in Seq([alert : Alerts, on : BOOLEAN]) /\ Len(all) = Len(q) + 1
      /\ Len(q) \in Nat /\ all # <<>>
    OBVIOUS
<1>2. /\ Tail(all) \in Seq([alert : Alerts, on : BOOLEAN])
      /\ Len(Tail(all)) = Len(all) - 1
    BY <1>1
<1> HIDE DEF all
<1>3. (IF Len(all) > MailRoom THEN Tail(all) ELSE all) \in Seq([alert : Alerts, on : BOOLEAN])
    BY <1>1, <1>2
<1>4. Len(IF Len(all) > MailRoom THEN Tail(all) ELSE all) <= MailRoom
    BY <1>1, <1>2, AlertAssumption
<1> QED
    BY <1>3, <1>4 DEF all

(* Nothing to do with a pass, the list or the acknowledgements.             *)
otherVars == <<passVars, ackVars, schedVars, active, announced, sent>>

LEMMA WorldTypes ==
    ASSUME AlertTypeOK, NEW a \in Alerts,
           (\E l \in Levels : DeviceChanges(a, l)) \/ PluginReports(a)
           \/ Ignore(a) \/ TurnOff(a)
    PROVE  AlertTypeOK' /\ UNCHANGED otherVars
<1>1. ASSUME NEW l \in Levels, DeviceChanges(a, l)
      PROVE  AlertTypeOK' /\ UNCHANGED otherVars
    <2>1. house' \in [Alerts -> [level : Levels, age : Ages]]
        <3>1. [level |-> l, age |-> 0] \in [level : Levels, age : Ages]
            BY AgesFit
        <3> QED
            BY <1>1, <3>1 DEF DeviceChanges, AlertTypeOK
    <2> QED
        BY <1>1, <2>1 DEF DeviceChanges, AlertTypeOK, Having, Views, otherVars,
                          mailVars, passVars, ackVars, schedVars
<1>2. CASE PluginReports(a)
    <2> DEFINE now == IF house[a].level = "on" THEN "clear" ELSE "on"
               m == [alert |-> a, on |-> now = "on"]
    <2>1. now \in Levels
        BY DEF Levels
    <2>2. m \in [alert : Alerts, on : BOOLEAN]
        OBVIOUS
    <2>3. house' = [house EXCEPT ![a] = [level |-> now, age |-> 0]]
        BY <1>2 DEF PluginReports
    <2>4. mail' = LET all == Append(mail, m)
                  IN  IF Len(all) > MailRoom THEN Tail(all) ELSE all
        BY <1>2 DEF PluginReports
    <2> HIDE DEF now, m
    <2>5. house' \in [Alerts -> [level : Levels, age : Ages]]
        <3>1. [level |-> now, age |-> 0] \in [level : Levels, age : Ages]
            BY <2>1, AgesFit
        <3> QED
            BY <2>3, <3>1 DEF AlertTypeOK
    <2>6. mail' \in Seq([alert : Alerts, on : BOOLEAN]) /\ Len(mail') <= MailRoom
        BY <2>2, <2>4, MailFits DEF AlertTypeOK
    <2> QED
        BY <1>2, <2>5, <2>6 DEF PluginReports, AlertTypeOK, Having, Views, otherVars,
                          passVars, ackVars, schedVars
<1>3. CASE Ignore(a)
    BY <1>3 DEF Ignore, AlertTypeOK, Having, Views, otherVars, mailVars, passVars,
                ackVars, schedVars
<1>4. CASE TurnOff(a)
    BY <1>4 DEF TurnOff, AlertTypeOK, Having, Views, otherVars, mailVars, passVars,
                ackVars, schedVars
<1> QED
    BY <1>1, <1>2, <1>3, <1>4

LEMMA MinuteTypes ==
    ASSUME AlertTypeOK, MinutePasses
    PROVE  AlertTypeOK'
<1>1. house' \in [Alerts -> [level : Levels, age : Ages]]
    <2>1. ASSUME NEW a \in Alerts
          PROVE  [house[a] EXCEPT !.age = Aged(house[a].age)] \in [level : Levels, age : Ages]
        <3>1. house[a] \in [level : Levels, age : Ages]
            BY DEF AlertTypeOK
        <3>2. Aged(house[a].age) \in Ages
            BY <3>1, AgedFits
        <3> QED
            BY <3>1, <3>2
    <2> QED
        BY <2>1 DEF MinutePasses
<1>2. memory' \in [Alerts -> Ages \cup {Unseen}]
    <2>1. ASSUME NEW a \in Alerts
          PROVE  (IF memory[a] = Unseen THEN Unseen ELSE Aged(memory[a]))
                     \in Ages \cup {Unseen}
        BY AgedFits DEF AlertTypeOK
    <2> QED
        BY <2>1 DEF MinutePasses
<1>3. /\ active' \in [Alerts -> Shown] /\ before' \in [Alerts -> Shown]
      /\ after' \in [Alerts -> Shown]
      /\ \A a \in Alerts : after'[a] = NoAlert <=> after[a] = NoAlert
    BY AllAgedFits DEF MinutePasses, AlertTypeOK, AllAged
<1>4. Having(after)' = Having(after)
    BY <1>3 DEF Having
<1> QED
    BY <1>1, <1>2, <1>3, <1>4
    DEF MinutePasses, AlertTypeOK, Views, mailVars, ackVars, schedVars

LEMMA PassReadsTypes ==
    ASSUME AlertTypeOK, PassReads
    PROVE  AlertTypeOK'
<1>1. PICK unread \in SUBSET {"rules", "ignores", "topics"} :
        view' = [house |-> house,
                 rules |-> "rules" \notin unread,
                 off |-> {a \in off : sort[a] = "plugin" => "topics" \notin unread},
                 ignored |-> IF "ignores" \in unread THEN {} ELSE ignored]
    BY DEF PassReads
<1>2. /\ {a \in off : sort[a] = "plugin" => "topics" \notin unread} \in SUBSET Alerts
      /\ (IF "ignores" \in unread THEN {} ELSE ignored) \in SUBSET Alerts
      /\ ("rules" \notin unread) \in BOOLEAN
    BY DEF AlertTypeOK
<1>3. view' \in Views
    BY <1>1, <1>2 DEF AlertTypeOK, Views
<1> QED
    BY <1>3 DEF PassReads, AlertTypeOK, Having, worldVars, mailVars, ackVars, schedVars

(* What working the new list out leaves, in the terms of the list.          *)
LEMMA PassWorksEffect ==
    ASSUME AlertTypeOK, PassWorks
    PROVE  /\ after' \in [Alerts -> Shown] /\ acks' \in [Alerts -> People \cup {Nobody}]
           /\ \A a \in Alerts : acks'[a] = AckIn(after'[a])
           /\ \A a \in Alerts : a \in toSend' => after'[a] # NoAlert /\ active[a] = NoAlert
           /\ toSend' \subseteq Alerts
<1>1. PICK f \in [Alerts -> Shown] : f = WorkedOut
    BY WorkedOutFits
<1>2. after' = Carried(f) /\ acks' = AcksOf(f) /\ toSend' = ToBeSent(active, f)
    BY <1>1 DEF PassWorks, Carried, AcksOf, ToBeSent, Having
<1>3. /\ after' \in [Alerts -> Shown] /\ acks' \in [Alerts -> People \cup {Nobody}]
      /\ \A a \in Alerts : /\ after'[a] = NoAlert <=> f[a] = NoAlert
                           /\ acks'[a] = AckIn(after'[a])
    BY <1>2, CarriedFits
<1>4. toSend' \subseteq Having(f) \ Having(active)
    BY <1>2 DEF ToBeSent
<1> QED
    BY <1>3, <1>4 DEF Having

LEMMA PassWorksTypes ==
    ASSUME AlertTypeOK, PassWorks
    PROVE  AlertTypeOK'
<1>1. /\ after' \in [Alerts -> Shown] /\ acks' \in [Alerts -> People \cup {Nobody}]
      /\ toSend' \subseteq Alerts /\ \A a \in Alerts : a \in toSend' => after'[a] # NoAlert
    BY PassWorksEffect
<1>2. toSend' \subseteq Having(after)'
    BY <1>1 DEF Having
<1>3. memory' \in [Alerts -> Ages \cup {Unseen}]
    BY RememberedFits DEF PassWorks
<1>4. view' \in Views
    <2>1. [a \in Alerts |-> [level |-> "clear", age |-> 0]]
              \in [Alerts -> [level : Levels, age : Ages]]
        BY AgesFit DEF Levels
    <2> QED
        BY <2>1 DEF PassWorks, NoView, Views
<1> QED
    BY <1>1, <1>2, <1>3, <1>4
    DEF PassWorks, AlertTypeOK, worldVars, mailVars, schedVars

LEMMA PassEndTypes ==
    ASSUME AlertTypeOK,
           (\E a \in Alerts : PassSends(a)) \/ PassPublishes \/ PassReplaces
    PROVE  AlertTypeOK'
<1>1. ASSUME NEW a \in Alerts, PassSends(a)
      PROVE  AlertTypeOK'
    <2>1. sent' \in [Alerts -> Nat]
        BY <1>1 DEF PassSends, AlertTypeOK
    <2>2. toSend' \subseteq Having(after)' /\ pass = "sending" /\ pass' = pass
        BY <1>1 DEF PassSends, AlertTypeOK, Having
    <2> QED
        BY <1>1, <2>1, <2>2
        DEF PassSends, AlertTypeOK, worldVars, mailVars, ackVars, schedVars, Views
<1>2. CASE PassPublishes
    <2>1. announced' \in [Alerts -> People \cup {Nobody, NoAlert}]
        <3>1. ASSUME NEW a \in Alerts
              PROVE  Published(a) \in People \cup {Nobody, NoAlert}
            <4>1. announced[a] \in People \cup {Nobody, NoAlert}
                BY DEF AlertTypeOK
            <4>2. after[a] # NoAlert => after[a].ack \in People \cup {Nobody}
                BY ShownIsEntry DEF AlertTypeOK, Entry
            <4> QED
                BY <4>1, <4>2 DEF Published
        <3> QED
            BY <1>2, <3>1 DEF PassPublishes
    <2>2. toSend' = {} /\ after' = after
        BY <1>2 DEF PassPublishes
    <2> QED
        BY <1>2, <2>1, <2>2
        DEF PassPublishes, AlertTypeOK, worldVars, mailVars, ackVars, schedVars, Views
<1>3. CASE PassReplaces
    <2>1. toSend = {} /\ toSend' = {}
        BY <1>3 DEF PassReplaces, AlertTypeOK
    <2>2. active' \in [Alerts -> Shown] /\ before' \in [Alerts -> Shown] /\ after' \in [Alerts -> Shown]
        BY <1>3, ShownIsEntry DEF PassReplaces, AlertTypeOK, Empty
    <2>3. sent' \in [Alerts -> Nat] /\ fired' \in [Alerts -> Nat]
        BY <1>3 DEF PassReplaces, AlertTypeOK
    <2> QED
        BY <1>3, <2>1, <2>2, <2>3
        DEF PassReplaces, AlertTypeOK, worldVars, mailVars, ackVars, Views
<1> QED
    BY <1>1, <1>2, <1>3

(* Acknowledging changes who acknowledged, and no alert comes or goes.      *)
LEMMA AcknowledgeEffect ==
    ASSUME AlertTypeOK, NEW a \in Alerts, NEW p \in People, Acknowledge(a, p)
    PROVE  /\ active' \in [Alerts -> Shown] /\ acks' \in [Alerts -> People \cup {Nobody}]
           /\ active[a] # NoAlert
           /\ \A b \in Alerts : active'[b] = NoAlert <=> active[b] = NoAlert
           /\ \A b \in Alerts \ {a} : active'[b] = active[b] /\ acks'[b] = acks[b]
           /\ \/ UNCHANGED <<active, acks, late>>
              \/ /\ active'[a].ack = p /\ acks'[a] = p
                 /\ late' = IF InFlight THEN late \cup {a} ELSE late
           /\ active'[a].ack \in People \cup {Nobody}
<1>1. active[a] # NoAlert /\ active[a] \in Entry
    BY ShownIsEntry DEF Acknowledge, Listed, AlertTypeOK
<1>2. CASE active[a].ack = Nobody
    <2> DEFINE new == [active[a] EXCEPT !.ack = p]
    <2>1. /\ active' = [active EXCEPT ![a].ack = p]
          /\ acks' = [acks EXCEPT ![a] = p]
          /\ late' = IF InFlight THEN late \cup {a} ELSE late
        BY <1>2 DEF Acknowledge, InFlight
    <2>2. new \in Entry /\ new.ack = p
        BY <1>1 DEF Entry
    <2>3. active' = [active EXCEPT ![a] = new]
        BY <2>1 DEF AlertTypeOK
    <2> HIDE DEF new
    <2>4. new \in Shown /\ new # NoAlert
        BY <2>2, ShownIsEntry
    <2>5. \A b \in Alerts : active'[b] = IF b = a THEN new ELSE active[b]
        BY <2>3 DEF AlertTypeOK
    <2>6. \A b \in Alerts : acks'[b] = IF b = a THEN p ELSE acks[b]
        BY <2>1 DEF AlertTypeOK
    <2>7. active' \in [Alerts -> Shown] /\ acks' \in [Alerts -> People \cup {Nobody}]
        BY <2>1, <2>3, <2>4 DEF AlertTypeOK
    <2> QED
        BY <1>1, <2>1, <2>2, <2>4, <2>5, <2>6, <2>7
<1>3. CASE active[a].ack # Nobody
    <2>1. UNCHANGED <<active, acks, late>>
        BY <1>3 DEF Acknowledge
    <2>2. active[a].ack \in People \cup {Nobody}
        BY <1>1 DEF Entry
    <2> QED
        BY <1>1, <2>1, <2>2 DEF AlertTypeOK
<1> QED
    BY <1>2, <1>3

LEMMA AckTypes ==
    ASSUME AlertTypeOK,
           \/ \E a \in Alerts, p \in People : Acknowledge(a, p)
           \/ \E m \in posting : AnnounceAck(m)
    PROVE  AlertTypeOK'
<1>1. ASSUME NEW a \in Alerts, NEW p \in People, Acknowledge(a, p)
      PROVE  AlertTypeOK'
    <2>1. /\ active' \in [Alerts -> Shown] /\ acks' \in [Alerts -> People \cup {Nobody}]
          /\ active'[a].ack \in People \cup {Nobody}
        BY <1>1, AcknowledgeEffect
    <2>2. posting' \subseteq [alert : Alerts, ack : People \cup {Nobody}]
        BY <1>1, <2>1 DEF Acknowledge, AlertTypeOK
    <2> QED
        BY <1>1, <2>1, <2>2
        DEF Acknowledge, AlertTypeOK, Having, Views, worldVars, mailVars, passVars, schedVars
<1>2. ASSUME NEW m \in posting, AnnounceAck(m)
      PROVE  AlertTypeOK'
    <2>1. m.alert \in Alerts /\ m.ack \in People \cup {Nobody}
        BY DEF AlertTypeOK
    <2>2. announced' \in [Alerts -> People \cup {Nobody, NoAlert}]
        BY <1>2, <2>1 DEF AnnounceAck, AlertTypeOK
    <2>3. posting' \subseteq [alert : Alerts, ack : People \cup {Nobody}]
        BY <1>2 DEF AnnounceAck, AlertTypeOK
    <2> QED
        BY <1>2, <2>2, <2>3
        DEF AnnounceAck, AlertTypeOK, Having, Views, worldVars, mailVars, passVars, schedVars
<1> QED
    BY <1>1, <1>2

LEMMA PassStartTypes ==
    ASSUME AlertTypeOK, PassBegins \/ PassTakesMail \/ PassGivesUp
    PROVE  AlertTypeOK'
<1>1. toSend = {} /\ toSend' = {}
    BY DEF PassBegins, PassTakesMail, PassGivesUp, AlertTypeOK
<1>2. CASE PassBegins
    BY <1>1, <1>2 DEF PassBegins, AlertTypeOK, Views, worldVars, mailVars, ackVars, schedVars
<1>3. CASE PassTakesMail
    <2>1. mail' \in Seq([alert : Alerts, on : BOOLEAN]) /\ Len(mail') <= MailRoom
        <3>1. <<>> \in Seq([alert : Alerts, on : BOOLEAN]) /\ Len(<<>>) = 0
            OBVIOUS
        <3> QED
            BY <1>3, <3>1, AlertAssumption DEF PassTakesMail
    <2> QED
        BY <1>1, <1>3, <2>1
        DEF PassTakesMail, AlertTypeOK, Views, worldVars, ackVars, schedVars
<1>4. CASE PassGivesUp
    BY <1>1, <1>4 DEF PassGivesUp, AlertTypeOK, Views, worldVars, mailVars, ackVars, schedVars
<1> QED
    BY <1>2, <1>3, <1>4

(* The scheduler's tick, alert by alert.                                    *)
LEMMA FireEffect ==
    ASSUME AlertTypeOK, FireAlertsActiveFor, NEW a \in Alerts
    PROVE  \/ /\ active[a] # NoAlert /\ a \notin pairs /\ a \in pairs'
              /\ fired'[a] = fired[a] + 1
           \/ /\ fired'[a] = fired[a]
              /\ active[a] # NoAlert /\ a \in pairs => a \in pairs'
BY DEF FireAlertsActiveFor, LongEnough, PairsKept, Listed

LEMMA FireTypes ==
    ASSUME AlertTypeOK, FireAlertsActiveFor
    PROVE  AlertTypeOK'
<1>1. fired' \in [Alerts -> Nat]
    BY DEF FireAlertsActiveFor, AlertTypeOK
<1>2. pairs' \subseteq Alerts
    BY DEF FireAlertsActiveFor, PairsKept, LongEnough, Listed
<1> QED
    BY <1>1, <1>2 DEF FireAlertsActiveFor, AlertTypeOK, Having, Views, worldVars,
                      mailVars, passVars, ackVars

LEMMA RestartTypes ==
    ASSUME AlertTypeOK, AlertRestart
    PROVE  AlertTypeOK'
<1>1. mail' \in Seq([alert : Alerts, on : BOOLEAN]) /\ Len(mail') <= MailRoom
    <2>1. PICK heard \in SUBSET Alerts :
            /\ Cardinality(heard) <= MailRoom
            /\ mail' = SetToSeq({[alert |-> a, on |-> TRUE] : a \in heard})
        BY DEF AlertRestart
    <2> DEFINE said == {[alert |-> a, on |-> TRUE] : a \in heard}
               say  == [a \in heard |-> [alert |-> a, on |-> TRUE]]
    <2>2. IsFiniteSet(heard)
        BY FS_Subset, AlertAssumption
    <2>3. say \in Surjection(heard, said)
        BY DEF Surjection
    <2>4. IsFiniteSet(said) /\ Cardinality(said) <= Cardinality(heard)
        <3> HIDE DEF said, say
        <3> QED
            BY <2>2, <2>3, FS_Surjection
    <2>5. Cardinality(said) \in Nat /\ Cardinality(heard) \in Nat
        BY <2>2, <2>4, FS_CardinalityType
    <2>6. said \subseteq [alert : Alerts, on : BOOLEAN]
        <3>1. \A a \in heard : [alert |-> a, on |-> TRUE] \in [alert : Alerts, on : BOOLEAN]
            OBVIOUS
        <3> QED
            BY <3>1
    <2> HIDE DEF said
    <2>7. /\ SetToSeq(said) \in Seq([alert : Alerts, on : BOOLEAN])
          /\ Len(SetToSeq(said)) = Cardinality(said)
        BY <2>4, <2>6, SetToSeqFits
    <2>8. mail' = SetToSeq(said)
        BY <2>1 DEF said
    <2> QED
        BY <2>1, <2>4, <2>5, <2>7, <2>8, AlertAssumption
<1>2. /\ active' \in [Alerts -> Shown] /\ before' \in [Alerts -> Shown]
      /\ after' \in [Alerts -> Shown]
      /\ announced' \in [Alerts -> People \cup {Nobody, NoAlert}]
    BY ShownIsEntry DEF AlertRestart, Empty
<1>3. /\ acks' \in [Alerts -> People \cup {Nobody}]
      /\ memory' \in [Alerts -> Ages \cup {Unseen}]
      /\ sent' \in [Alerts -> Nat] /\ fired' \in [Alerts -> Nat]
    BY DEF AlertRestart
<1>4. view' \in Views
    <2>1. [a \in Alerts |-> [level |-> "clear", age |-> 0]]
              \in [Alerts -> [level : Levels, age : Ages]]
        BY AgesFit DEF Levels
    <2> QED
        BY <2>1 DEF AlertRestart, NoView, Views
<1>5. /\ posting' = {} /\ toSend' = {} /\ pairs' = {} /\ pass' = "waiting"
      /\ UNCHANGED worldVars
    BY DEF AlertRestart
<1> QED
    BY <1>1, <1>2, <1>3, <1>4, <1>5 DEF AlertTypeOK, worldVars

-----------------------------------------------------------------------------
(* The books: what has been sent, fired and acknowledged.                   *)

Books == NothingWaits /\ SendsOnce /\ FiresOnce /\ AcksKept

(* Most steps do not touch them.                                            *)
LEMMA BooksAlone ==
    ASSUME Books, UNCHANGED <<active, after, toSend, sent, fired, pairs, acks, late>>,
           InFlight' <=> InFlight
    PROVE  Books'
BY DEF Books, NothingWaits, SendsOnce, FiresOnce, AcksKept, AckIn, InFlight

LEMMA BooksMinute ==
    ASSUME AlertTypeOK, Books, MinutePasses
    PROVE  Books'
<1>1. \A a \in Alerts : /\ active'[a] = NoAlert <=> active[a] = NoAlert
                        /\ after'[a] = NoAlert <=> after[a] = NoAlert
                        /\ AckIn(active'[a]) = AckIn(active[a])
                        /\ AckIn(after'[a]) = AckIn(after[a])
    BY AllAgedFits DEF MinutePasses, AlertTypeOK, AllAged
<1>2. UNCHANGED <<pass, toSend, sent, fired, pairs, acks, late>>
    BY DEF MinutePasses, ackVars, schedVars
<1>3. NothingWaits' /\ SendsOnce' /\ FiresOnce'
    BY <1>1, <1>2 DEF Books, NothingWaits, SendsOnce, FiresOnce, InFlight
<1>4. AcksKept'
    <2> SUFFICES ASSUME NEW a \in Alerts \ late
                 PROVE  acks'[a] = IF InFlight THEN AckIn(after'[a]) ELSE AckIn(active'[a])
        BY <1>2 DEF AcksKept, InFlight, AckIn
    <2> QED
        BY <1>1, <1>2 DEF Books, AcksKept
<1> QED
    BY <1>3, <1>4 DEF Books

LEMMA BooksWorked ==
    ASSUME AlertTypeOK, Books, PassWorks
    PROVE  Books'
<1>1. /\ \A a \in Alerts : acks'[a] = AckIn(after'[a])
      /\ \A a \in Alerts : a \in toSend' => after'[a] # NoAlert /\ active[a] = NoAlert
    BY PassWorksEffect
<1>2. /\ ~ InFlight /\ pass' = "sending" /\ UNCHANGED <<active, sent, fired, pairs>>
      /\ late' = {}
    BY DEF PassWorks, InFlight, schedVars
<1>3. InFlight'
    BY <1>2 DEF InFlight
<1>4. NothingWaits'
    BY <1>3 DEF NothingWaits
<1>5. SendsOnce'
    BY <1>1, <1>2 DEF Books, NothingWaits, SendsOnce, AlertTypeOK
<1>6. FiresOnce'
    BY <1>2 DEF Books, FiresOnce
<1>7. AcksKept'
    BY <1>1, <1>3 DEF AcksKept, AckIn
<1> QED
    BY <1>4, <1>5, <1>6, <1>7 DEF Books

LEMMA BooksSent ==
    ASSUME AlertTypeOK, Books, NEW a \in Alerts, PassSends(a)
    PROVE  Books'
<1>1. /\ a \in toSend /\ toSend' = toSend \ {a}
      /\ \A b \in Alerts : sent'[b] = IF b = a THEN sent[a] + 1 ELSE sent[b]
      /\ UNCHANGED <<pass, active, after, fired, pairs, acks, late>>
    BY DEF PassSends, AlertTypeOK, ackVars, schedVars
<1>2. sent[a] = 0 /\ after[a] # NoAlert
    BY <1>1 DEF Books, SendsOnce, AlertTypeOK, Having
<1>3. SendsOnce'
    BY <1>1, <1>2 DEF Books, SendsOnce
<1> QED
    BY <1>1, <1>3 DEF Books, NothingWaits, FiresOnce, AcksKept, AckIn, InFlight

LEMMA BooksReplaced ==
    ASSUME AlertTypeOK, Books, PassReplaces
    PROVE  Books'
<1>1. /\ InFlight /\ pass' = "waiting" /\ active' = after
      /\ \A a \in Alerts : after'[a] = NoAlert
      /\ \A a \in Alerts : sent'[a] = IF after[a] = NoAlert THEN 0 ELSE sent[a]
      /\ \A a \in Alerts : fired'[a] =
            IF after[a] # NoAlert /\ active[a] # NoAlert THEN fired[a] ELSE 0
      /\ UNCHANGED <<toSend, pairs, acks, late>>
    BY DEF PassReplaces, InFlight, Empty, Having, Listed, ackVars
<1>2. toSend' = {}
    BY <1>1 DEF PassReplaces, AlertTypeOK
<1>3. ~ InFlight'
    BY <1>1 DEF InFlight
<1>4. NothingWaits'
    BY <1>1 DEF NothingWaits
<1>5. SendsOnce'
    BY <1>1, <1>2 DEF Books, SendsOnce
<1>6. FiresOnce'
    BY <1>1 DEF Books, FiresOnce
<1>7. AcksKept'
    BY <1>1, <1>3 DEF Books, AcksKept, AckIn
<1> QED
    BY <1>4, <1>5, <1>6, <1>7 DEF Books

LEMMA BooksAcknowledged ==
    ASSUME AlertTypeOK, Books, NEW a \in Alerts, NEW p \in People, Acknowledge(a, p)
    PROVE  Books'
<1>1. UNCHANGED <<pass, after, toSend, sent, fired, pairs>>
    BY DEF Acknowledge, passVars, schedVars
<1>2. /\ active[a] # NoAlert
      /\ \A b \in Alerts : active'[b] = NoAlert <=> active[b] = NoAlert
      /\ \A b \in Alerts \ {a} : active'[b] = active[b] /\ acks'[b] = acks[b]
      /\ \/ UNCHANGED <<active, acks, late>>
         \/ /\ active'[a].ack = p /\ acks'[a] = p
            /\ late' = IF InFlight THEN late \cup {a} ELSE late
    BY AcknowledgeEffect
<1>3. NothingWaits' /\ SendsOnce' /\ FiresOnce'
    BY <1>1, <1>2 DEF Books, NothingWaits, SendsOnce, FiresOnce, InFlight
<1>4. AcksKept'
    <2>1. CASE UNCHANGED <<active, acks, late>>
        BY <1>1, <2>1 DEF Books, AcksKept, AckIn, InFlight
    <2>2. CASE /\ active'[a].ack = p /\ acks'[a] = p
               /\ late' = IF InFlight THEN late \cup {a} ELSE late
        <3> SUFFICES ASSUME NEW b \in Alerts \ late'
                     PROVE  acks'[b] = IF InFlight THEN AckIn(after[b]) ELSE AckIn(active'[b])
            BY <1>1 DEF AcksKept, InFlight, AckIn
        <3>1. CASE b = a
            <4>1. ~ InFlight
                BY <2>2, <3>1
            <4> QED
                BY <1>2, <2>2, <3>1, <4>1 DEF AckIn
        <3>2. CASE b # a
            <4>1. b \notin late
                BY <2>2
            <4> QED
                BY <1>2, <3>2, <4>1 DEF Books, AcksKept
        <3> QED
            BY <3>1, <3>2
    <2> QED
        BY <1>2, <2>1, <2>2
<1> QED
    BY <1>3, <1>4 DEF Books

LEMMA BooksFired ==
    ASSUME AlertTypeOK, Books, FireAlertsActiveFor
    PROVE  Books'
<1>1. UNCHANGED <<pass, active, after, toSend, sent, acks, late>>
    BY DEF FireAlertsActiveFor, passVars, ackVars
<1>2. FiresOnce'
    BY <1>1, FireEffect DEF Books, FiresOnce, AlertTypeOK
<1> QED
    BY <1>1, <1>2 DEF Books, NothingWaits, SendsOnce, AcksKept, AckIn, InFlight

LEMMA BooksBlank ==
    ASSUME \A a \in Alerts : /\ active[a] = NoAlert /\ after[a] = NoAlert
                             /\ sent[a] = 0 /\ fired[a] = 0 /\ acks[a] = Nobody,
           toSend = {}
    PROVE  Books
BY DEF Books, NothingWaits, SendsOnce, FiresOnce, AcksKept, AckIn

-----------------------------------------------------------------------------
LEMMA AlertInitInv == AlertInit => AlertInv
<1> SUFFICES ASSUME AlertInit PROVE AlertInv
    OBVIOUS
<1>1. Books
    BY BooksBlank DEF AlertInit, Empty
<1> QED
    BY <1>1, AlertTypeInit DEF AlertInv, Books

LEMMA AlertStep == AlertInv /\ [AlertNext]_alertVars => AlertInv'
<1> SUFFICES ASSUME AlertInv, [AlertNext]_alertVars
             PROVE  AlertTypeOK' /\ Books'
    BY DEF AlertInv, Books
<1>0. AlertTypeOK /\ Books
    BY DEF AlertInv, Books
<1>1. ASSUME NEW a \in Alerts,
             (\E l \in Levels : DeviceChanges(a, l)) \/ PluginReports(a)
             \/ Ignore(a) \/ TurnOff(a)
      PROVE  AlertTypeOK' /\ Books'
    <2>1. AlertTypeOK' /\ UNCHANGED otherVars
        BY <1>0, <1>1, WorldTypes
    <2> QED
        BY <1>0, <2>1, BooksAlone DEF otherVars, passVars, ackVars, schedVars, InFlight
<1>2. ASSUME NEW a \in Alerts, NEW p \in People, Acknowledge(a, p)
      PROVE  AlertTypeOK' /\ Books'
    BY <1>0, <1>2, AckTypes, BooksAcknowledged
<1>3. CASE MinutePasses
    BY <1>0, <1>3, MinuteTypes, BooksMinute
<1>4. CASE PassBegins \/ PassTakesMail \/ PassGivesUp
    <2>1. /\ UNCHANGED <<active, after, toSend, sent, fired, pairs, acks, late>>
          /\ InFlight' <=> InFlight
        BY <1>4 DEF PassBegins, PassTakesMail, PassGivesUp, ackVars, schedVars, InFlight
    <2> QED
        BY <1>0, <1>4, <2>1, PassStartTypes, BooksAlone
<1>5. CASE PassReads
    <2>1. /\ UNCHANGED <<active, after, toSend, sent, fired, pairs, acks, late>>
          /\ InFlight' <=> InFlight
        BY <1>5 DEF PassReads, ackVars, schedVars, InFlight
    <2> QED
        BY <1>0, <1>5, <2>1, PassReadsTypes, BooksAlone
<1>6. CASE PassWorks
    BY <1>0, <1>6, PassWorksTypes, BooksWorked
<1>7. ASSUME NEW a \in Alerts, PassSends(a)
      PROVE  AlertTypeOK' /\ Books'
    BY <1>0, <1>7, PassEndTypes, BooksSent
<1>8. CASE PassPublishes
    <2>1. /\ UNCHANGED <<active, after, toSend, sent, fired, pairs, acks, late>>
          /\ InFlight' <=> InFlight
        BY <1>8 DEF PassPublishes, ackVars, schedVars, InFlight
    <2> QED
        BY <1>0, <1>8, <2>1, PassEndTypes, BooksAlone
<1>9. CASE PassReplaces
    BY <1>0, <1>9, PassEndTypes, BooksReplaced
<1>10. ASSUME NEW m \in posting, AnnounceAck(m)
       PROVE  AlertTypeOK' /\ Books'
    <2>1. /\ UNCHANGED <<active, after, toSend, sent, fired, pairs, acks, late>>
          /\ InFlight' <=> InFlight
        BY <1>10 DEF AnnounceAck, passVars, schedVars, InFlight
    <2> QED
        BY <1>0, <1>10, <2>1, AckTypes, BooksAlone
<1>11. CASE FireAlertsActiveFor
    BY <1>0, <1>11, FireTypes, BooksFired
<1>12. CASE AlertRestart
    <2>1. /\ \A a \in Alerts : /\ active'[a] = NoAlert /\ after'[a] = NoAlert
                               /\ sent'[a] = 0 /\ fired'[a] = 0 /\ acks'[a] = Nobody
          /\ toSend' = {} /\ pass' = "waiting"
        BY <1>12 DEF AlertRestart, Empty
    <2>2. Books'
        BY <2>1 DEF Books, NothingWaits, SendsOnce, FiresOnce, AcksKept, AckIn
    <2> QED
        BY <1>0, <1>12, <2>2, RestartTypes
<1>13. CASE UNCHANGED alertVars
    <2>1. AlertTypeOK'
        BY <1>0, <1>13 DEF alertVars, worldVars, mailVars, passVars, ackVars, schedVars,
                           AlertTypeOK, Having, Views
    <2>2. /\ UNCHANGED <<active, after, toSend, sent, fired, pairs, acks, late>>
          /\ InFlight' <=> InFlight
        BY <1>13 DEF alertVars, passVars, ackVars, schedVars, InFlight
    <2> QED
        BY <1>0, <2>1, <2>2, BooksAlone
<1> QED
    BY <1>1, <1>2, <1>3, <1>4, <1>5, <1>6, <1>7, <1>8, <1>9, <1>10, <1>11, <1>12, <1>13
    DEF AlertNext, PassMoves

LEMMA AlertInvariant == AlertSpec => []AlertInv
BY AlertInitInv, AlertStep, PTL DEF AlertSpec

(* Every variable keeps its type: ages stop at the longest time anything    *)
(* looks at, the mail keeps to its room over overflows and restarts, and    *)
(* the alerts still to be sent are among those just worked out.             *)
THEOREM AlertTypes == AlertSpec => []AlertTypeOK
<1>1. AlertInv => AlertTypeOK
    BY DEF AlertInv
<1> QED
    BY AlertInvariant, <1>1, PTL

(* run() sends an alert to a channel, and fire_alerts_active_for fires a    *)
(* rule for it, at most once for as long as it lasts, over any passes,      *)
(* ticks, acknowledgements and failed reads.                                *)
THEOREM SentAndFiredOnce == AlertSpec => []OncePerAlert
<1>1. AlertInv => OncePerAlert
    BY DEF AlertInv, OncePerAlert, SendsOnce, FiresOnce
<1> QED
    BY AlertInvariant, <1>1, PTL

(* Between passes acks.retain and the carrying over have left the kept and  *)
(* the shown acknowledgements the same, but for the ones made while the     *)
(* pass was sending.                                                        *)
THEOREM AcksGoTogether == AlertSpec => []AcksAgree
<1>1. AlertInv => AcksAgree
    BY DEF AlertInv, AcksAgree, AcksKept, AckIn, InFlight, Listed
<1> QED
    BY AlertInvariant, <1>1, PTL
=============================================================================
