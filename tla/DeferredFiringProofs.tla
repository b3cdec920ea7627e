------------------------ MODULE DeferredFiringProofs ------------------------
(***************************************************************************)
(* Proofs about a device's record and the rule engine's cache of it, for    *)
(* any values, messages, commands, bus sizes and durations.                 *)
(***************************************************************************)
EXTENDS DeferredFiring, SequenceTheorems, TLAPS

-----------------------------------------------------------------------------
(* What the fields of a message are, by its kind.                           *)
LEMMA MessageFields ==
    ASSUME NEW m \in BusMessage
    PROVE  /\ m.kind \in {"report", "availability", "register", "unregister",
                          "command"}
           /\ m.kind = "report" =>
                 /\ m.full \in BOOLEAN
                 /\ m.attr \in Values \cup {Absent, Null}
                 /\ m.explicit \in {"none", "own", "external"}
                 /\ m.answers \in Cmds \cup {NoCmd}
                 /\ m.answers # NoCmd => m.explicit = "none"
           /\ m.kind = "availability" => m.up \in BOOLEAN
           /\ m.kind = "register" => m.name \in Names /\ m.typed \in BOOLEAN
           /\ m.kind = "command" => m.cmd \in Cmds /\ m = Command(m.cmd)
<1>1. CASE m \in PluginMessage
  BY <1>1 DEF PluginMessage
<1>2. CASE m \in [kind : {"report"}, full : {FALSE}, attr : Values,
                  explicit : {"none"}, answers : Cmds]
  BY <1>2
<1>3. CASE m \in [kind : {"command"}, cmd : Cmds]
  <2>1. m.kind = "command" /\ m.cmd \in Cmds
    BY <1>3
  <2>2. m = Command(m.cmd)
    BY <1>3 DEF Command
  <2>3. QED
    BY <2>1, <2>2
<1>4. QED
  BY <1>1, <1>2, <1>3 DEF BusMessage

(* A queue with room takes an event at its end; a full one drops its head.  *)
LEMMA PushShape ==
    ASSUME NEW S, NEW q \in Seq(S), Len(q) <= BusRoom, NEW e \in S
    PROVE  /\ Push(q, e) \in Seq(S) /\ Len(Push(q, e)) <= BusRoom
           /\ Len(q) # BusRoom => Push(q, e) = Append(q, e)
<1>0. BusRoom \in Nat \ {0}
  BY RecordsAssumption
<1>1. CASE Len(q) = BusRoom
  <2>1. Push(q, e) = Append(Tail(q), e)
    BY <1>1 DEF Push
  <2>2. Tail(q) \in Seq(S) /\ Len(Tail(q)) = Len(q) - 1
    BY <1>0, <1>1
  <2>3. QED
    BY <1>0, <1>1, <2>1, <2>2
<1>2. CASE Len(q) # BusRoom
  <2>1. Push(q, e) = Append(q, e)
    BY <1>2 DEF Push
  <2>2. QED
    BY <1>0, <1>2, <2>1
<1>3. QED
  BY <1>1, <1>2

(* What an announcement of no, one or two events does.                      *)
LEMMA Announced ==
    ASSUME NEW S, events \in Seq(S), Len(events) <= BusRoom,
           NEW a \in S, NEW b \in S, NEW es,
           es = <<>> \/ es = <<a>> \/ es = <<a, b>>, Announce(es)
    PROVE  /\ events' \in Seq(S) /\ Len(events') <= BusRoom
           /\ ~ lost' => /\ ~ lost
                         /\ es = <<>> => events' = events
                         /\ es = <<a>> => events' = Append(events, a)
                         /\ es = <<a, b>> =>
                               events' = Append(Append(events, a), b)
<1>0. BusRoom \in Nat \ {0} /\ Len(events) \in Nat
  BY RecordsAssumption
<1>1. lost' = (lost \/ Len(events) + Len(es) > BusRoom)
  BY DEF Announce
<1>2. CASE es = <<>>
  <2>1. events' = events
    BY <1>2 DEF Announce
  <2>2. es # <<a>> /\ es # <<a, b>>
    BY <1>2
  <2>3. ~ lost' => ~ lost
    BY <1>1, Zenon
  <2>4. QED
    BY <2>1, <2>2, <2>3
<1>3. CASE es = <<a>>
  <2>1. es # <<>> /\ Len(es) = 1 /\ es[1] = a /\ es # <<a, b>>
    BY <1>3
  <2>2. events' = Push(events, a)
    BY <2>1 DEF Announce
  <2>3. ~ lost' => ~ lost /\ ~ (Len(events) + Len(es) > BusRoom)
    BY <1>1, Zenon
  <2>4. ~ lost' => Len(events) # BusRoom
    BY <1>0, <2>1, <2>3
  <2>5. QED
    BY <2>1, <2>2, <2>3, <2>4, PushShape
<1>4. CASE es = <<a, b>>
  <2>1. es # <<>> /\ Len(es) = 2 /\ es[1] = a /\ es[2] = b /\ es # <<a>>
    BY <1>4
  <2>2. events' = Push(Push(events, a), b)
    BY <2>1 DEF Announce
  <2>3. ~ lost' => ~ lost /\ ~ (Len(events) + Len(es) > BusRoom)
    BY <1>1, Zenon
  <2>4. ~ lost' => Len(events) # BusRoom /\ Len(events) + 1 # BusRoom
    BY <1>0, <2>1, <2>3
  <2>5. /\ Push(events, a) \in Seq(S) /\ Len(Push(events, a)) <= BusRoom
        /\ ~ lost' => Push(events, a) = Append(events, a)
    BY <2>4, PushShape
  <2>6. Len(Append(events, a)) = Len(events) + 1
    OBVIOUS
  <2>7. /\ Push(Push(events, a), b) \in Seq(S)
        /\ Len(Push(Push(events, a), b)) <= BusRoom
        /\ ~ lost' => Push(Push(events, a), b) = Append(Append(events, a), b)
    BY <2>4, <2>5, <2>6, PushShape
  <2>8. QED
    BY <2>1, <2>2, <2>3, <2>7
<1>5. QED
  BY <1>2, <1>3, <1>4

(* What two announcements of at most one event make together.               *)
LEMMA OneAndOne ==
    ASSUME NEW a, NEW b
    PROVE  /\ <<>> \o <<>> = <<>> /\ <<>> \o <<b>> = <<b>>
           /\ <<a>> \o <<>> = <<a>> /\ <<a>> \o <<b>> = <<a, b>>
<1>1. PICK S : a \in S /\ b \in S
  <2>1. a \in {a, b} /\ b \in {a, b}
    OBVIOUS
  <2>2. QED
    BY <2>1
<1>2. <<>> \in Seq(S) /\ <<a>> \in Seq(S) /\ <<b>> \in Seq(S)
  BY <1>1
<1>3. <<a>> \o <<b>> = Append(<<a>>, b)
  BY <1>1, <1>2, AppendIsConcat
<1>4. Append(<<a>>, b) = <<a, b>>
  <2>1. <<a, b>> \in Seq(S) /\ Len(<<a, b>>) = 2
        /\ <<a, b>>[1] = a /\ <<a, b>>[2] = b
    BY <1>1
  <2>2. Append(<<a>>, b) \in Seq(S) /\ Len(Append(<<a>>, b)) = 2
        /\ Append(<<a>>, b)[1] = a /\ Append(<<a>>, b)[2] = b
    BY <1>1, <1>2
  <2>3. \A i \in 1..2 : i = 1 \/ i = 2
    OBVIOUS
  <2>4. QED
    BY <2>1, <2>2, <2>3, SeqEqual
<1>5. QED
  BY <1>2, <1>3, <1>4, ConcatEmptySeq

-----------------------------------------------------------------------------
(* What a record says of the device; no record says it is new.              *)
View(r) == IF r = NoRecord THEN [attr |-> Absent, avail |-> FALSE]
           ELSE [attr |-> r.attr, avail |-> r.avail]

(* A step in which the bridge writes record new for the message in hand:    *)
(* it is what the message makes of the record that was read, a person's     *)
(* name is kept, and a change of the attribute is announced last.           *)
Written(new) ==
    /\ bridge \in InBridge /\ bridge.at = "write"
    /\ bridge.msg.kind \in {"report", "availability", "register"}
    /\ record' = new /\ bridge' = Idle
    /\ overtaken' = (overtaken \/ record # bridge.read)
    /\ UNCHANGED <<forgotten, bus, cmd, patch, removal, published, removed,
                   reported, inputs>>
    /\ View(new) = Said(View(bridge.read), bridge.msg)
    /\ bridge.read # NoRecord =>
          /\ new.override = bridge.read.override
          /\ new.name = IF bridge.msg.kind = "register" THEN bridge.msg.name
                        ELSE bridge.read.name
    /\ IF bridge.msg.kind = "register" /\ agreed /\ bridge.msg.name # chosen
       THEN ChoiceOver ELSE UNCHANGED choiceVars
    /\ bridge.msg.kind = "report" => /\ new.change = Change(bridge.msg)
                                     /\ pending' = NoCmd
    /\ bridge.msg.kind # "report" => pending' = pending
    /\ events' \in Seq(BusEvent) /\ Len(events') <= BusRoom
    /\ ~ lost' =>
          /\ ~ lost
          /\ \E a, s \in BusEvent :
                /\ a.type # "state"
                /\ s.type = "state" /\ s.current = new.attr
                /\ \/ /\ events' \in {events, Append(events, a),
                                      Append(Append(events, a), a)}
                      /\ new.attr = View(bridge.read).attr
                   \/ events' \in {Append(events, s),
                                   Append(Append(events, a), s)}

(* The record the bridge starts from.                                       *)
LEMMA FoundIn ==
    ASSUME RecordsTypeOK, bridge # Idle, NEW owner \in {"derived", "plugin"}
    PROVE  /\ bridge \in InBridge
           /\ Found(owner) \in DeviceRecord
           /\ View(bridge.read) = [attr |-> Found(owner).attr,
                                   avail |-> Found(owner).avail]
           /\ bridge.read # NoRecord => Found(owner) = bridge.read
<1>1. bridge \in InBridge /\ bridge.read \in DeviceRecord \cup {NoRecord}
  BY DEF RecordsTypeOK, RecordOK, BusOK, EventsOK, InBridge
<1>2. New(owner) \in DeviceRecord /\ New(owner).attr = Absent
      /\ New(owner).avail = FALSE
  BY RecordsAssumption DEF New, DeviceRecord
<1>3. QED
  BY <1>1, <1>2 DEF Found, View

(* The values a view or a record may take after a message.                  *)
LEMMA SaidIn ==
    ASSUME NEW p \in Views, NEW m \in BusMessage
    PROVE  Said(p, m) \in Views
  BY MessageFields, RecordsAssumption DEF Said, Views

LEMMA MergedIn ==
    ASSUME NEW p \in Views, NEW m \in BusMessage, m.kind = "report"
    PROVE  /\ Merged(p.attr, m) \in Values \cup {Absent}
           /\ Said(p, m) = [attr |-> Merged(p.attr, m), avail |-> TRUE]
<1>1. m.attr \in Values \cup {Absent, Null} /\ m.full \in BOOLEAN
  BY MessageFields
<1>2. Absent \notin Values /\ Null \notin Values
  BY RecordsAssumption
<1>3. CASE m.attr \in Values
  BY <1>2, <1>3 DEF Merged, Said
<1>4. CASE m.attr \notin Values /\ (m.full \/ m.attr = Null)
  <2>1. Absent # Null
    BY DEF Absent, Null
  <2>2. Merged(p.attr, m) = Absent
    BY <1>1, <1>4, <2>1 DEF Merged
  <2>3. Said(p, m) = [attr |-> Absent, avail |-> TRUE]
    BY <1>4, <2>1 DEF Said
  <2>4. QED
    BY <2>2, <2>3
<1>5. CASE m.attr = Absent /\ ~ m.full
  <2>1. Merged(p.attr, m) = p.attr
    BY <1>2, <1>5 DEF Merged
  <2>2. Absent # Null
    BY DEF Absent, Null
  <2>3. Said(p, m) = [p EXCEPT !.avail = TRUE]
    BY <1>2, <1>5, <2>2 DEF Said
  <2>4. QED
    BY <2>1, <2>3 DEF Views
<1>6. QED
  BY <1>1, <1>3, <1>4, <1>5

LEMMA ChangeIn ==
    ASSUME NEW m \in BusMessage, m.kind = "report", pending \in Cmds \cup {NoCmd}
    PROVE  Change(m) \in Cmds \cup {"none", "own", "external", "unknown"}
<1>1. m.explicit \in {"none", "own", "external"}
  BY MessageFields
<1>2. Fresh(pending) => pending \in Cmds
  BY DEF Fresh
<1>3. QED
  BY <1>1, <1>2 DEF Change

(* handle_state                                                             *)
LEMMA ReportWrites ==
    ASSUME RecordsTypeOK, BridgeReports
    PROVE  \E new \in DeviceRecord : Written(new)
<1> DEFINE m   == bridge.msg
           old == Found("derived")
           new == [old EXCEPT !.attr = Merged(old.attr, m), !.avail = TRUE,
                              !.change = Change(m)]
           a   == AvailabilityChanged(TRUE)
           s   == StateChanged(old.attr, new.attr)
           es  == ComesOnline(old) \o IF new.attr = old.attr THEN <<>> ELSE <<s>>
<1>1. /\ bridge.at = "write" /\ m.kind = "report" /\ bridge # Idle
      /\ BridgeWrites(new, es) /\ pending' = NoCmd
      /\ UNCHANGED <<removed, choiceVars>>
  BY DEF BridgeReports, Idle
<1>2. /\ bridge \in InBridge /\ old \in DeviceRecord
      /\ View(bridge.read) = [attr |-> old.attr, avail |-> old.avail]
      /\ bridge.read # NoRecord => old = bridge.read
  BY <1>1, FoundIn
<1>3. m \in BusMessage
  BY <1>2 DEF InBridge
<1>4. pending \in Cmds \cup {NoCmd}
  BY DEF RecordsTypeOK, RecordOK, BusOK, EventsOK
<1>5. PICK p \in Views : p = View(bridge.read)
  BY <1>2 DEF Views, DeviceRecord
<1>6. p.attr = old.attr
  BY <1>2, <1>5
<1>7. /\ Merged(old.attr, m) \in Values \cup {Absent}
      /\ Said(View(bridge.read), m) = [attr |-> Merged(old.attr, m), avail |-> TRUE]
  BY <1>1, <1>3, <1>5, <1>6, MergedIn
<1>8. Change(m) \in Cmds \cup {"none", "own", "external", "unknown"}
  BY <1>1, <1>3, <1>4, ChangeIn
<1>9. PICK v, ch : v = Merged(old.attr, m) /\ ch = Change(m)
  OBVIOUS
<1>10. new = [old EXCEPT !.attr = v, !.avail = TRUE, !.change = ch]
  BY <1>9
<1>11. /\ new \in DeviceRecord /\ new.attr = v /\ new.avail = TRUE
       /\ new.change = ch /\ new.override = old.override /\ new.name = old.name
  <2> HIDE DEF new, old, m
  <2> QED
    BY <1>2, <1>7, <1>8, <1>9, <1>10 DEF DeviceRecord
<1>12. View(new) = Said(View(bridge.read), m)
  <2>1. new # NoRecord
    <3> HIDE DEF new
    <3> QED  BY <1>11, RecordsAssumption
  <2>2. QED
    <3> HIDE DEF new, old, m
    <3> QED  BY <1>7, <1>9, <1>11, <2>1 DEF View
<1>13. a \in BusEvent /\ a.type = "availability"
  BY DEF AvailabilityChanged, BusEvent
<1>14. s \in BusEvent /\ s.type = "state" /\ s.current = new.attr
  <2> HIDE DEF new, old, m
  <2> QED  BY <1>2, <1>11 DEF StateChanged, BusEvent, DeviceRecord
<1> HIDE DEF m, old, new, a, s
<1>15. /\ es = IF old.avail THEN IF new.attr = old.attr THEN <<>> ELSE <<s>>
               ELSE IF new.attr = old.attr THEN <<a>> ELSE <<a, s>>
  <2>1. ComesOnline(old) = IF old.avail THEN <<>> ELSE <<a>>
    BY DEF ComesOnline, a
  <2>2. <<>> \o <<>> = <<>> /\ <<>> \o <<s>> = <<s>> /\ <<a>> \o <<>> = <<a>>
        /\ <<a>> \o <<s>> = <<a, s>>
    BY OneAndOne
  <2>3. QED
    BY <2>1, <2>2
<1>16. /\ events \in Seq(BusEvent) /\ Len(events) <= BusRoom
  BY DEF RecordsTypeOK, RecordOK, BusOK, EventsOK
<1>17. PICK q : q = es
  OBVIOUS
<1>18. Announce(q)
  BY <1>1, <1>17 DEF BridgeWrites
<1>19. CASE q = <<>> \/ q = <<a>> \/ q = <<a, s>>
  <2>1. /\ events' \in Seq(BusEvent) /\ Len(events') <= BusRoom
        /\ ~ lost' => /\ ~ lost
                      /\ q = <<>> => events' = events
                      /\ q = <<a>> => events' = Append(events, a)
                      /\ q = <<a, s>> => events' = Append(Append(events, a), s)
    BY <1>13, <1>14, <1>16, <1>18, <1>19, Announced
  <2>2. new.attr = old.attr \/ q = <<a, s>>
    <3>1. <<s>> # <<>> /\ (<<s>> = <<a>> => s = a)
      OBVIOUS
    <3>2. s # a
      BY <1>13, <1>14
    <3>3. <<s>> # <<a, s>>
      OBVIOUS
    <3>4. QED
      BY <1>15, <1>17, <1>19, <3>1, <3>2, <3>3
  <2>3. View(bridge.read).attr = old.attr
    BY <1>5, <1>6
  <2>4. ~ lost' => \/ /\ events' \in {events, Append(events, a),
                                       Append(Append(events, a), a)}
                      /\ new.attr = View(bridge.read).attr
                   \/ events' \in {Append(events, s), Append(Append(events, a), s)}
    BY <1>19, <2>1, <2>2, <2>3
  <2>5. Written(new)
    BY <1>1, <1>2, <1>9, <1>11, <1>12, <1>13, <1>14, <2>1, <2>4
       DEF Written, BridgeWrites, m
  <2>6. QED
    BY <1>11, <2>5
<1>20. CASE q = <<s>>
  <2>1. /\ events' \in Seq(BusEvent) /\ Len(events') <= BusRoom
        /\ ~ lost' => ~ lost /\ events' = Append(events, s)
    BY <1>14, <1>16, <1>18, <1>20, Announced
  <2>2. Written(new)
    BY <1>1, <1>2, <1>9, <1>11, <1>12, <1>13, <1>14, <2>1
       DEF Written, BridgeWrites, m
  <2>3. QED
    BY <1>11, <2>2
<1>21. QED
  BY <1>15, <1>17, <1>19, <1>20

(* handle_availability                                                      *)
LEMMA AvailabilityWrites ==
    ASSUME RecordsTypeOK, BridgeAvailability
    PROVE  \E new \in DeviceRecord : Written(new)
<1> DEFINE m   == bridge.msg
           old == Found("derived")
           new == [old EXCEPT !.avail = m.up]
           a   == AvailabilityChanged(m.up)
           s   == StateChanged(old.attr, old.attr)
           es  == IF old.avail = m.up THEN <<>> ELSE <<a>>
<1>1. /\ bridge.at = "write" /\ m.kind = "availability" /\ bridge # Idle
      /\ BridgeWrites(new, es) /\ UNCHANGED <<pending, removed, choiceVars>>
  BY DEF BridgeAvailability, Idle
<1>2. /\ bridge \in InBridge /\ old \in DeviceRecord
      /\ View(bridge.read) = [attr |-> old.attr, avail |-> old.avail]
      /\ bridge.read # NoRecord => old = bridge.read
  BY <1>1, FoundIn
<1>3. m \in BusMessage
  BY <1>2 DEF InBridge
<1>4. m.up \in BOOLEAN
  BY <1>1, <1>3, MessageFields
<1>5. /\ new \in DeviceRecord /\ new.attr = old.attr /\ new.avail = m.up
      /\ new.override = old.override /\ new.name = old.name
  <2> HIDE DEF old, m
  <2> QED  BY <1>2, <1>4 DEF DeviceRecord
<1>6. View(new) = Said(View(bridge.read), m)
  <2>1. new # NoRecord
    <3> HIDE DEF new
    <3> QED  BY <1>5, RecordsAssumption
  <2>2. Said(View(bridge.read), m) = [View(bridge.read) EXCEPT !.avail = m.up]
    BY <1>1 DEF Said
  <2>3. QED
    <3> HIDE DEF new, old, m
    <3> QED  BY <1>2, <1>5, <2>1, <2>2 DEF View
<1>7. a \in BusEvent /\ a.type = "availability"
  <2> HIDE DEF m
  <2> QED  BY <1>4 DEF AvailabilityChanged, BusEvent
<1>8. s \in BusEvent /\ s.type = "state" /\ s.current = old.attr
  <2> HIDE DEF old
  <2> QED  BY <1>2 DEF StateChanged, BusEvent, DeviceRecord
<1> HIDE DEF old, new, a, s
<1>9. PICK q : q = es
  OBVIOUS
<1>10. Announce(q) /\ (q = <<>> \/ q = <<a>>)
  BY <1>1, <1>9 DEF BridgeWrites
<1>11. /\ events' \in Seq(BusEvent) /\ Len(events') <= BusRoom
       /\ ~ lost' => ~ lost /\ events' \in {events, Append(events, a)}
  BY <1>7, <1>10, Announced DEF RecordsTypeOK, RecordOK, BusOK, EventsOK
<1>12. new.attr = View(bridge.read).attr
  BY <1>2, <1>5
<1>13. s.current = new.attr
  BY <1>5, <1>8
<1>14. ~ lost' =>
          /\ ~ lost
          /\ \E x, y \in BusEvent :
                /\ x.type # "state"
                /\ y.type = "state" /\ y.current = new.attr
                /\ \/ /\ events' \in {events, Append(events, x),
                                      Append(Append(events, x), x)}
                      /\ new.attr = View(bridge.read).attr
                   \/ events' \in {Append(events, y),
                                   Append(Append(events, x), y)}
  BY <1>7, <1>8, <1>11, <1>12, <1>13
<1>15. Written(new)
  BY <1>1, <1>2, <1>5, <1>6, <1>11, <1>14 DEF Written, BridgeWrites
<1>16. QED
  BY <1>5, <1>15

(* An announcement of an event that is neither state nor availability.      *)
LEMMA ToldOther ==
    ASSUME EventsOK, NEW es,
           es = <<>> \/ es = <<Other>> \/ es = <<Other, Other>>, Announce(es)
    PROVE  /\ events' \in Seq(BusEvent) /\ Len(events') <= BusRoom
           /\ ~ lost' => /\ ~ lost
                         /\ events' \in {events, Append(events, Other),
                                         Append(Append(events, Other), Other)}
                         /\ es \in {<<>>, <<Other>>} =>
                               events' \in {events, Append(events, Other)}
<1>1. PICK o \in BusEvent : o = Other
  BY DEF BusEvent, Other
<1>2. /\ events' \in Seq(BusEvent) /\ Len(events') <= BusRoom
      /\ ~ lost' => /\ ~ lost
                    /\ es = <<>> => events' = events
                    /\ es = <<o>> => events' = Append(events, o)
                    /\ es = <<o, o>> => events' = Append(Append(events, o), o)
  BY <1>1, Announced DEF EventsOK
<1>3. QED
  BY <1>1, <1>2

LEMMA ToldIf ==
    ASSUME EventsOK, NEW b, Announce(OtherIf(b))
    PROVE  /\ events' \in Seq(BusEvent) /\ Len(events') <= BusRoom
           /\ ~ lost' => ~ lost /\ events' \in {events, Append(events, Other)}
<1>1. PICK es : es = OtherIf(b)
  OBVIOUS
<1>2. es \in {<<>>, <<Other>>}
  BY <1>1 DEF OtherIf
<1>3. Announce(es)
  BY <1>1
<1>4. QED
  BY <1>2, <1>3, ToldOther

(* handle_device_registration                                               *)
LEMMA RegistrationWrites ==
    ASSUME RecordsTypeOK, BridgeRegisters
    PROVE  \E new \in DeviceRecord : Written(new)
<1> DEFINE m   == bridge.msg
           old == Found("plugin")
           new == [old EXCEPT !.owner = "plugin", !.name = m.name]
           s   == StateChanged(old.attr, old.attr)
           es  == OtherIf(bridge.read # NoRecord /\ bridge.read.name # m.name)
                  \o OtherIf(m.typed)
<1>1. /\ bridge.at = "write" /\ m.kind = "register" /\ bridge # Idle
      /\ BridgeWrites(new, es) /\ UNCHANGED <<pending, removed>>
      /\ IF agreed /\ m.name # chosen THEN ChoiceOver ELSE UNCHANGED choiceVars
  BY DEF BridgeRegisters, Idle
<1>2. /\ bridge \in InBridge /\ old \in DeviceRecord
      /\ View(bridge.read) = [attr |-> old.attr, avail |-> old.avail]
      /\ bridge.read # NoRecord => old = bridge.read
  BY <1>1, FoundIn
<1>3. m \in BusMessage
  BY <1>2 DEF InBridge
<1>4. m.name \in Names
  BY <1>1, <1>3, MessageFields
<1>5. /\ new \in DeviceRecord /\ new.attr = old.attr /\ new.avail = old.avail
      /\ new.override = old.override /\ new.name = m.name
  <2> HIDE DEF old, m
  <2> QED  BY <1>2, <1>4 DEF DeviceRecord
<1>6. View(new) = Said(View(bridge.read), m)
  <2>1. new # NoRecord
    <3> HIDE DEF new
    <3> QED  BY <1>5, RecordsAssumption
  <2>2. Said(View(bridge.read), m) = View(bridge.read)
    BY <1>1 DEF Said
  <2>3. QED
    <3> HIDE DEF new, old, m
    <3> QED  BY <1>2, <1>5, <2>1, <2>2 DEF View
<1>7. s \in BusEvent /\ s.type = "state" /\ s.current = old.attr
  <2> HIDE DEF old
  <2> QED  BY <1>2 DEF StateChanged, BusEvent, DeviceRecord
<1> HIDE DEF old, new, s
<1>8. PICK q : q = es
  OBVIOUS
<1>9. q = <<>> \/ q = <<Other>> \/ q = <<Other, Other>>
  <2>1. PICK o : o = Other
    OBVIOUS
  <2>2. <<>> \o <<>> = <<>> /\ <<>> \o <<o>> = <<o>> /\ <<o>> \o <<>> = <<o>>
        /\ <<o>> \o <<o>> = <<o, o>>
    BY OneAndOne
  <2>3. QED
    BY <1>8, <2>1, <2>2 DEF OtherIf
<1>10. Announce(q) /\ EventsOK
  BY <1>1, <1>8 DEF BridgeWrites, RecordsTypeOK
<1>11. /\ events' \in Seq(BusEvent) /\ Len(events') <= BusRoom
       /\ ~ lost' => /\ ~ lost
                     /\ events' \in {events, Append(events, Other),
                                     Append(Append(events, Other), Other)}
  BY <1>9, <1>10, ToldOther
<1>12. new.attr = View(bridge.read).attr /\ s.current = new.attr
  BY <1>2, <1>5, <1>7
<1>13. Other \in BusEvent /\ Other.type # "state"
  BY DEF Other, BusEvent
<1>14. ~ lost' =>
          /\ ~ lost
          /\ \E x, y \in BusEvent :
                /\ x.type # "state"
                /\ y.type = "state" /\ y.current = new.attr
                /\ \/ /\ events' \in {events, Append(events, x),
                                      Append(Append(events, x), x)}
                      /\ new.attr = View(bridge.read).attr
                   \/ events' \in {Append(events, y),
                                   Append(Append(events, x), y)}
  BY <1>7, <1>11, <1>12, <1>13
<1>15. Written(new)
  BY <1>1, <1>2, <1>5, <1>6, <1>11, <1>14 DEF Written, BridgeWrites
<1>16. QED
  BY <1>5, <1>15

-----------------------------------------------------------------------------
(* A step in which update_device writes: all but the override is what it    *)
(* read, and the override stands for the name chosen, if it is about one.   *)
Patched ==
    /\ patch # Idle
    /\ \E new \in DeviceRecord :
          /\ record' = new
          /\ new.attr = patch.read.attr /\ new.avail = patch.read.avail
          /\ \/ new = patch.read /\ UNCHANGED choiceVars
             \/ \E name \in Names \cup {NoName} :
                   /\ new.name = patch.read.name
                   /\ new.override = Override(patch.read, name)
                   /\ Chose(name)
    /\ overtaken' = (overtaken \/ record # patch.read)
    /\ patch' = Idle
    /\ UNCHANGED <<forgotten, bus, bridge, pending, cmd, removal, events,
                   published, lost, removed, reported, inputs>>

LEMMA PatchIsPatched ==
    ASSUME RecordsTypeOK,
           PatchWritesOther \/ \E name \in Names \cup {NoName} : PatchWrites(name)
    PROVE  Patched
<1>1. patch # Idle => patch.read \in DeviceRecord
  BY DEF RecordsTypeOK, RecordOK
<1>2. CASE PatchWritesOther
  BY <1>1, <1>2 DEF PatchWritesOther, Patched
<1>3. ASSUME NEW name \in Names \cup {NoName}, PatchWrites(name)
      PROVE  Patched
  <2>1. PICK r \in DeviceRecord : r = patch.read
    BY <1>1, <1>3 DEF PatchWrites
  <2>2. PICK o \in Names \cup {NoName} : o = Override(patch.read, name)
    BY DEF Override
  <2>3. PICK new : new = [r EXCEPT !.override = o]
    OBVIOUS
  <2>4. /\ new \in DeviceRecord /\ new.override = o
        /\ new.attr = r.attr /\ new.avail = r.avail /\ new.name = r.name
    BY <2>3 DEF DeviceRecord
  <2>5. record' = new
    BY <1>3, <2>1, <2>2, <2>3 DEF PatchWrites
  <2>6. QED
    BY <1>3, <2>1, <2>2, <2>4, <2>5 DEF PatchWrites, Patched
<1>4. QED
  BY <1>2, <1>3

(* The steps, sorted by what they do to the record.                         *)
Rewrites == \E new \in DeviceRecord : Written(new)

LEMMA RecordSteps ==
    ASSUME RecordsTypeOK, [HomeNext]_allVars
    PROVE  \/ /\ RestOfEngine
              /\ \/ Rewrites \/ BridgeTakes \/ BridgeLooks \/ BridgeUnregisters
                 \/ PatchReads \/ Patched
                 \/ RemovalLists \/ RemovalRemembers \/ RemovalDeletes
                 \/ BringBack
                 \/ \E m \in Messages : PluginPublishes(m)
                 \/ \E c \in Cmds : CommandDevice(c)
                 \/ \E c \in Cmds, way \in {"handler", "broker"} :
                       CommandArrives(c, way)
                 \/ \E c \in Cmds, v \in Values : DeviceAnswers(c, v)
           \/ EngineHears \/ EngineFires \/ TaskWakes \/ SecondPasses
           \/ UNCHANGED allVars
<1>1. BridgeReports \/ BridgeAvailability \/ BridgeRegisters => Rewrites
  BY ReportWrites, AvailabilityWrites, RegistrationWrites DEF Rewrites
<1>2. PatchWritesOther \/ (\E name \in Names \cup {NoName} : PatchWrites(name))
         => Patched
  BY PatchIsPatched
<1>3. QED
  BY <1>1, <1>2 DEF HomeNext, RecordStep, BridgeStep, RequestStep, WorldStep

-----------------------------------------------------------------------------
(* Types.                                                                   *)

(* An answer of the device to command c is a message of the bus.            *)
Answer(c, v) == [Report(FALSE, v, "none") EXCEPT !.answers = c]

LEMMA AnswerIn ==
    ASSUME NEW c \in Cmds, NEW v \in Values
    PROVE  /\ Answer(c, v) \in BusMessage
           /\ Answer(c, v).kind = "report" /\ Answer(c, v).answers = c
<1> DEFINE blank == Report(FALSE, v, "none")
<1>1. blank \in [kind : {"report"}, full : {FALSE}, attr : Values,
                 explicit : {"none"}, answers : {NoCmd}]
  BY DEF Report
<1>2. Answer(c, v) = [blank EXCEPT !.answers = c]
  BY DEF Answer
<1> HIDE DEF blank
<1>3. /\ Answer(c, v) \in [kind : {"report"}, full : {FALSE}, attr : Values,
                           explicit : {"none"}, answers : Cmds]
      /\ Answer(c, v).answers = c
  BY <1>1, <1>2
<1>4. QED
  BY <1>3 DEF BusMessage

LEMMA CommandIn ==
    ASSUME NEW c \in Cmds
    PROVE  /\ Command(c) \in BusMessage
           /\ Command(c).kind = "command" /\ Command(c).cmd = c
  BY DEF Command, BusMessage

LEMMA FlagsStep ==
    ASSUME FlagsOK, EngineOK, EventsOK, [HomeNext]_allVars
    PROVE  FlagsOK'
<1> USE DEF FlagsOK, HomeNext, RecordStep, BridgeStep, RequestStep, WorldStep,
           BridgeTakes, BridgeLooks, BridgeReports, BridgeAvailability,
           BridgeRegisters, BridgeWrites, BridgeUnregisters, PatchReads,
           PatchWrites, PatchWritesOther, RemovalLists, RemovalRemembers,
           RemovalDeletes, BringBack, PluginPublishes, CommandDevice, CommandArrives, DeviceAnswers,
           EngineHears, EngineFires, TaskWakes, SecondPasses, RestOfEngine,
           allVars, recordVars, recordState, deferredVars
<1>1. /\ forgotten' \in {TRUE, FALSE, forgotten}
      /\ reported' \in {TRUE, reported}
  OBVIOUS
<1>2. \/ UNCHANGED removed \/ removed' = TRUE
      \/ \E x \in BOOLEAN : removed' = (removed \/ x)
  BY Zenon
<1>3. UNCHANGED overtaken \/ \E x \in BOOLEAN : overtaken' = (overtaken \/ x)
  BY Zenon
<1>4. UNCHANGED lost \/ \E x \in BOOLEAN : lost' = (lost \/ x)
  BY Zenon DEF Announce, Arrive
<1>5. awaited' \in BOOLEAN
  <2>1. CASE EngineHears
    <3>1. Head(events) \in BusEvent
      BY <2>1 DEF EventsOK
    <3>2. Matches(Head(events)) \in BOOLEAN
      BY <3>1 DEF Matches, BusEvent
    <3>3. awaited' = (awaited \/ Matches(Head(events)))
      BY <2>1
    <3>4. QED
      BY <3>2, <3>3, Zenon
  <2>2. CASE EngineFires
    BY <2>2, Zenon
  <2>3. CASE UNCHANGED awaited
    BY <2>3
  <2>4. QED
    BY <2>1, <2>2, <2>3
<1>6. fired' \in BOOLEAN
  <2>1. StillMatches \in BOOLEAN
    BY DEF StillMatches, EngineOK
  <2>2. UNCHANGED fired \/ fired' = FALSE \/ fired' = StillMatches
    OBVIOUS
  <2>3. QED
    BY <2>1, <2>2
<1>7. chosen' \in Names \cup {NoName} /\ agreed' \in BOOLEAN
  <2>1. ASSUME NEW name \in Names \cup {NoName}, Chose(name)
        PROVE  chosen' \in Names \cup {NoName} /\ agreed' \in BOOLEAN
    <3>1. chosen' \in Names \cup {NoName}
      BY <2>1 DEF Chose
    <3>2. agreed' = (bridge = Idle /\ name = patch.read.name)
      BY <2>1 DEF Chose
    <3>3. agreed' \in BOOLEAN
      BY <3>2, Zenon
    <3>4. QED
      BY <3>1, <3>3
  <2>2. CASE ChoiceOver
    BY <2>2 DEF ChoiceOver
  <2>3. CASE UNCHANGED choiceVars
    BY <2>3 DEF choiceVars
  <2>4. UNCHANGED choiceVars \/ ChoiceOver
        \/ \E name \in Names \cup {NoName} : Chose(name)
    OBVIOUS
  <2>5. QED
    BY <2>1, <2>2, <2>3, <2>4
<1>8. QED
  <2>1. removed' \in BOOLEAN /\ overtaken' \in BOOLEAN /\ lost' \in BOOLEAN
    BY <1>2, <1>3, <1>4, Zenon
  <2>2. forgotten' \in BOOLEAN /\ reported' \in BOOLEAN
    BY <1>1
  <2>3. QED
    BY <1>5, <1>6, <1>7, <2>1, <2>2

LEMMA RecordOKStep ==
    ASSUME RecordsTypeOK, [HomeNext]_allVars
    PROVE  RecordOK'
<1>1. RecordOK /\ bus \in Seq(BusMessage)
  BY DEF RecordsTypeOK, BusOK
<1> USE DEF RecordOK
<1>2. Idle.at = "idle" /\ Idle \in [at : {"idle", "remember", "delete"}]
  BY DEF Idle
<1>3. bridge # Idle => bridge \in InBridge /\ bridge.at \in {"look", "write"}
  BY <1>1 DEF InBridge
<1>4. patch # Idle => patch.read \in DeviceRecord
  BY <1>1
<1>5. inputs' \in {inputs, inputs + 1}
  BY RecordSteps
     DEF Rewrites, Written, BridgeTakes, BridgeLooks, BridgeUnregisters,
         PatchReads, Patched, RemovalLists, RemovalRemembers,
         RemovalDeletes, BringBack, PluginPublishes, CommandDevice,
         CommandArrives, DeviceAnswers, EngineHears, EngineFires, TaskWakes,
         SecondPasses, allVars, recordVars, recordState, Input
<1>6. inputs' \in Nat
  BY <1>1, <1>5
<1>7. CASE Rewrites
  BY <1>1, <1>2, <1>6, <1>7 DEF Rewrites, Written
<1>8. CASE BridgeTakes
  <2>1. Head(bus) \in BusMessage
    BY <1>1, <1>8 DEF BridgeTakes
  <2>2. PICK m \in BusMessage : m = Head(bus)
    BY <2>1
  <2>3. CASE m.kind = "command"
    BY <1>1, <1>2, <1>6, <1>8, <2>2, <2>3, MessageFields DEF BridgeTakes
  <2>4. CASE m.kind # "command"
    <3>1. bridge' = [at |-> IF record = NoRecord THEN "look" ELSE "write",
                     msg |-> m, read |-> record]
      BY <1>8, <2>2, <2>4 DEF BridgeTakes
    <3>2. bridge' \in InBridge
          /\ (bridge'.at = "look" => bridge'.read = NoRecord)
      BY <1>1, <2>4, <3>1 DEF InBridge
    <3>3. QED
      BY <1>1, <1>6, <1>8, <2>2, <2>4, <3>2 DEF BridgeTakes
  <2>5. QED
    BY <2>3, <2>4
<1>9. CASE BridgeLooks
  <2>1. bridge \in InBridge
    BY <1>2, <1>3, <1>9 DEF BridgeLooks
  <2>2. [bridge EXCEPT !.at = "write"] \in InBridge
        /\ [bridge EXCEPT !.at = "write"].at = "write"
    BY <2>1 DEF InBridge
  <2>3. bridge' = Idle \/ bridge' = [bridge EXCEPT !.at = "write"]
    BY <1>9 DEF BridgeLooks
  <2>4. bridge' \in {Idle} \cup InBridge /\ bridge'.at # "look"
    BY <1>2, <2>2, <2>3
  <2>5. QED
    BY <1>1, <1>6, <1>9, <2>4 DEF BridgeLooks
<1>10. CASE BridgeUnregisters
  BY <1>1, <1>2, <1>6, <1>10 DEF BridgeUnregisters
<1>11. CASE PatchReads
  <2>1. patch' \in [at : {"write"}, read : DeviceRecord]
    BY <1>1, <1>11 DEF PatchReads
  <2>2. QED
    BY <1>1, <1>6, <1>11, <2>1 DEF PatchReads
<1>12. CASE Patched
  BY <1>1, <1>6, <1>12 DEF Patched
<1>13. CASE RemovalLists \/ RemovalRemembers \/ RemovalDeletes
  <2>1. removal' \in [at : {"idle", "remember", "delete"}]
    BY <1>2, <1>13 DEF RemovalLists, RemovalRemembers, RemovalDeletes
  <2>2. QED
    BY <1>1, <1>6, <1>13, <2>1 DEF RemovalLists, RemovalRemembers, RemovalDeletes
<1>14. CASE UNCHANGED <<record, bridge, patch, removal, pending>>
  BY <1>1, <1>6, <1>14
<1>15. QED
  BY <1>7, <1>8, <1>9, <1>10, <1>11, <1>12, <1>13, <1>14, RecordSteps
     DEF BringBack, PluginPublishes, CommandDevice, CommandArrives,
         DeviceAnswers, EngineHears, EngineFires, TaskWakes, SecondPasses,
         allVars, recordVars, recordState

(* A message reaches the bus; without loss it is its last.                  *)
LEMMA Arrived ==
    ASSUME BusOK, NEW m \in BusMessage, Arrive(m)
    PROVE  /\ bus' \in Seq(BusMessage) /\ Len(bus') <= BusRoom
           /\ ~ lost' => ~ lost /\ bus' = Append(bus, m)
<1>1. bus' = Push(bus, m) /\ lost' = (lost \/ Full(bus))
  BY DEF Arrive
<1>2. ~ lost' => ~ lost /\ ~ Full(bus)
  BY <1>1, Zenon
<1>3. QED
  BY <1>1, <1>2, PushShape DEF BusOK, Full

(* What the steps do to the bus and to what it says.                        *)
BusMoves ==
    \/ UNCHANGED <<bus, published>> /\ ~ BridgeTakes
    \/ BridgeTakes
    \/ \E m \in BusMessage : Arrive(m) /\ published' = Said(published, m)

LEMMA BusStep ==
    ASSUME RecordsTypeOK, [HomeNext]_allVars
    PROVE  BusMoves /\ BusOK'
<1>1. BusOK
  BY DEF RecordsTypeOK
<1>2. ASSUME NEW m \in Messages, PluginPublishes(m)
      PROVE  \E x \in BusMessage : Arrive(x) /\ published' = Said(published, x)
  BY <1>2, RecordsAssumption DEF PluginPublishes, BusMessage
<1>3. ASSUME NEW c \in Cmds, NEW way, CommandArrives(c, way)
      PROVE  \E x \in BusMessage : Arrive(x) /\ published' = Said(published, x)
  <2>1. Command(c) \in BusMessage /\ Said(published, Command(c)) = published
    BY CommandIn DEF Said
  <2>2. QED
    BY <1>3, <2>1 DEF CommandArrives
<1>4. ASSUME NEW c \in Cmds, NEW v \in Values, DeviceAnswers(c, v)
      PROVE  \E x \in BusMessage : Arrive(x) /\ published' = Said(published, x)
  BY <1>4, AnswerIn DEF DeviceAnswers, Answer
<1>5. BusMoves
  BY <1>2, <1>3, <1>4, RecordSteps
     DEF BusMoves, Rewrites, Written, BridgeLooks, BridgeUnregisters,
         PatchReads, Patched, RemovalLists, RemovalRemembers,
         RemovalDeletes, BringBack, CommandDevice, EngineHears, EngineFires,
         TaskWakes, SecondPasses, allVars, recordVars, recordState
<1>6. BusOK'
  <2>1. CASE BridgeTakes
    <3>1. bus' = Tail(bus) /\ bus # <<>> /\ published' = published
      BY <2>1 DEF BridgeTakes
    <3>2. QED
      BY <1>1, <3>1, RecordsAssumption DEF BusOK
  <2>2. ASSUME NEW m \in BusMessage, Arrive(m), published' = Said(published, m)
        PROVE  BusOK'
    BY <1>1, <2>2, Arrived, SaidIn DEF BusOK
  <2>3. QED
    BY <1>1, <1>5, <2>1, <2>2 DEF BusMoves, BusOK
<1>7. QED
  BY <1>5, <1>6

LEMMA EventsStep ==
    ASSUME RecordsTypeOK, [HomeNext]_allVars
    PROVE  EventsOK'
<1>1. EventsOK
  BY DEF RecordsTypeOK
<1> USE DEF EventsOK
<1>2. CASE Rewrites
  BY <1>2 DEF Rewrites, Written
<1>3. CASE EngineHears \/ EngineFires
  <2>1. events' = Tail(events) /\ events # <<>>
    BY <1>3 DEF EngineHears, EngineFires
  <2>2. QED
    BY <1>1, <2>1, RecordsAssumption
<1>4. CASE TaskWakes
  <2> DEFINE e == [type |-> "deferred"]
  <2>1. e \in BusEvent
    BY DEF BusEvent
  <2>2. PICK q : Announce(q) /\ (q = <<>> \/ q = <<e>>)
    BY <1>4 DEF TaskWakes
  <2>3. QED
    <3> HIDE DEF e
    <3> QED  BY <1>1, <2>1, <2>2, Announced
<1>5. CASE BridgeLooks \/ BridgeUnregisters
  <2>1. PICK b : Announce(OtherIf(b))
    BY <1>5 DEF BridgeLooks, BridgeUnregisters
  <2>2. QED
    BY <1>1, <2>1, ToldIf
<1>6. CASE UNCHANGED events
  BY <1>1, <1>6
<1>7. QED
  BY <1>2, <1>3, <1>4, <1>5, <1>6, RecordSteps
     DEF BridgeTakes, PatchReads, Patched,
         RemovalLists, RemovalRemembers, RemovalDeletes, BringBack,
         PluginPublishes, CommandDevice, CommandArrives, DeviceAnswers,
         SecondPasses, allVars, recordVars

LEMMA CmdsStep ==
    ASSUME RecordsTypeOK, [HomeNext]_allVars
    PROVE  cmd' \in [Cmds -> CmdState]
<1>1. cmd \in [Cmds -> CmdState]
  BY DEF RecordsTypeOK
<1>2. ASSUME NEW c \in Cmds, NEW x \in CmdState, cmd' = [cmd EXCEPT ![c] = x]
      PROVE  cmd' \in [Cmds -> CmdState]
  BY <1>1, <1>2
<1>3. ASSUME NEW c \in Cmds, CommandDevice(c) PROVE cmd' \in [Cmds -> CmdState]
  BY <1>2, <1>3 DEF CommandDevice, CmdState
<1>4. ASSUME NEW c \in Cmds, NEW w \in {"handler", "broker", "answered"},
             cmd' = [cmd EXCEPT ![c].at = @ \cup {w}]
      PROVE  cmd' \in [Cmds -> CmdState]
  <2>1. PICK x : x = [cmd[c] EXCEPT !.at = @ \cup {w}]
    OBVIOUS
  <2>2. x \in CmdState
    BY <1>1, <2>1 DEF CmdState
  <2>3. cmd' = [cmd EXCEPT ![c] = x]
    BY <1>1, <1>4, <2>1
  <2>4. QED
    BY <1>2, <2>2, <2>3
<1>5. CASE CommandsAge
  <2>1. \A c \in Cmds : /\ cmd[c] \in CmdState
                        /\ [cmd[c] EXCEPT !.age = @ + 1] \in CmdState
    BY <1>1 DEF CmdState
  <2>2. QED
    BY <1>5, <2>1 DEF CommandsAge
<1>6. CASE UNCHANGED cmd
  BY <1>1, <1>6
<1>7. ASSUME NEW c \in Cmds, NEW way \in {"handler", "broker"},
             CommandArrives(c, way)
      PROVE  cmd' \in [Cmds -> CmdState]
  BY <1>4, <1>7 DEF CommandArrives
<1>8. ASSUME NEW c \in Cmds, NEW v \in Values, DeviceAnswers(c, v)
      PROVE  cmd' \in [Cmds -> CmdState]
  BY <1>4, <1>8 DEF DeviceAnswers
<1>9. QED
  BY <1>3, <1>5, <1>6, <1>7, <1>8, RecordSteps
     DEF Rewrites, Written, BridgeTakes, BridgeLooks, BridgeUnregisters,
         PatchReads, Patched, RemovalLists, RemovalRemembers,
         RemovalDeletes, BringBack, PluginPublishes, EngineHears, EngineFires,
         TaskWakes, SecondPasses, allVars, recordVars, recordState

LEMMA EngineStep ==
    ASSUME RecordsTypeOK, [HomeNext]_allVars
    PROVE  EngineOK'
<1>1. EngineOK /\ EventsOK /\ Duration \in Nat \ {0}
  BY DeferredAssumption DEF RecordsTypeOK
<1> USE DEF EngineOK
<1>2. ASSUME NEW k \in 0..Duration, NEW n \in Nat,
             tasks' = [tasks EXCEPT ![k] = n]
      PROVE  tasks' \in [0..Duration -> Nat]
  BY <1>1, <1>2
<1>3. CASE EngineHears
  <2>1. Head(events) \in BusEvent
    BY <1>1, <1>3 DEF EngineHears, EventsOK
  <2>2. PICK e \in BusEvent : e = Head(events)
    BY <2>1
  <2>3. cache' \in Values \cup {Absent}
    <3>1. e.type = "state" => e.current \in Values \cup {Absent}
      BY DEF BusEvent
    <3>2. QED
      BY <1>1, <1>3, <2>2, <3>1 DEF EngineHears, Cached
  <2>4. tasks' \in [0..Duration -> Nat]
    <3>1. Duration \in 0..Duration /\ tasks[Duration] + 1 \in Nat
      BY <1>1
    <3>2. tasks' = tasks \/ tasks' = [tasks EXCEPT ![Duration] = tasks[Duration] + 1]
      BY <1>3 DEF EngineHears
    <3>3. QED
      BY <1>1, <1>2, <3>1, <3>2
  <2>5. heldFor' \in 0..Duration
    BY <1>1, <1>3 DEF EngineHears
  <2>6. QED
    BY <1>1, <1>3, <2>3, <2>4, <2>5 DEF EngineHears
<1>4. CASE TaskWakes
  <2>1. 0 \in 0..Duration /\ tasks[0] \in Nat /\ tasks[0] > 0
    BY <1>1, <1>4 DEF TaskWakes
  <2>2. tasks' = [tasks EXCEPT ![0] = tasks[0] - 1]
    BY <1>4 DEF TaskWakes
  <2>3. tasks[0] - 1 \in Nat
    BY <2>1
  <2>4. tasks' \in [0..Duration -> Nat]
    BY <1>2, <2>1, <2>2, <2>3
  <2>5. QED
    BY <1>1, <1>4, <2>4 DEF TaskWakes
<1>5. CASE SecondPasses
  <2>1. \A k \in 0..Duration : k < Duration => k + 1 \in 0..Duration
    BY <1>1
  <2>2. tasks' \in [0..Duration -> Nat]
    BY <1>1, <1>5, <2>1 DEF SecondPasses
  <2>3. heldFor' \in 0..Duration
    BY <1>1, <1>5 DEF SecondPasses
  <2>4. QED
    BY <1>1, <1>5, <2>2, <2>3 DEF SecondPasses
<1>6. CASE UNCHANGED <<trigger, cache, tasks, heldFor>>
  BY <1>1, <1>6
<1>7. QED
  BY <1>3, <1>4, <1>5, <1>6, RecordSteps
     DEF RestOfEngine, EngineFires, allVars, deferredVars

LEMMA TypesInit == HomeInit => RecordsTypeOK
<1> SUFFICES ASSUME HomeInit PROVE RecordsTypeOK
  OBVIOUS
<1>1. RecordOK
  BY DEF HomeInit, RecordsInit, RecordOK, Idle
<1>2. BusOK /\ EventsOK
  <2>1. /\ <<>> \in Seq(BusMessage) /\ <<>> \in Seq(BusEvent) /\ Len(<<>>) = 0
        /\ BusRoom \in Nat
    BY RecordsAssumption
  <2>2. QED
    BY <2>1 DEF HomeInit, RecordsInit, BusOK, EventsOK, Views
<1>3. cmd \in [Cmds -> CmdState]
  BY DEF HomeInit, RecordsInit, CmdState
<1>4. EngineOK
  BY DeferredAssumption DEF HomeInit, EngineOK
<1>5. FlagsOK
  BY DEF HomeInit, RecordsInit, FlagsOK
<1>6. QED
  BY <1>1, <1>2, <1>3, <1>4, <1>5 DEF RecordsTypeOK

LEMMA TypesStep ==
    ASSUME RecordsTypeOK, [HomeNext]_allVars
    PROVE  RecordsTypeOK'
  BY RecordOKStep, BusStep, EventsStep, CmdsStep, EngineStep, FlagsStep
     DEF RecordsTypeOK

(* The store, the buses, the writers' hands and the engine's cache and      *)
(* tasks keep their types whatever the plugin publishes and however the     *)
(* requests interleave: a partial report, a registration or an answer never *)
(* leaves half a record, neither bus grows past its room, and no task is    *)
(* counted below none.                                                      *)
THEOREM RecordTypes == HomeSpec => []RecordsTypeOK
<1>1. HomeInit => RecordsTypeOK
  BY TypesInit
<1>2. RecordsTypeOK /\ [HomeNext]_allVars => RecordsTypeOK'
  BY TypesStep
<1>3. QED
  BY <1>1, <1>2, PTL DEF HomeSpec

-----------------------------------------------------------------------------
(* A removed device.  Unless a write was overtaken: the device has a record *)
(* and is remembered as removed only while its removal is on its way to     *)
(* delete it, and a writer that found no record goes on only if the device  *)
(* is not remembered.                                                       *)
Away ==
    ~ overtaken =>
        /\ forgotten /\ record # NoRecord => removal.at = "delete"
        /\ /\ bridge # Idle /\ bridge.at = "write" /\ bridge.read = NoRecord
           /\ bridge.msg.kind # "unregister"
           => ~ forgotten

LEMMA AwayStep ==
    ASSUME RecordsTypeOK, Away, [HomeNext]_allVars
    PROVE  Away'
<1>1. RecordOK /\ FlagsOK /\ FlagsOK'
  BY FlagsStep DEF RecordsTypeOK
<1>2. Idle.at = "idle"
  BY DEF Idle
<1>3. NoRecord \notin DeviceRecord
  BY RecordsAssumption
<1>4. CASE Rewrites
  <2>1. PICK new \in DeviceRecord : Written(new)
    BY <1>4 DEF Rewrites
  <2>2. ~ overtaken' => ~ overtaken /\ record = bridge.read
    <3>1. overtaken' = (overtaken \/ record # bridge.read)
      BY <2>1 DEF Written
    <3>2. QED
      BY <3>1, Zenon
  <2>3. /\ bridge # Idle /\ bridge.at = "write" /\ bridge.msg.kind # "unregister"
        /\ UNCHANGED <<forgotten, removal>> /\ bridge' = Idle
    BY <1>2, <2>1 DEF Written
  <2>4. QED
    BY <2>2, <2>3 DEF Away
<1>5. CASE BridgeTakes
  <2>1. UNCHANGED <<overtaken, forgotten, record, removal>>
    BY <1>5 DEF BridgeTakes
  <2>2. bridge' = Idle \/ (bridge'.at = "write" => bridge'.read # NoRecord)
    BY <1>5 DEF BridgeTakes
  <2>3. QED
    BY <2>1, <2>2 DEF Away
<1>6. CASE BridgeLooks
  <2>1. UNCHANGED <<overtaken, forgotten, record, removal>>
    BY <1>6 DEF BridgeLooks
  <2>2. bridge \in InBridge
    BY <1>1, <1>2, <1>6 DEF BridgeLooks, RecordOK
  <2>3. bridge' = Idle \/ (bridge'.msg.kind # "unregister" => ~ forgotten)
    BY <1>6, <2>2 DEF BridgeLooks, InBridge
  <2>4. QED
    BY <2>1, <2>3 DEF Away
<1>7. CASE BridgeUnregisters
  <2>1. UNCHANGED <<overtaken, forgotten, removal>> /\ bridge' = Idle
    BY <1>7 DEF BridgeUnregisters
  <2>2. record' = NoRecord \/ record' = record
    BY <1>7 DEF BridgeUnregisters
  <2>3. QED
    BY <2>1, <2>2 DEF Away
<1>8. CASE Patched
  <2>1. ~ overtaken' => ~ overtaken /\ record = patch.read
    <3>1. overtaken' = (overtaken \/ record # patch.read)
      BY <1>8 DEF Patched
    <3>2. QED
      BY <3>1, Zenon
  <2>2. patch.read # NoRecord
    BY <1>1, <1>3, <1>8 DEF Patched, RecordOK
  <2>3. UNCHANGED <<forgotten, removal, bridge>>
    BY <1>8 DEF Patched
  <2>4. QED
    BY <2>1, <2>2, <2>3 DEF Away
<1>9. CASE RemovalRemembers
  <2>1. ~ overtaken' =>
           ~ overtaken /\ ~ (bridge.at = "write" /\ bridge.read = NoRecord)
    <3>1. overtaken' = (overtaken \/ (bridge.at = "write" /\ bridge.read = NoRecord))
      BY <1>9 DEF RemovalRemembers
    <3>2. QED
      BY <3>1, Zenon
  <2>2. removal'.at = "delete" /\ bridge' = bridge
    BY <1>9 DEF RemovalRemembers
  <2>3. QED
    BY <2>1, <2>2 DEF Away
<1>10. CASE RemovalDeletes
  BY <1>10 DEF RemovalDeletes, Away
<1>11. CASE RemovalLists
  <2>1. removal = Idle /\ UNCHANGED <<overtaken, forgotten, record, bridge>>
    BY <1>11 DEF RemovalLists
  <2>2. QED
    BY <1>2, <2>1 DEF Away
<1>12. CASE BringBack
  BY <1>12 DEF BringBack, Away
<1>13. CASE UNCHANGED <<overtaken, forgotten, record, bridge, removal>>
  BY <1>13 DEF Away
<1>14. QED
  BY <1>4, <1>5, <1>6, <1>7, <1>8, <1>9, <1>10, <1>11, <1>12, <1>13, RecordSteps
     DEF PatchReads, PluginPublishes, CommandDevice, CommandArrives,
         DeviceAnswers, EngineHears, EngineFires, TaskWakes, SecondPasses,
         allVars, recordVars, recordState

(* A removed device stays away until it is brought back.  The property      *)
(* speaks of the moments when nothing is in hand; Away says what holds      *)
(* while a report, a change and the removal itself are under way.           *)
THEOREM RemovalHolds == HomeSpec => []RemovedStaysAway
<1>1. HomeInit => RecordsTypeOK /\ Away
  <2>1. HomeInit => Away
    BY DEF HomeInit, RecordsInit, Away
  <2>2. QED
    BY <2>1, TypesInit
<1>2. RecordsTypeOK /\ Away /\ [HomeNext]_allVars => RecordsTypeOK' /\ Away'
  BY TypesStep, AwayStep
<1>3. Away => RemovedStaysAway
  BY DEF Away, RemovedStaysAway, Settled, Idle
<1>4. QED
  BY <1>1, <1>2, <1>3, PTL DEF HomeSpec

-----------------------------------------------------------------------------
(* How a record stands for what a person chose: by its override, or by the  *)
(* plugin's name, which was the same.                                       *)
Stands(r) ==
    /\ r # NoRecord
    /\ IF agreed THEN r.override = NoName /\ r.name = chosen
                 ELSE r.override = chosen

(* So does the record, and so do the copies of it that will be written back.*)
ChoiceStands ==
    chosen # NoName =>
        /\ Stands(record)
        /\ bridge # Idle => Stands(bridge.read)
        /\ patch # Idle => Stands(patch.read)

LEMMA ChoiceStep ==
    ASSUME RecordsTypeOK, ChoiceStands, [HomeNext]_allVars
    PROVE  ChoiceStands'
<1> SUFFICES ASSUME chosen' # NoName
             PROVE  /\ Stands(record)'
                    /\ bridge' # Idle => Stands(bridge.read)'
                    /\ patch' # Idle => Stands(patch.read)'
  BY DEF ChoiceStands
<1>1. RecordOK /\ Idle.at = "idle" /\ NoRecord \notin DeviceRecord
  BY RecordsAssumption DEF RecordsTypeOK, Idle
<1>2. CASE Rewrites
  <2>1. PICK new \in DeviceRecord : Written(new)
    BY <1>2 DEF Rewrites
  <2>2. UNCHANGED choiceVars
        /\ ~ (bridge.msg.kind = "register" /\ agreed /\ bridge.msg.name # chosen)
    BY <2>1 DEF Written, ChoiceOver
  <2>3. /\ bridge # Idle /\ bridge' = Idle /\ record' = new /\ new # NoRecord
        /\ patch' = patch
    BY <1>1, <2>1 DEF Written
  <2>4. Stands(bridge.read) /\ (patch # Idle => Stands(patch.read))
    BY <2>2, <2>3 DEF ChoiceStands, choiceVars
  <2>5. /\ new.override = bridge.read.override
        /\ agreed => new.name = chosen
    BY <2>1, <2>2, <2>4 DEF Written, Stands
  <2>6. QED
    BY <2>2, <2>3, <2>4, <2>5 DEF Stands, choiceVars
<1>3. CASE Patched
  <2>1. PICK new \in DeviceRecord :
           /\ record' = new
           /\ \/ new = patch.read /\ UNCHANGED choiceVars
              \/ \E name \in Names \cup {NoName} :
                    /\ new.name = patch.read.name
                    /\ new.override = Override(patch.read, name)
                    /\ Chose(name)
    BY <1>3 DEF Patched
  <2>2. patch # Idle /\ patch' = Idle /\ bridge' = bridge /\ new # NoRecord
    BY <1>1, <1>3 DEF Patched
  <2>3. CASE new = patch.read /\ UNCHANGED choiceVars
    BY <2>1, <2>2, <2>3 DEF ChoiceStands, Stands, choiceVars
  <2>4. CASE \E name \in Names \cup {NoName} :
                /\ new.name = patch.read.name
                /\ new.override = Override(patch.read, name)
                /\ Chose(name)
    <3>1. PICK name \in Names \cup {NoName} :
             /\ new.name = patch.read.name
             /\ new.override = Override(patch.read, name)
             /\ Chose(name)
      BY <2>4
    <3>2. bridge = Idle /\ chosen' = name
      BY <3>1 DEF Chose
    <3>3. agreed' <=> name = patch.read.name
      BY <3>1, <3>2, Zenon DEF Chose
    <3>4. QED
      BY <2>1, <2>2, <3>1, <3>2, <3>3 DEF Stands, Override
  <2>5. QED
    BY <2>1, <2>3, <2>4
<1>4. CASE BridgeUnregisters
  <2>1. UNCHANGED <<record, patch, choiceVars>> /\ bridge' = Idle
    BY <1>4 DEF BridgeUnregisters, ChoiceOver
  <2>2. QED
    BY <2>1 DEF ChoiceStands, Stands, choiceVars
<1>5. CASE RemovalDeletes
  BY <1>5 DEF RemovalDeletes, ChoiceOver
<1>6. CASE BridgeTakes
  <2>1. UNCHANGED <<record, patch, choiceVars>>
    BY <1>6 DEF BridgeTakes
  <2>2. bridge' = Idle \/ bridge'.read = record
    BY <1>6 DEF BridgeTakes
  <2>3. QED
    BY <2>1, <2>2 DEF ChoiceStands, Stands, choiceVars
<1>7. CASE BridgeLooks
  <2>1. UNCHANGED <<record, patch, choiceVars>> /\ bridge # Idle
        /\ bridge.at = "look"
    BY <1>1, <1>7 DEF BridgeLooks
  <2>2. bridge.read = NoRecord
    BY <1>1, <2>1 DEF RecordOK
  <2>3. QED
    BY <2>1, <2>2 DEF ChoiceStands, Stands, choiceVars
<1>8. CASE PatchReads
  <2>1. UNCHANGED <<record, bridge, choiceVars>> /\ patch'.read = record
    BY <1>8 DEF PatchReads
  <2>2. QED
    BY <2>1 DEF ChoiceStands, Stands, choiceVars
<1>9. CASE UNCHANGED <<record, bridge, patch, choiceVars>>
  BY <1>9 DEF ChoiceStands, Stands, choiceVars
<1>10. QED
  BY <1>2, <1>3, <1>4, <1>5, <1>6, <1>7, <1>8, <1>9, RecordSteps
     DEF RemovalLists, RemovalRemembers, BringBack, PluginPublishes,
         CommandDevice, CommandArrives, DeviceAnswers, EngineHears,
         EngineFires, TaskWakes, SecondPasses, allVars, recordVars, recordState

(* A device is shown under the name a person gave it through reports,       *)
(* registrations and other requests, until the plugin registers another     *)
(* than the one the person agreed to: the copies that the bridge and a      *)
(* request hold of the record stand for the choice as well.                 *)
THEOREM ChoiceHolds == HomeSpec => []ChoiceKept
<1>1. HomeInit => ChoiceStands
  BY DEF HomeInit, RecordsInit, ChoiceStands
<1>2. RecordsTypeOK /\ ChoiceStands /\ [HomeNext]_allVars => ChoiceStands'
  BY ChoiceStep
<1>3. RecordsTypeOK /\ ChoiceStands => ChoiceKept
  BY DEF ChoiceStands, Stands, ChoiceKept, EffectiveName
<1>4. QED
  BY <1>1, <1>2, <1>3, RecordTypes, PTL DEF HomeSpec

-----------------------------------------------------------------------------
(* A queue worked off one by one: f takes a state and a message to the next *)
(* state, and takes a to b along queue q.                                   *)
Path(S, f, q, a, b) ==
    \E F \in [0..Len(q) -> S] :
        /\ F[0] = a /\ F[Len(q)] = b
        /\ \A i \in 1..Len(q) : F[i] = f[<<F[i - 1], q[i]>>]

LEMMA PathEmpty ==
    ASSUME NEW S, NEW f, NEW a \in S
    PROVE  Path(S, f, <<>>, a, a) /\ \A b \in S : Path(S, f, <<>>, a, b) => a = b
<1>1. Len(<<>>) = 0
  OBVIOUS
<1>2. Path(S, f, <<>>, a, a)
  <2> DEFINE F == [i \in 0..0 |-> a]
  <2>1. F \in [0..0 -> S] /\ F[0] = a /\ \A i \in 1..0 : FALSE
    OBVIOUS
  <2>2. QED
    <3> HIDE DEF F
    <3> QED  BY <1>1, <2>1 DEF Path
<1>3. QED
  BY <1>1, <1>2 DEF Path

(* One message more at the end.                                             *)
LEMMA PathAppend ==
    ASSUME NEW S, NEW M, NEW f, \A x \in S, m \in M : f[<<x, m>>] \in S,
           NEW q \in Seq(M), NEW a \in S, NEW b \in S, NEW m \in M,
           Path(S, f, q, a, b)
    PROVE  Path(S, f, Append(q, m), a, f[<<b, m>>])
<1>1. PICK F \in [0..Len(q) -> S] :
         /\ F[0] = a /\ F[Len(q)] = b
         /\ \A i \in 1..Len(q) : F[i] = f[<<F[i - 1], q[i]>>]
  BY DEF Path
<1> DEFINE n == Len(q)
           G == [i \in 0..(n + 1) |-> IF i = n + 1 THEN f[<<b, m>>] ELSE F[i]]
<1>2. /\ n \in Nat /\ Len(Append(q, m)) = n + 1 /\ Append(q, m)[n + 1] = m
      /\ \A i \in 1..n : Append(q, m)[i] = q[i]
  OBVIOUS
<1> HIDE DEF n
<1>3. PICK y \in S : y = f[<<b, m>>]
  OBVIOUS
<1>4. \A i \in 0..n : F[i] \in S
  BY <1>1, <1>2 DEF n
<1>5. \A i \in 0..(n + 1) : i = n + 1 \/ i \in 0..n
  BY <1>2
<1>6. G \in [0..(n + 1) -> S]
  BY <1>3, <1>4, <1>5
<1>7. /\ \A i \in 0..n : G[i] = F[i]
      /\ G[n + 1] = f[<<b, m>>]
  BY <1>2
<1> HIDE DEF G
<1>8. G[0] = a /\ G[n] = b
  BY <1>1, <1>2, <1>7 DEF n
<1>9. \A i \in 1..(n + 1) : G[i] = f[<<G[i - 1], Append(q, m)[i]>>]
  <2> SUFFICES ASSUME NEW i \in 1..(n + 1)
               PROVE  G[i] = f[<<G[i - 1], Append(q, m)[i]>>]
    OBVIOUS
  <2>1. CASE i = n + 1
    <3>1. i - 1 = n
      BY <1>2, <2>1
    <3>2. QED
      BY <1>2, <1>7, <1>8, <2>1, <3>1
  <2>2. CASE i # n + 1
    <3>1. i \in 1..n /\ i \in 0..n /\ i - 1 \in 0..n
      BY <1>2, <2>2
    <3>2. QED
      BY <1>1, <1>2, <1>7, <3>1 DEF n
  <2>3. QED
    BY <2>1, <2>2
<1>10. QED
  <2>1. PICK r : r = Append(q, m)
    OBVIOUS
  <2>2. /\ G \in [0..Len(r) -> S] /\ G[0] = a /\ G[Len(r)] = f[<<b, m>>]
        /\ \A i \in 1..Len(r) : G[i] = f[<<G[i - 1], r[i]>>]
    BY <1>2, <1>6, <1>7, <1>8, <1>9, <2>1
  <2>3. Path(S, f, r, a, f[<<b, m>>])
    BY <2>2, Zenon DEF Path
  <2>4. QED
    BY <2>1, <2>3

(* The first message is worked off.                                         *)
LEMMA PathTail ==
    ASSUME NEW S, NEW M, NEW f,
           NEW q \in Seq(M), q # <<>>, NEW a \in S, NEW b \in S,
           Path(S, f, q, a, b)
    PROVE  Path(S, f, Tail(q), f[<<a, Head(q)>>], b)
<1>1. PICK F \in [0..Len(q) -> S] :
         /\ F[0] = a /\ F[Len(q)] = b
         /\ \A i \in 1..Len(q) : F[i] = f[<<F[i - 1], q[i]>>]
  BY DEF Path
<1> DEFINE n == Len(q) - 1
           G == [i \in 0..n |-> F[i + 1]]
<1>2. /\ n \in Nat /\ Len(q) = n + 1 /\ Len(Tail(q)) = n /\ q[1] = Head(q)
      /\ \A i \in 1..n : Tail(q)[i] = q[i + 1]
  OBVIOUS
<1> HIDE DEF n
<1>3. \A i \in 0..n : i + 1 \in 0..Len(q) /\ i + 1 \in 1..Len(q)
  BY <1>2
<1>4. G \in [0..n -> S] /\ \A i \in 0..n : G[i] = F[i + 1]
  <2>1. \A i \in 0..n : F[i + 1] \in S
    BY <1>1, <1>3
  <2>2. QED
    BY <2>1
<1> HIDE DEF G
<1>5. G[0] = f[<<a, Head(q)>>] /\ G[n] = b
  <2>1. G[0] = F[1] /\ G[n] = F[n + 1] /\ 1 \in 1..Len(q) /\ 1 - 1 = 0
    BY <1>2, <1>4
  <2>2. F[1] = f[<<F[0], q[1]>>]
    BY <1>1, <2>1
  <2>3. QED
    BY <1>1, <1>2, <2>1, <2>2
<1>6. \A i \in 1..n : G[i] = f[<<G[i - 1], Tail(q)[i]>>]
  <2> SUFFICES ASSUME NEW i \in 1..n
               PROVE  G[i] = f[<<G[i - 1], Tail(q)[i]>>]
    OBVIOUS
  <2>1. /\ i \in 0..n /\ i - 1 \in 0..n /\ i + 1 \in 1..Len(q)
        /\ (i - 1) + 1 = i /\ (i + 1) - 1 = i
    BY <1>2
  <2>2. G[i] = F[i + 1] /\ G[i - 1] = F[i] /\ Tail(q)[i] = q[i + 1]
    BY <1>2, <1>4, <2>1
  <2>3. F[i + 1] = f[<<F[i], q[i + 1]>>]
    BY <1>1, <2>1
  <2>4. QED
    BY <2>2, <2>3
<1>7. QED
  BY <1>2, <1>4, <1>5, <1>6 DEF Path

(* The messages of the bus, and the engine's events, as such functions.     *)
SaidBy == [x \in Views \X BusMessage |-> Said(x[1], x[2])]

LEMMA SaidByIn ==
    ASSUME NEW p \in Views, NEW m \in BusMessage
    PROVE  SaidBy[<<p, m>>] = Said(p, m) /\ SaidBy[<<p, m>>] \in Views
  BY SaidIn DEF SaidBy

Heard(c, e) == IF e.type = "state" THEN Cached(c, e) ELSE c
Cacheable == Values \cup {Absent}
HeardOf == [x \in Cacheable \X BusEvent |-> Heard(x[1], x[2])]

LEMMA HeardOfIn ==
    ASSUME NEW c \in Cacheable, NEW e \in BusEvent
    PROVE  /\ HeardOf[<<c, e>>] = Heard(c, e) /\ HeardOf[<<c, e>>] \in Cacheable
           /\ e.type # "state" => HeardOf[<<c, e>>] = c
           /\ e.type = "state" /\ e.current # Absent =>
                 HeardOf[<<c, e>>] = e.current
<1>1. e.type = "state" => e.current \in Cacheable
  BY DEF BusEvent, Cacheable
<1>2. HeardOf[<<c, e>>] = Heard(c, e)
  BY DEF HeardOf
<1>3. QED
  BY <1>1, <1>2 DEF Heard, Cached

-----------------------------------------------------------------------------
(* As long as the device has not been deleted, a request that has read its  *)
(* record, or listed the device, still finds one, and the bridge looks at   *)
(* the removed devices only when there is no record.                        *)
Kept ==
    ~ removed =>
        /\ record = NoRecord =>
              patch = Idle /\ removal.at # "remember" /\ ~ forgotten
        /\ bridge # Idle /\ bridge.at = "look" => record = NoRecord

(* What the device's record will say once the message in hand is handled.   *)
InHand == IF bridge = Idle THEN View(record) ELSE Said(View(record), bridge.msg)

(* The messages on the bus take it from there to what has been published.   *)
BusAgrees ==
    ~ lost /\ ~ overtaken /\ ~ removed =>
        Path(Views, SaidBy, bus, InHand, published)

(* The events the engine has not heard take its cache to the record.        *)
CacheAgrees ==
    ~ lost =>
        \E b \in Cacheable :
            /\ Path(Cacheable, HeardOf, events, cache, b)
            /\ ~ overtaken /\ record # NoRecord /\ record.attr # Absent
                  => b = record.attr

(* What has gone wrong once stays so.                                       *)
LEMMA FlagsStay ==
    ASSUME [HomeNext]_allVars
    PROVE  (lost => lost') /\ (overtaken => overtaken') /\ (removed => removed')
<1> USE DEF HomeNext, RecordStep, BridgeStep, RequestStep, WorldStep,
           BridgeTakes, BridgeLooks, BridgeReports, BridgeAvailability,
           BridgeRegisters, BridgeWrites, BridgeUnregisters, PatchReads,
           PatchWrites, PatchWritesOther, RemovalLists, RemovalRemembers,
           RemovalDeletes, BringBack, PluginPublishes, CommandDevice, CommandArrives, DeviceAnswers,
           EngineHears, EngineFires, TaskWakes, SecondPasses,
           allVars, recordVars, recordState
<1>1. lost => lost'
  BY Zenon DEF Announce, Arrive
<1>2. overtaken => overtaken'
  BY Zenon
<1>3. removed => removed'
  BY Zenon
<1>4. QED
  BY <1>1, <1>2, <1>3

(* A write that is not overtaken.                                           *)
LEMMA InTime ==
    ASSUME NEW new \in DeviceRecord, Written(new), ~ overtaken'
    PROVE  record = bridge.read
<1>1. overtaken' = (overtaken \/ record # bridge.read)
  BY DEF Written
<1>2. QED
  BY <1>1, Zenon

LEMMA PatchInTime ==
    ASSUME RecordsTypeOK, Patched, ~ overtaken'
    PROVE  /\ record \in DeviceRecord /\ record # NoRecord
           /\ record' \in DeviceRecord /\ record' # NoRecord
           /\ record'.attr = record.attr /\ View(record') = View(record)
<1>1. overtaken' = (overtaken \/ record # patch.read)
  BY DEF Patched
<1>2. record = patch.read
  BY <1>1, Zenon
<1>3. patch.read \in DeviceRecord
  BY DEF Patched, RecordsTypeOK, RecordOK
<1>4. /\ record \in DeviceRecord /\ record' \in DeviceRecord
      /\ record'.attr = record.attr /\ record'.avail = record.avail
  BY <1>2, <1>3 DEF Patched
<1>5. QED
  BY <1>4, RecordsAssumption DEF View

(* A device that its owner does not end stays as it is.                     *)
LEMMA Unregistered ==
    ASSUME BridgeUnregisters, ~ removed'
    PROVE  record' = record
<1> DEFINE owned == bridge.read = NoRecord \/ bridge.read.owner = bridge.msg.owner
<1>1. record' = (IF owned THEN NoRecord ELSE record) /\ removed' = (removed \/ owned)
  BY DEF BridgeUnregisters
<1> HIDE DEF owned
<1>2. ~ owned
  BY <1>1, Zenon
<1>3. QED
  BY <1>1, <1>2

LEMMA KeptStep ==
    ASSUME RecordsTypeOK, Kept, [HomeNext]_allVars
    PROVE  Kept'
<1>1. Idle.at = "idle"
  BY DEF Idle
<1>2. NoRecord \notin DeviceRecord /\ RecordOK
  BY RecordsAssumption DEF RecordsTypeOK
<1>3. CASE Rewrites
  BY <1>2, <1>3 DEF Rewrites, Written, Kept
<1>4. CASE BridgeTakes
  BY <1>4 DEF BridgeTakes, Kept
<1>5. CASE BridgeLooks
  <2>1. bridge \in InBridge
    BY <1>1, <1>2, <1>5 DEF BridgeLooks, RecordOK
  <2>2. bridge' = Idle \/ bridge'.at = "write"
    BY <1>5, <2>1 DEF BridgeLooks, InBridge
  <2>3. QED
    BY <1>5, <2>2 DEF BridgeLooks, Kept
<1>6. CASE BridgeUnregisters
  <2>1. ~ removed' => record' = record /\ ~ removed
    BY <1>6, Unregistered, FlagsStay
  <2>2. QED
    BY <1>1, <1>6, <2>1 DEF BridgeUnregisters, Kept
<1>7. CASE PatchReads
  BY <1>7 DEF PatchReads, Kept
<1>8. CASE Patched
  <2>1. record' # NoRecord
    BY <1>2, <1>8 DEF Patched
  <2>2. ~ removed => record # NoRecord
    BY <1>8 DEF Patched, Kept
  <2>3. QED
    BY <1>8, <2>1, <2>2 DEF Patched, Kept
<1>9. CASE RemovalLists
  BY <1>9 DEF RemovalLists, Kept
<1>10. CASE RemovalRemembers
  BY <1>10 DEF RemovalRemembers, Kept
<1>11. CASE RemovalDeletes
  BY <1>11 DEF RemovalDeletes, Kept
<1>12. CASE BringBack
  BY <1>12 DEF BringBack, Kept
<1>13. CASE UNCHANGED <<removed, record, patch, removal, forgotten, bridge>>
  BY <1>13 DEF Kept
<1>14. QED
  BY <1>3, <1>4, <1>5, <1>6, <1>7, <1>8, <1>9, <1>10, <1>11, <1>12, <1>13,
     RecordSteps
     DEF PluginPublishes, CommandDevice, CommandArrives,
         DeviceAnswers, EngineHears, EngineFires, TaskWakes, SecondPasses,
         allVars, recordVars, recordState

LEMMA InHandIn ==
    ASSUME RecordsTypeOK
    PROVE  View(record) \in Views /\ InHand \in Views
<1>1. View(record) \in Views
  BY DEF RecordsTypeOK, RecordOK, View, Views, DeviceRecord
<1>2. bridge # Idle => bridge.msg \in BusMessage
  BY DEF RecordsTypeOK, RecordOK, InBridge
<1>3. PICK p \in Views : p = View(record)
  BY <1>1
<1>4. QED
  BY <1>2, <1>3, SaidIn DEF InHand

LEMMA BusAgreesStep ==
    ASSUME RecordsTypeOK, Kept, BusAgrees, [HomeNext]_allVars
    PROVE  BusAgrees'
<1> SUFFICES ASSUME ~ lost', ~ overtaken', ~ removed'
             PROVE  Path(Views, SaidBy, bus', InHand', published')
  BY DEF BusAgrees
<1>1. ~ lost /\ ~ overtaken /\ ~ removed
  BY FlagsStay
<1>2. Path(Views, SaidBy, bus, InHand, published)
  BY <1>1 DEF BusAgrees
<1>3. bus \in Seq(BusMessage) /\ published \in Views /\ InHand \in Views
  BY InHandIn DEF RecordsTypeOK, BusOK
<1>4. Idle.at = "idle" /\ RecordOK
  BY DEF Idle, RecordsTypeOK
<1>5. ASSUME InHand' = InHand, UNCHANGED <<bus, published>>
      PROVE  Path(Views, SaidBy, bus', InHand', published')
  BY <1>2, <1>5
<1>6. CASE Rewrites
  <2>1. PICK new \in DeviceRecord : Written(new)
    BY <1>6 DEF Rewrites
  <2>2. bridge # Idle /\ bridge' = Idle /\ UNCHANGED <<bus, published>>
    BY <1>4, <2>1 DEF Written
  <2>3. View(record') = Said(View(record), bridge.msg)
    BY <2>1, InTime DEF Written
  <2>4. InHand' = InHand
    BY <2>2, <2>3 DEF InHand, View
  <2>5. QED
    BY <1>5, <2>2, <2>4
<1>7. CASE BridgeTakes
  <2>1. /\ bridge = Idle /\ bus # <<>> /\ bus' = Tail(bus)
        /\ UNCHANGED <<record, published>>
    BY <1>7 DEF BridgeTakes
  <2>2. PICK m \in BusMessage : m = Head(bus)
    BY <1>3, <2>1
  <2>3. InHand' = Said(InHand, m)
    <3>1. InHand = View(record) /\ View(record)' = View(record)
      BY <2>1 DEF InHand, View
    <3>2. CASE m.kind = "command"
      <4>1. bridge' = Idle
        BY <1>7, <2>2, <3>2 DEF BridgeTakes
      <4>2. Said(InHand, m) = InHand
        BY <3>2 DEF Said
      <4>3. QED
        BY <3>1, <4>1, <4>2 DEF InHand
    <3>3. CASE m.kind # "command"
      <4>1. bridge' # Idle /\ bridge'.msg = m
        <5>1. bridge' = [at |-> IF record = NoRecord THEN "look" ELSE "write",
                         msg |-> m, read |-> record]
          BY <1>7, <2>2, <3>3 DEF BridgeTakes
        <5>2. bridge'.at # "idle" /\ bridge'.msg = m
          BY <5>1
        <5>3. QED
          BY <1>4, <5>2
      <4>2. QED
        BY <3>1, <4>1 DEF InHand
    <3>4. QED
      BY <3>2, <3>3
  <2>4. Path(Views, SaidBy, Tail(bus), SaidBy[<<InHand, m>>], published)
    BY <1>2, <1>3, <2>1, <2>2, PathTail
  <2>5. SaidBy[<<InHand, m>>] = Said(InHand, m)
    BY <1>3, SaidByIn
  <2>6. QED
    BY <2>1, <2>3, <2>4, <2>5
<1>8. CASE BridgeLooks
  <2>1. bridge # Idle /\ bridge \in InBridge /\ bridge.at = "look"
    BY <1>4, <1>8 DEF BridgeLooks, RecordOK
  <2>2. ~ forgotten
    BY <1>1, <2>1 DEF Kept
  <2>3. bridge' = [bridge EXCEPT !.at = "write"]
    BY <1>8, <2>2 DEF BridgeLooks
  <2>4. bridge'.at = "write" /\ bridge'.msg = bridge.msg
    BY <2>1, <2>3 DEF InBridge
  <2>5. InHand' = InHand /\ UNCHANGED <<bus, published>>
    <3>1. UNCHANGED <<record, bus, published>>
      BY <1>8 DEF BridgeLooks
    <3>2. View(record)' = View(record)
      BY <3>1 DEF View
    <3>3. bridge' # Idle
      BY <1>4, <2>4
    <3>4. QED
      BY <2>1, <2>4, <3>1, <3>2, <3>3 DEF InHand
  <2>6. QED
    BY <1>5, <2>5
<1>9. CASE BridgeUnregisters
  <2>1. record' = record
    BY <1>9, Unregistered
  <2>2. Said(View(record), bridge.msg) = View(record)
    BY <1>9 DEF BridgeUnregisters, Said
  <2>3. InHand' = InHand /\ UNCHANGED <<bus, published>>
    BY <1>9, <2>1, <2>2 DEF BridgeUnregisters, InHand, View
  <2>4. QED
    BY <1>5, <2>3
<1>10. CASE Patched
  <2>1. View(record') = View(record)
    BY <1>10, PatchInTime
  <2>2. InHand' = InHand /\ UNCHANGED <<bus, published>>
    <3>1. UNCHANGED <<bus, published, bridge>>
      BY <1>10 DEF Patched
    <3>2. View(record)' = View(record)
      BY <2>1 DEF View
    <3>3. QED
      BY <3>1, <3>2 DEF InHand
  <2>3. QED
    BY <1>5, <2>2
<1>11. CASE RemovalDeletes
  BY <1>11 DEF RemovalDeletes
<1>12. CASE \E m \in BusMessage : Arrive(m) /\ published' = Said(published, m)
            /\ UNCHANGED <<record, bridge>>
  <2>1. PICK m \in BusMessage : /\ Arrive(m) /\ published' = Said(published, m)
                                /\ UNCHANGED <<record, bridge>>
    BY <1>12
  <2>2. bus' = Append(bus, m)
    BY <2>1, Arrived DEF RecordsTypeOK
  <2>3. InHand' = InHand
    BY <2>1 DEF InHand, View
  <2>4. \A x \in Views, y \in BusMessage : SaidBy[<<x, y>>] \in Views
    BY SaidByIn
  <2>5. Path(Views, SaidBy, Append(bus, m), InHand, SaidBy[<<published, m>>])
    BY <1>2, <1>3, <2>4, PathAppend
  <2>6. SaidBy[<<published, m>>] = Said(published, m)
    BY <1>3, SaidByIn
  <2>7. QED
    BY <2>1, <2>2, <2>3, <2>5, <2>6
<1>13. CASE UNCHANGED <<record, bridge, bus, published>>
  <2>1. InHand' = InHand
    BY <1>13 DEF InHand, View
  <2>2. QED
    BY <1>5, <1>13, <2>1
<1>14. CASE BusMoves /\ ~ BridgeTakes /\ UNCHANGED <<record, bridge>>
  BY <1>12, <1>13, <1>14 DEF BusMoves
<1>15. QED
  BY <1>6, <1>7, <1>8, <1>9, <1>10, <1>11, <1>13, <1>14, RecordSteps, BusStep
     DEF PatchReads, RemovalLists, RemovalRemembers, BringBack,
         PluginPublishes, CommandDevice, CommandArrives, DeviceAnswers,
         EngineHears, EngineFires, TaskWakes, SecondPasses,
         allVars, recordVars, recordState

LEMMA CacheAgreesStep ==
    ASSUME RecordsTypeOK, CacheAgrees, [HomeNext]_allVars
    PROVE  CacheAgrees'
<1> SUFFICES ASSUME ~ lost'
             PROVE  \E c \in Cacheable :
                       /\ Path(Cacheable, HeardOf, events', cache', c)
                       /\ ~ overtaken' /\ record' # NoRecord
                             /\ record'.attr # Absent => c = record'.attr
  BY DEF CacheAgrees
<1>1. ~ lost /\ (~ overtaken' => ~ overtaken)
  BY FlagsStay
<1>2. PICK b \in Cacheable :
         /\ Path(Cacheable, HeardOf, events, cache, b)
         /\ ~ overtaken /\ record # NoRecord /\ record.attr # Absent
               => b = record.attr
  BY <1>1 DEF CacheAgrees
<1>3. /\ events \in Seq(BusEvent) /\ Len(events) <= BusRoom /\ cache \in Cacheable
      /\ NoRecord \notin DeviceRecord
  BY RecordsAssumption DEF RecordsTypeOK, EventsOK, EngineOK, Cacheable
<1>4. \A x \in Cacheable, y \in BusEvent : HeardOf[<<x, y>>] \in Cacheable
  BY HeardOfIn
<1>6. CASE Rewrites /\ cache' = cache
  <2>1. PICK new \in DeviceRecord : Written(new)
    BY <1>6 DEF Rewrites
  <2>2. record' = new /\ record' # NoRecord
    BY <1>3, <2>1 DEF Written
  <2>3. PICK a, s \in BusEvent :
           /\ a.type # "state"
           /\ s.type = "state" /\ s.current = new.attr
           /\ \/ /\ events' \in {events, Append(events, a),
                                 Append(Append(events, a), a)}
                 /\ new.attr = View(bridge.read).attr
              \/ events' \in {Append(events, s), Append(Append(events, a), s)}
    BY <2>1 DEF Written
  <2>4. /\ HeardOf[<<b, a>>] = b
        /\ HeardOf[<<b, s>>] \in Cacheable
        /\ new.attr # Absent => HeardOf[<<b, s>>] = new.attr
    BY <2>3, HeardOfIn
  <2>5. Path(Cacheable, HeardOf, Append(events, a), cache, b)
    <3>1. Path(Cacheable, HeardOf, Append(events, a), cache, HeardOf[<<b, a>>])
      BY <1>2, <1>3, <1>4, PathAppend
    <3>2. QED
      BY <2>4, <3>1
  <2>6. Path(Cacheable, HeardOf, Append(events, s), cache, HeardOf[<<b, s>>])
    BY <1>2, <1>3, <1>4, PathAppend
  <2>7. /\ Path(Cacheable, HeardOf, Append(Append(events, a), s), cache,
                HeardOf[<<b, s>>])
        /\ Path(Cacheable, HeardOf, Append(Append(events, a), a), cache, b)
    <3>1. PICK q \in Seq(BusEvent) : q = Append(events, a)
      BY <1>3, AppendProperties
    <3>2. Path(Cacheable, HeardOf, q, cache, b)
      BY <2>5, <3>1
    <3>3. Path(Cacheable, HeardOf, Append(q, s), cache, HeardOf[<<b, s>>])
      BY <1>3, <1>4, <3>2, PathAppend
    <3>4. Path(Cacheable, HeardOf, Append(q, a), cache, HeardOf[<<b, a>>])
      BY <1>3, <1>4, <3>2, PathAppend
    <3>5. QED
      BY <2>4, <3>1, <3>3, <3>4
  <2>8. CASE /\ events' \in {events, Append(events, a),
                             Append(Append(events, a), a)}
             /\ new.attr = View(bridge.read).attr
    <3>1. ~ overtaken' /\ new.attr # Absent =>
             record # NoRecord /\ new.attr = record.attr
      BY <2>1, <2>8, InTime DEF View
    <3>2. ~ overtaken' /\ record' # NoRecord /\ record'.attr # Absent
             => b = record'.attr
      BY <1>1, <1>2, <2>2, <3>1
    <3>3. Path(Cacheable, HeardOf, events', cache', b)
      BY <1>2, <1>6, <2>5, <2>7, <2>8
    <3>4. QED
      BY <3>2, <3>3
  <2>9. CASE events' \in {Append(events, s), Append(Append(events, a), s)}
    <3>1. Path(Cacheable, HeardOf, events', cache', HeardOf[<<b, s>>])
      BY <1>6, <2>6, <2>7, <2>9
    <3>2. QED
      BY <2>2, <2>4, <3>1
  <2>10. QED
    BY <2>3, <2>8, <2>9
<1>7. CASE EngineHears \/ EngineFires
  <2>1. /\ events # <<>> /\ events' = Tail(events)
        /\ UNCHANGED <<record, overtaken>>
    BY <1>7 DEF EngineHears, EngineFires, recordState
  <2>2. PICK e \in BusEvent : e = Head(events)
    BY <1>3, <2>1
  <2>3. cache' = HeardOf[<<cache, e>>]
    <3>1. HeardOf[<<cache, e>>] = Heard(cache, e)
      BY <1>3, HeardOfIn
    <3>2. CASE EngineHears
      BY <2>2, <3>1, <3>2 DEF EngineHears, Heard
    <3>3. CASE EngineFires
      BY <2>2, <3>1, <3>3 DEF EngineFires, Heard
    <3>4. QED
      BY <1>7, <3>2, <3>3
  <2>4. Path(Cacheable, HeardOf, Tail(events), HeardOf[<<cache, e>>], b)
    BY <1>2, <1>3, <2>1, <2>2, PathTail
  <2>5. QED
    BY <1>2, <2>1, <2>3, <2>4
<1>8. CASE TaskWakes
  <2>1. PICK d \in BusEvent : d = [type |-> "deferred"]
    BY DEF BusEvent
  <2>2. PICK es : es = (IF StillMatches THEN <<[type |-> "deferred"]>> ELSE <<>>)
    OBVIOUS
  <2>3. Announce(es) /\ (es = <<>> \/ es = <<d>>)
    BY <1>8, <2>1, <2>2 DEF TaskWakes
  <2>4. events' \in {events, Append(events, d)}
    BY <1>3, <2>3, Announced
  <2>5. d.type # "state"
    BY <2>1
  <2>6. HeardOf[<<b, d>>] = b
    BY <2>5, HeardOfIn
  <2>7. Path(Cacheable, HeardOf, Append(events, d), cache, HeardOf[<<b, d>>])
    BY <1>2, <1>3, <1>4, PathAppend
  <2>8. UNCHANGED <<record, overtaken, cache>>
    BY <1>8 DEF TaskWakes, recordState
  <2>9. QED
    BY <1>2, <2>4, <2>6, <2>7, <2>8
<1>9. CASE Patched /\ cache' = cache
  <2>1. ~ overtaken' => record # NoRecord /\ record' # NoRecord
                        /\ record'.attr = record.attr
    BY <1>9, PatchInTime
  <2>2. events' = events
    BY <1>9 DEF Patched
  <2>3. QED
    BY <1>1, <1>2, <1>9, <2>1, <2>2
<1>10. CASE /\ record' = NoRecord \/ record' = record
            /\ UNCHANGED <<events, cache>>
  BY <1>1, <1>2, <1>10
<1>11. CASE RemovalDeletes /\ cache' = cache
  BY <1>10, <1>11 DEF RemovalDeletes
<1>12. CASE (BridgeLooks \/ BridgeUnregisters) /\ cache' = cache
  <2>1. PICK x : Announce(OtherIf(x))
    BY <1>12 DEF BridgeLooks, BridgeUnregisters
  <2>2. PICK o \in BusEvent : o = Other
    BY DEF BusEvent, Other
  <2>3. events' \in {events, Append(events, o)}
    BY <2>1, <2>2, ToldIf DEF RecordsTypeOK
  <2>4. o.type # "state"
    BY <2>2 DEF Other
  <2>5. HeardOf[<<b, o>>] = b
    BY <2>4, HeardOfIn
  <2>6. Path(Cacheable, HeardOf, Append(events, o), cache, HeardOf[<<b, o>>])
    BY <1>2, <1>3, <1>4, PathAppend
  <2>7. Path(Cacheable, HeardOf, events', cache', b)
    BY <1>2, <1>12, <2>3, <2>5, <2>6
  <2>8. (record' = NoRecord \/ record' = record) /\ overtaken' = overtaken
    BY <1>12 DEF BridgeLooks, BridgeUnregisters
  <2>9. QED
    BY <1>2, <2>7, <2>8
<1>13. QED
  BY <1>6, <1>7, <1>8, <1>9, <1>10, <1>11, <1>12, RecordSteps
     DEF RestOfEngine, BridgeTakes, PatchReads, RemovalLists,
         RemovalRemembers, BringBack, PluginPublishes, CommandDevice,
         CommandArrives, DeviceAnswers, SecondPasses,
         allVars, recordVars, recordState, deferredVars

(* When all messages have been handled the record says what the plugin      *)
(* published, and when its events have been heard so does the rule engine's *)
(* cache: however the bridge, the requests, the commands and the engine     *)
(* interleave, for queues of any room.                                      *)
THEOREM PublishedIsKept == HomeSpec => []RecordAsPublished
<1> DEFINE Agree == Kept /\ BusAgrees /\ CacheAgrees
<1>1. HomeInit => Agree
  <2> SUFFICES ASSUME HomeInit PROVE Agree
    OBVIOUS
  <2>1. /\ bus = <<>> /\ events = <<>> /\ record = NoRecord /\ bridge = Idle
        /\ patch = Idle /\ removal = Idle /\ forgotten = FALSE
        /\ published = [attr |-> Absent, avail |-> FALSE] /\ cache = Absent
    BY DEF HomeInit, RecordsInit
  <2>2. InHand = published /\ published \in Views /\ cache \in Cacheable
    BY <2>1 DEF InHand, View, Views, Cacheable
  <2>3. Kept
    BY <2>1 DEF Kept, Idle
  <2>4. BusAgrees
    <3>1. Path(Views, SaidBy, <<>>, published, published)
      BY <2>2, PathEmpty
    <3>2. QED
      BY <2>1, <2>2, <3>1 DEF BusAgrees
  <2>5. CacheAgrees
    <3>1. Path(Cacheable, HeardOf, <<>>, cache, cache)
      BY <2>2, PathEmpty
    <3>2. QED
      BY <2>1, <2>2, <3>1 DEF CacheAgrees
  <2>6. QED
    BY <2>3, <2>4, <2>5
<1>2. RecordsTypeOK /\ Agree /\ [HomeNext]_allVars => Agree'
  BY KeptStep, BusAgreesStep, CacheAgreesStep
<1>3. RecordsTypeOK /\ Agree => RecordAsPublished
  <2> SUFFICES ASSUME RecordsTypeOK, BusAgrees, CacheAgrees, Settled,
                      ~ lost, ~ overtaken, ~ removed, record # NoRecord
               PROVE  /\ record.attr = published.attr
                      /\ record.avail = published.avail
                      /\ events = <<>> /\ record.attr # Absent
                            => cache = record.attr
    BY DEF RecordAsPublished
  <2>1. bus = <<>> /\ bridge = Idle
    BY DEF Settled
  <2>2. InHand = [attr |-> record.attr, avail |-> record.avail]
    BY <2>1 DEF InHand, View
  <2>3. InHand = published
    <3>1. InHand \in Views /\ published \in Views
      BY InHandIn DEF RecordsTypeOK, BusOK
    <3>2. Path(Views, SaidBy, <<>>, InHand, published)
      BY <2>1 DEF BusAgrees
    <3>3. QED
      BY <3>1, <3>2, PathEmpty
  <2>4. ASSUME events = <<>>, record.attr # Absent PROVE cache = record.attr
    <3>1. PICK b \in Cacheable : Path(Cacheable, HeardOf, events, cache, b)
                                 /\ b = record.attr
      BY <2>4 DEF CacheAgrees
    <3>2. cache \in Cacheable
      BY DEF RecordsTypeOK, EngineOK, Cacheable
    <3>3. QED
      BY <2>4, <3>1, <3>2, PathEmpty
  <2>5. QED
    BY <2>2, <2>3, <2>4
<1>4. QED
  BY <1>1, <1>2, <1>3, RecordTypes, PTL DEF HomeSpec

-----------------------------------------------------------------------------
(* How far a command has come after one step of it.                         *)
LEMMA CmdMoves ==
    ASSUME RecordsTypeOK, NEW c \in Cmds, NEW w,
           cmd' = [cmd EXCEPT ![c].at = @ \cup {w}]
    PROVE  /\ cmd'[c].at = cmd[c].at \cup {w}
           /\ \A d \in Cmds : d # c => cmd'[d] = cmd[d]
<1>1. cmd \in [Cmds -> CmdState]
  BY DEF RecordsTypeOK
<1>2. PICK x : x = [cmd[c] EXCEPT !.at = @ \cup {w}]
  OBVIOUS
<1>3. x.at = cmd[c].at \cup {w}
  BY <1>1, <1>2 DEF CmdState
<1>4. cmd' = [cmd EXCEPT ![c] = x]
  BY <1>1, <1>2
<1>5. QED
  BY <1>1, <1>3, <1>4

LEMMA CmdSent ==
    ASSUME RecordsTypeOK, NEW c \in Cmds, CommandDevice(c)
    PROVE  /\ cmd'[c].at = {"sent"} /\ cmd[c].at = {}
           /\ \A d \in Cmds : d # c => cmd'[d] = cmd[d]
<1>1. cmd \in [Cmds -> CmdState]
  BY DEF RecordsTypeOK
<1>2. PICK x : x = [at |-> {"sent"}, age |-> 0]
  OBVIOUS
<1>3. cmd' = [cmd EXCEPT ![c] = x] /\ x.at = {"sent"}
  BY <1>2 DEF CommandDevice
<1>4. QED
  BY <1>1, <1>3 DEF CommandDevice

LEMMA CmdAges ==
    ASSUME RecordsTypeOK, CommandsAge, NEW c \in Cmds
    PROVE  cmd'[c].at = cmd[c].at
<1>1. cmd[c] \in CmdState
  BY DEF RecordsTypeOK
<1>2. [cmd[c] EXCEPT !.age = @ + 1].at = cmd[c].at
  BY <1>1 DEF CmdState
<1>3. cmd'[c] = cmd[c] \/ cmd'[c] = [cmd[c] EXCEPT !.age = @ + 1]
  BY DEF CommandsAge
<1>4. QED
  BY <1>2, <1>3

(* c is the only command there has been.                                    *)
Only(c) == \A d \in Cmds : d = c \/ cmd[d].at = {}

(* The command is ahead of the j-th message of the bus.                     *)
Ahead(c, j) == pending = c \/ \E k \in 1..(j - 1) : bus[k] = Command(c)

(* Then nothing but the command and one answer to it is on the bus; since   *)
(* the broker sent it back the command is ahead of what will be answered;   *)
(* and it is ahead of the answer, on the bus and in hand.                   *)
Answering(c) ==
    /\ \A j \in 1..Len(bus) : bus[j] = Command(c) \/ bus[j].kind = "report"
    /\ "broker" \in cmd[c].at /\ "answered" \notin cmd[c].at
          => Ahead(c, Len(bus) + 1)
    /\ \A j \in 1..Len(bus) :
          bus[j].kind = "report" =>
             /\ "answered" \in cmd[c].at /\ bridge = Idle /\ Ahead(c, j)
             /\ \A k \in 1..Len(bus) : bus[k].kind = "report" => k = j
    /\ bridge # Idle => /\ bridge.msg.kind = "report" /\ pending = c
                        /\ "answered" \in cmd[c].at

CommandAhead ==
    ~ lost /\ ~ reported => \A c \in Cmds : Only(c) => Answering(c)

LEMMA CommandAheadStep ==
    ASSUME RecordsTypeOK, CommandAhead, [HomeNext]_allVars
    PROVE  CommandAhead'
<1> SUFFICES ASSUME ~ lost', ~ reported', NEW c \in Cmds, Only(c)'
             PROVE  Answering(c)'
  BY DEF CommandAhead
<1>1. ~ lost /\ ~ reported
  <2>1. reported => reported'
    BY RecordSteps
       DEF Rewrites, Written, BridgeTakes, BridgeLooks, BridgeUnregisters,
           PatchReads, Patched, RemovalLists, RemovalRemembers,
           RemovalDeletes, BringBack, PluginPublishes, CommandDevice,
           CommandArrives, DeviceAnswers, EngineHears, EngineFires, TaskWakes,
           SecondPasses, allVars, recordVars, recordState
  <2>2. QED
    BY <2>1, FlagsStay
<1>2. Only(c) => Answering(c)
  BY <1>1 DEF CommandAhead
<1>3. /\ bus \in Seq(BusMessage) /\ BusOK /\ Len(bus) \in Nat
      /\ Command(c).kind = "command" /\ Command(c) \in BusMessage
      /\ Command(c).cmd = c
  BY CommandIn DEF RecordsTypeOK, BusOK
<1>4. Idle.at = "idle" /\ RecordOK
  BY DEF Idle, RecordsTypeOK
<1>5. ASSUME \A d \in Cmds : cmd'[d].at = cmd[d].at
      PROVE  Answering(c)
  BY <1>2, <1>5 DEF Only
<1>6. CASE /\ \A d \in Cmds : cmd'[d].at = cmd[d].at
           /\ UNCHANGED <<bus, pending, bridge>>
  BY <1>5, <1>6 DEF Answering, Ahead
<1>7. CASE Rewrites
  <2>1. UNCHANGED <<cmd, bus>> /\ bridge' = Idle /\ bridge # Idle
    BY <1>4, <1>7 DEF Rewrites, Written
  <2>2. Answering(c)
    BY <1>5, <2>1
  <2>3. \A j \in 1..Len(bus) : bus[j] = Command(c) /\ bus[j].kind # "report"
    BY <1>3, <2>1, <2>2 DEF Answering
  <2>4. "answered" \in cmd[c].at
    BY <2>1, <2>2 DEF Answering
  <2>5. QED
    BY <2>1, <2>3, <2>4 DEF Answering
<1>8. CASE BridgeTakes
  <2>1. /\ bridge = Idle /\ bus # <<>> /\ bus' = Tail(bus) /\ cmd' = cmd
    BY <1>8 DEF BridgeTakes
  <2>2. Answering(c)
    BY <1>5, <2>1
  <2>3. /\ Len(bus) > 0 /\ 1 \in 1..Len(bus) /\ Head(bus) = bus[1]
        /\ Len(bus') = Len(bus) - 1
        /\ \A j \in 1..Len(bus') : bus'[j] = bus[j + 1] /\ j + 1 \in 1..Len(bus)
    BY <1>3, <2>1
  <2>4. CASE bus[1] = Command(c)
    <3>1. pending' = c /\ bridge' = Idle
      BY <1>3, <1>8, <2>3, <2>4 DEF BridgeTakes
    <3>2. \A j \in 1..Len(bus') : bus'[j] = Command(c) \/ bus'[j].kind = "report"
      BY <2>2, <2>3 DEF Answering
    <3>3. \A j \in 1..Len(bus') : bus'[j].kind = "report" =>
             /\ "answered" \in cmd[c].at
             /\ \A k \in 1..Len(bus') : bus'[k].kind = "report" => k + 1 = j + 1
      BY <2>2, <2>3 DEF Answering
    <3>4. \A j, k \in 1..Len(bus') : k + 1 = j + 1 => k = j
      OBVIOUS
    <3>5. \A j \in Int : Ahead(c, j)'
      BY <3>1 DEF Ahead
    <3>6. Ahead(c, Len(bus) + 1)'
      BY <3>1 DEF Ahead
    <3>7. \A j \in 1..Len(bus') : j \in Int
      OBVIOUS
    <3>8. QED
      BY <2>1, <3>1, <3>2, <3>3, <3>4, <3>5, <3>6, <3>7 DEF Answering
  <2>5. CASE bus[1].kind = "report"
    <3>1. "answered" \in cmd[c].at /\ Ahead(c, 1)
          /\ \A k \in 1..Len(bus) : bus[k].kind = "report" => k = 1
      BY <2>2, <2>3, <2>5 DEF Answering
    <3>2. pending = c
      BY <3>1 DEF Ahead
    <3>3. pending' = pending
          /\ bridge' = [at |-> IF record = NoRecord THEN "look" ELSE "write",
                        msg |-> bus[1], read |-> record]
      BY <1>8, <2>3, <2>5 DEF BridgeTakes
    <3>4. bridge'.msg.kind = "report"
      BY <2>5, <3>3
    <3>5. \A j \in 1..Len(bus') : bus'[j] = Command(c) /\ bus'[j].kind # "report"
      <4>1. \A j \in 1..Len(bus') : j + 1 # 1
        OBVIOUS
      <4>2. QED
        BY <1>3, <2>2, <2>3, <3>1, <4>1 DEF Answering
    <3>6. QED
      BY <2>1, <3>1, <3>2, <3>3, <3>4, <3>5 DEF Answering
  <2>6. QED
    BY <2>2, <2>3, <2>4, <2>5 DEF Answering
<1>9. CASE BridgeLooks
  <2>1. bridge \in InBridge /\ bridge # Idle
    BY <1>4, <1>9 DEF BridgeLooks, RecordOK
  <2>2. UNCHANGED <<cmd, bus, pending>>
    BY <1>9 DEF BridgeLooks
  <2>3. bridge' = Idle \/ bridge'.msg = bridge.msg
    BY <1>9, <2>1 DEF BridgeLooks, InBridge
  <2>4. Answering(c)
    BY <1>5, <2>2
  <2>5. QED
    BY <2>1, <2>2, <2>3, <2>4 DEF Answering, Ahead
<1>10. CASE BridgeUnregisters
  <2>1. bridge # Idle /\ bridge.msg.kind # "report" /\ cmd' = cmd
    BY <1>4, <1>10 DEF BridgeUnregisters
  <2>2. QED
    BY <1>5, <2>1 DEF Answering
<1>11. ASSUME NEW d \in Cmds, CommandDevice(d)
       PROVE  Answering(c)'
  <2>1. /\ cmd'[d].at = {"sent"} /\ cmd[d].at = {}
        /\ \A e \in Cmds : e # d => cmd'[e] = cmd[e]
    BY <1>11, CmdSent
  <2>2. d = c /\ Only(c)
    BY <2>1 DEF Only
  <2>3. UNCHANGED <<bus, pending, bridge>>
    BY <1>11 DEF CommandDevice
  <2>4. QED
    BY <1>2, <2>1, <2>2, <2>3 DEF Answering, Ahead
<1>12. ASSUME NEW d \in Cmds, NEW way \in {"handler", "broker"},
              CommandArrives(d, way)
       PROVE  Answering(c)'
  <2>1. /\ cmd'[d].at = cmd[d].at \cup {way}
        /\ \A e \in Cmds : e # d => cmd'[e] = cmd[e]
    BY <1>12, CmdMoves DEF CommandArrives
  <2>2. d = c
    BY <2>1 DEF Only
  <2>3. Answering(c)
    BY <1>2, <2>1, <2>2 DEF Only
  <2>4. bus' = Append(bus, Command(c))
    BY <1>3, <1>12, <2>2, Arrived DEF CommandArrives
  <2>5. /\ Len(bus') = Len(bus) + 1 /\ bus'[Len(bus) + 1] = Command(c)
        /\ \A j \in 1..Len(bus) : bus'[j] = bus[j]
        /\ \A j \in 1..Len(bus') : j \in 1..Len(bus) \/ j = Len(bus) + 1
    BY <1>3, <2>4
  <2>6. UNCHANGED <<pending, bridge>>
        /\ ("answered" \in cmd'[c].at <=> "answered" \in cmd[c].at)
    BY <1>12, <2>1, <2>2 DEF CommandArrives
  <2>7. \A j \in 1..Len(bus') : bus'[j] = Command(c) \/ bus'[j].kind = "report"
    BY <2>3, <2>5 DEF Answering
  <2>8. Ahead(c, Len(bus) + 1)'
    <3>1. Len(bus) + 1 \in 1..((Len(bus') + 1) - 1)
      BY <1>3, <2>5
    <3>2. QED
      BY <2>5, <3>1 DEF Ahead
  <2>9. ASSUME NEW j \in 1..Len(bus'), bus'[j].kind = "report"
        PROVE  /\ "answered" \in cmd'[c].at /\ bridge' = Idle /\ Ahead(c, j)'
               /\ \A k \in 1..Len(bus') : bus'[k].kind = "report" => k = j
    <3>1. j \in 1..Len(bus) /\ bus[j].kind = "report"
      BY <1>3, <2>5, <2>9
    <3>2. /\ "answered" \in cmd[c].at /\ bridge = Idle /\ Ahead(c, j)
          /\ \A k \in 1..Len(bus) : bus[k].kind = "report" => k = j
      BY <2>3, <3>1 DEF Answering
    <3>3. Ahead(c, j)'
      BY <1>3, <2>5, <2>6, <3>1, <3>2 DEF Ahead
    <3>4. \A k \in 1..Len(bus') : bus'[k].kind = "report" => k \in 1..Len(bus)
      BY <1>3, <2>5
    <3>5. QED
      BY <2>5, <2>6, <3>2, <3>3, <3>4
  <2>10. bridge' # Idle => /\ bridge'.msg.kind = "report" /\ pending' = c
                           /\ "answered" \in cmd'[c].at
    BY <2>3, <2>6 DEF Answering
  <2>11. QED
    BY <2>7, <2>8, <2>9, <2>10 DEF Answering
<1>13. ASSUME NEW d \in Cmds, NEW v \in Values, DeviceAnswers(d, v)
       PROVE  Answering(c)'
  <2>1. /\ cmd'[d].at = cmd[d].at \cup {"answered"}
        /\ \A e \in Cmds : e # d => cmd'[e] = cmd[e]
    BY <1>13, CmdMoves DEF DeviceAnswers
  <2>2. d = c
    BY <2>1 DEF Only
  <2>3. Answering(c)
    BY <1>2, <2>1, <2>2 DEF Only
  <2>4. PICK m \in BusMessage : m = Answer(c, v) /\ m.kind = "report"
    BY AnswerIn
  <2>5. bus' = Append(bus, m)
    BY <1>3, <1>13, <2>2, <2>4, Arrived DEF DeviceAnswers, Answer
  <2>6. "broker" \in cmd[c].at /\ "answered" \notin cmd[c].at
        /\ "answered" \in cmd'[c].at /\ UNCHANGED <<pending, bridge>>
    BY <1>13, <2>1, <2>2 DEF DeviceAnswers
  <2>7. /\ Len(bus') = Len(bus) + 1 /\ bus'[Len(bus) + 1] = m
        /\ \A j \in 1..Len(bus) : bus'[j] = bus[j]
        /\ \A j \in 1..Len(bus') : j \in 1..Len(bus) \/ j = Len(bus) + 1
    BY <1>3, <2>5
  <2>8. /\ bridge = Idle /\ Ahead(c, Len(bus) + 1)
        /\ \A j \in 1..Len(bus) : bus[j].kind # "report"
    BY <2>3, <2>6 DEF Answering
  <2>9. \A j \in 1..Len(bus') : bus'[j].kind = "report" => j = Len(bus) + 1
    BY <2>7, <2>8
  <2>10. \A j \in 1..Len(bus') : bus'[j] = Command(c) \/ bus'[j].kind = "report"
    BY <2>3, <2>4, <2>7 DEF Answering
  <2>11. PICK n \in Nat : n = Len(bus) + 1
    BY <1>3
  <2>12. Ahead(c, n)'
    BY <1>3, <2>6, <2>7, <2>8, <2>11 DEF Ahead
  <2>13. \A j \in 1..Len(bus') : bus'[j].kind = "report" => j = n
    BY <2>9, <2>11
  <2>14. QED
    BY <2>6, <2>8, <2>10, <2>12, <2>13 DEF Answering
<1>14. CASE SecondPasses
  <2>1. \A d \in Cmds : cmd'[d].at = cmd[d].at
    BY <1>14, CmdAges DEF SecondPasses
  <2>2. QED
    BY <1>6, <1>14, <2>1 DEF SecondPasses
<1>15. ASSUME NEW m \in Messages, PluginPublishes(m) PROVE FALSE
  BY <1>15 DEF PluginPublishes
<1>16. CASE UNCHANGED <<cmd, bus, pending, bridge>>
  BY <1>6, <1>16
<1>17. QED
  BY <1>7, <1>8, <1>9, <1>10, <1>11, <1>12, <1>13, <1>14, <1>15, <1>16,
     RecordSteps
     DEF PatchReads, Patched, RemovalLists, RemovalRemembers,
         RemovalDeletes, BringBack, EngineHears, EngineFires, TaskWakes,
         allVars, recordVars, recordState

(* The answer to the only command to a device, when it comes in time and    *)
(* the device says nothing else, is put down to the command, whichever way  *)
(* the command reaches the bridge first.                                    *)
THEOREM AnswerIsCredited == HomeSpec => AnswerCredited
<1>1. HomeInit => CommandAhead
  <2> SUFFICES ASSUME HomeInit, NEW c \in Cmds PROVE Answering(c)
    BY DEF CommandAhead
  <2>1. bus = <<>> /\ bridge = Idle /\ cmd = [d \in Cmds |-> [at |-> {}, age |-> 0]]
    BY DEF HomeInit, RecordsInit
  <2>2. Len(bus) = 0 /\ cmd[c].at = {}
    BY <2>1
  <2>3. QED
    BY <2>1, <2>2 DEF Answering
<1>2. RecordsTypeOK /\ CommandAhead /\ [HomeNext]_allVars => CommandAhead'
  BY CommandAheadStep
<1>3. RecordsTypeOK /\ CommandAhead /\ [HomeNext]_allVars =>
         [bridge # Idle /\ bridge'.at = "idle" /\ record' # record
            /\ bridge.msg.kind = "report" /\ bridge.msg.answers # NoCmd
            /\ ~ lost /\ ~ reported
            /\ cmd[bridge.msg.answers].age <= CreditSecs
            /\ (\A c \in Cmds : c = bridge.msg.answers \/ cmd[c].at = {})
            => record'.change = bridge.msg.answers]_allVars
  <2> SUFFICES ASSUME RecordsTypeOK, CommandAhead, [HomeNext]_allVars,
                      bridge # Idle, bridge'.at = "idle", record' # record,
                      bridge.msg.kind = "report", bridge.msg.answers # NoCmd,
                      ~ lost, ~ reported,
                      cmd[bridge.msg.answers].age <= CreditSecs,
                      \A c \in Cmds : c = bridge.msg.answers \/ cmd[c].at = {}
               PROVE  record'.change = bridge.msg.answers
    OBVIOUS
  <2>1. bridge \in InBridge /\ bridge.at # "idle"
    BY DEF RecordsTypeOK, RecordOK, InBridge
  <2>2. PICK m \in BusMessage : m = bridge.msg
    BY <2>1 DEF InBridge
  <2>3. m.answers \in Cmds /\ m.explicit = "none"
    BY <2>2, MessageFields
  <2>4. pending = m.answers
    BY <2>2, <2>3 DEF CommandAhead, Only, Answering
  <2>5. Fresh(pending)
    BY <2>2, <2>4 DEF Fresh
  <2>6. Change(m) = m.answers
    BY <2>3, <2>4, <2>5 DEF Change
  <2>7. CASE Rewrites
    BY <2>2, <2>6, <2>7 DEF Rewrites, Written
  <2>8. CASE UNCHANGED bridge \/ UNCHANGED record
    BY <2>1, <2>8
  <2>9. CASE BridgeUnregisters
    BY <2>9 DEF BridgeUnregisters
  <2>10. QED
    BY <2>7, <2>8, <2>9, RecordSteps
       DEF BridgeTakes, BridgeLooks, PatchReads, Patched, RemovalLists,
           RemovalRemembers, RemovalDeletes, BringBack, PluginPublishes,
           CommandDevice, CommandArrives, DeviceAnswers, EngineHears,
           EngineFires, TaskWakes, SecondPasses, allVars, recordVars, recordState
<1>4. QED
  BY <1>1, <1>2, <1>3, RecordTypes, PTL DEF HomeSpec, AnswerCredited
=============================================================================
