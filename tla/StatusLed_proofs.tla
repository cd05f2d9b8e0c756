-------------------------- MODULE StatusLed_proofs --------------------------
(***************************************************************************)
(* Proofs about LedStrobe, for every table of periods that fits a byte,    *)
(* and about StatusLed: the composition is a LedStrobe and, until the      *)
(* station is up and after it, a MqttSession, so that what is proved of    *)
(* each holds of both together.                                            *)
(***************************************************************************)
EXTENDS StatusLed, SequenceTheorems, TLAPS

-----------------------------------------------------------------------------
(* The LED alone.                                                          *)

(* The time left never exceeds the period of the speed it was loaded for.  *)
TimerInPeriod == timerCnt <= Period[lastStrobeSpeed]

(* The types of the counters, apart from those of the flags.               *)
CountersOK ==
    /\ StrobeSpeed \in Speeds /\ lastStrobeSpeed \in Speeds
    /\ timerCnt \in Nat /\ still \in Nat

IInv == CountersOK /\ TimerInPeriod /\ BlinksInTime

FlagsOK ==
    /\ LedState \in {"on", "off"} /\ lastLedState \in {"on", "off"}
    /\ revFlag \in BOOLEAN /\ level \in {0, 1}

(* Every period is a byte, that of LED_STROBE_DISABLE is 0.                *)
LEMMA Periods == /\ \A s \in Speeds : Period[s] \in Nat /\ Period[s] <= 255
                 /\ 0 \in Speeds /\ Period[0] = 0
BY PeriodAssumption DEF Speeds

(* The invariant holds at boot.                                            *)
LEMMA InitInv == Init => IInv /\ FlagsOK
<1> SUFFICES ASSUME Init PROVE IInv /\ FlagsOK
  OBVIOUS
<1>1. CountersOK /\ TimerInPeriod
  BY Periods DEF Init, CountersOK, TimerInPeriod
<1>2. BlinksInTime
  BY Periods DEF Init, BlinksInTime, CurrentTimer
<1>3. FlagsOK
  BY DEF Init, FlagsOK
<1> QED BY <1>1, <1>2, <1>3 DEF IInv

(* A change of speed starts the count of still scans again; the time left  *)
(* will be shortened to the new period by the next scan.                   *)
LEMMA SetStrobeStep ==
    ASSUME IInv, NEW speed \in Speeds, SetStrobe(speed) PROVE IInv'
<1> USE Periods DEF SetStrobe, IInv
<1>1. CountersOK'
  BY DEF CountersOK
<1>2. TimerInPeriod'
  BY DEF TimerInPeriod
<1>3. BlinksInTime'
  <2>1. CASE speed = StrobeSpeed
    BY <2>1 DEF BlinksInTime, CurrentTimer
  <2>2. CASE speed # StrobeSpeed
    BY <2>2 DEF BlinksInTime, CurrentTimer, TimerInPeriod, CountersOK
  <2> QED BY <2>1, <2>2
<1> QED BY <1>1, <1>2, <1>3

(* A scan that changes nothing, changes the LED or counts down keeps the   *)
(* invariant.                                                              *)
LEMMA ScanStep == ASSUME IInv, Scan PROVE IInv'
<1> USE Periods
<1>0. StrobeSpeed' = StrobeSpeed
  BY DEF Scan
<1>t. /\ CurrentTimer \in Nat
      /\ CurrentTimer <= Period[StrobeSpeed]
  BY DEF IInv, CountersOK, TimerInPeriod, CurrentTimer
<1>1. CASE Steady
  BY <1>0, <1>1 DEF Steady, IInv, CountersOK, TimerInPeriod, BlinksInTime, CurrentTimer
<1>2. CASE Change
  <2>1. /\ timerCnt' = Period[StrobeSpeed] /\ still' = 0
        /\ lastStrobeSpeed' = StrobeSpeed
    BY <1>2 DEF Change
  <2>2. CountersOK' /\ TimerInPeriod'
    BY <1>0, <2>1 DEF IInv, CountersOK, TimerInPeriod
  <2>3. BlinksInTime'
    BY <1>0, <2>1 DEF IInv, CountersOK, BlinksInTime, CurrentTimer
  <2> QED BY <2>2, <2>3 DEF IInv
<1>3. CASE Stay
  <2>1. /\ timerCnt' = CurrentTimer - 1 /\ still' = still + 1
        /\ lastStrobeSpeed' = StrobeSpeed
        /\ CurrentTimer # 0 /\ Period[StrobeSpeed] # 0
    BY <1>3 DEF Stay
  <2>2. CountersOK' /\ TimerInPeriod'
    BY <1>0, <1>t, <2>1 DEF IInv, CountersOK, TimerInPeriod
  <2>3. CurrentTimer' = CurrentTimer - 1
    BY <1>0, <2>1 DEF CurrentTimer
  <2>4. BlinksInTime'
    BY <1>0, <1>t, <2>1, <2>3 DEF IInv, CountersOK, BlinksInTime
  <2> QED BY <2>2, <2>4 DEF IInv
<1> QED BY <1>1, <1>2, <1>3 DEF Scan

(* Every step keeps the invariant.                                         *)
LEMMA InvStep == IInv /\ [Next]_vars => IInv'
<1> SUFFICES ASSUME IInv, [Next]_vars PROVE IInv'
  OBVIOUS
<1>1. CASE UNCHANGED vars
  BY <1>1 DEF vars, IInv, CountersOK, TimerInPeriod, BlinksInTime, CurrentTimer
<1> QED BY <1>1, SetStrobeStep, ScanStep DEF Next

(* Every step keeps the types of the flags.                                *)
LEMMA FlagsStep == FlagsOK /\ [Next]_vars => FlagsOK'
<1> SUFFICES ASSUME FlagsOK, [Next]_vars PROVE FlagsOK'
  OBVIOUS
<1> USE DEF FlagsOK
<1>1. CASE UNCHANGED vars
  BY <1>1 DEF vars
<1>2. ASSUME NEW speed \in Speeds, SetStrobe(speed) PROVE FlagsOK'
  BY <1>2 DEF SetStrobe
<1>3. CASE Scan
  <2>1. LedState' \in {"on", "off"} /\ revFlag' \in BOOLEAN
    BY <1>3, Zenon DEF Scan, Steady, Change, Stay
  <2>2. lastLedState' = LedState' /\ level' \in {0, 1}
    BY <1>3 DEF Scan, Drive
  <2> QED BY <2>1, <2>2
<1> QED BY <1>1, <1>2, <1>3 DEF Next

(* The LED never stays on or off for longer than the period of the speed   *)
(* it has been given, whatever the sequence of speeds.                     *)
THEOREM LedBlinksInTime == Spec => []BlinksInTime
<1>1. IInv => BlinksInTime
  BY DEF IInv
<1> QED BY <1>1, InitInv, InvStep, PTL DEF Spec

(* The type invariant of LedStrobe holds of every behaviour: the countdown *)
(* fits the byte of the code.                                              *)
THEOREM LedTypeCorrect == Spec => []TypeOK
<1>1. IInv /\ FlagsOK => TypeOK
  <2> SUFFICES ASSUME IInv, FlagsOK PROVE TypeOK
    OBVIOUS
  <2>1. timerCnt <= 255
    BY Periods DEF IInv, CountersOK, TimerInPeriod
  <2>2. timerCnt \in 0..255
    BY <2>1 DEF IInv, CountersOK
  <2> QED BY <2>2 DEF IInv, CountersOK, FlagsOK, TypeOK
<1> QED BY <1>1, InitInv, InvStep, FlagsStep, PTL DEF Spec

-----------------------------------------------------------------------------
(* The session alone.                                                      *)

(* What a link leaves in the queue while it lasts, and once it is lost.    *)
Open   == {<<>>, <<"connected">>, <<"got_ip">>,
           <<"connected", "got_ip">>, <<"got_ip", "got_ip">>}
Short  == {<<>>, <<"connected">>, <<"got_ip">>}
Closed == {<<"down", "lost">>, <<"connected", "down", "lost">>,
           <<"got_ip", "down", "lost">>, <<"connected", "got_ip", "down", "lost">>,
           <<"got_ip", "got_ip", "down", "lost">>}
Unlink == <<"down", "lost">>
Lost   == <<"lost">>

Working      == IF losing THEN Lost ELSE <<>>
Connected(q) == q # <<>> /\ Head(q) = "connected"
First(s, t)  == IF s = <<>> THEN t ELSE s

Joined(w, s, m, t) == w \o (s \o (m \o t))

(* The queue is, after the event being handled, what is left of a lost     *)
(* link (s), all of another (m), and what there is of the present one (t). *)
Parts(s, m, t) ==
    /\ s \in Closed \cup {<<>>, Lost} /\ m \in Closed \cup {<<>>} /\ t \in Open
    /\ events = Joined(Working, s, m, t)

(* There are two requests to connect at most, of which a lost link that    *)
(* has not been handled and one that is being had or has come up hold one  *)
(* each; SmartConfig listens again when there is one.  A link gets one     *)
(* address for each time a station was connected, and an address is gone   *)
(* before its link is connected again.                                     *)
Rules(s, m, t) ==
    /\ wifi # "linked" => t = <<>>
    /\ s = <<>> => m = <<>> /\ (wifi # "linked" => netif = "down")
    /\ s # <<>> => (smart \in {"listen", "apply"} => wifi = "idle")
    /\ m # <<>> => wifi = "idle" /\ smart \notin {"listen", "apply"}
    /\ losing \/ s = Lost => netif = "down"
    /\ netif = "dhcp" \/ Connected(s) => t \in Short
    /\ netif # "down" => ~Connected(First(s, t))
    /\ losing /\ s # <<>> => t \in Short /\ Len(m) <= 3

Queues ==
    /\ wifi \in {"idle", "trying", "linked"} /\ losing \in BOOLEAN
    /\ \E s, m, t : Parts(s, m, t) /\ Rules(s, m, t)

(* The names of the events are in one set, for the lemmas on sequences.    *)
Names == {"connected", "got_ip", "down", "lost"}

(* Heads, tails and lengths of the sequences that occur.                   *)
LEMMA Heads ==
    ASSUME NEW a, NEW b, NEW c, NEW d
    PROVE  /\ Head(<<a>>) = a /\ Tail(<<a>>) = <<>> /\ Len(<<a>>) = 1
           /\ Head(<<a, b>>) = a /\ Tail(<<a, b>>) = <<b>> /\ Len(<<a, b>>) = 2
           /\ Head(<<a, b, c>>) = a /\ Tail(<<a, b, c>>) = <<b, c>>
           /\ Len(<<a, b, c>>) = 3
           /\ Head(<<a, b, c, d>>) = a /\ Tail(<<a, b, c, d>>) = <<b, c, d>>
           /\ Len(<<a, b, c, d>>) = 4
OBVIOUS

LEMMA InNames ==
    ASSUME NEW a \in Names, NEW b \in Names, NEW c \in Names, NEW d \in Names
    PROVE  /\ <<a>> \in Seq(Names) /\ <<a, b>> \in Seq(Names)
           /\ <<a, b, c>> \in Seq(Names) /\ <<a, b, c, d>> \in Seq(Names)
<1> USE DEF Names
<1> QED OBVIOUS

(* Appending an event.                                                     *)
LEMMA Appends ==
    ASSUME NEW S, NEW a \in S, NEW b \in S
    PROVE  Append(<<>>, a) = <<a>> /\ Append(<<a>>, b) = <<a, b>>
<1> DEFINE s == Append(<<a>>, b)
           t == <<a, b>>
<1>1. Append(<<>>, a) = <<a>>
  OBVIOUS
<1>2. s \in Seq(S) /\ t \in Seq(S) /\ Len(s) = 2 /\ Len(t) = 2
  OBVIOUS
<1>3. s[1] = t[1] /\ s[2] = t[2]
  OBVIOUS
<1> HIDE DEF s, t
<1>4. s = t
  BY <1>2, <1>3, SeqEqual
<1> QED BY <1>1, <1>4 DEF s, t

(* Appending the two events of a lost link, to one event.                  *)
LEMMA ConcatenationToOne ==
    ASSUME NEW S, NEW a \in S, NEW c \in S, NEW d \in S
    PROVE  <<a>> \o <<c, d>> = <<a, c, d>>
<1> DEFINE s == <<a>> \o <<c, d>>
           t == <<a, c, d>>
<1>1. s \in Seq(S) /\ t \in Seq(S) /\ Len(s) = 3 /\ Len(t) = 3
  OBVIOUS
<1>2. s[1] = t[1] /\ s[2] = t[2] /\ s[3] = t[3]
  OBVIOUS
<1> HIDE DEF s, t
<1>3. s = t
  BY <1>1, <1>2, SeqEqual
<1> QED BY <1>3 DEF s, t

(* The same, to two events and to none.                                    *)
LEMMA Concatenations ==
    ASSUME NEW S, NEW a \in S, NEW b \in S, NEW c \in S, NEW d \in S
    PROVE  <<a, b>> \o <<c, d>> = <<a, b, c, d>> /\ <<>> \o <<c, d>> = <<c, d>>
<1> DEFINE s == <<a, b>> \o <<c, d>>
           t == <<a, b, c, d>>
<1>1. s \in Seq(S) /\ t \in Seq(S) /\ Len(s) = 4 /\ Len(t) = 4
  OBVIOUS
<1>2. s[1] = t[1] /\ s[2] = t[2] /\ s[3] = t[3] /\ s[4] = t[4]
  OBVIOUS
<1>3. <<c, d>> \in Seq(S)
  OBVIOUS
<1> HIDE DEF s, t
<1>4. s = t
  BY <1>1, <1>2, SeqEqual
<1> QED BY <1>3, <1>4, ConcatEmptySeq DEF s, t

(* The first of several parts is the one that is handled.                  *)
LEMMA HeadOfParts ==
    ASSUME NEW q \in Seq(Names), NEW r \in Seq(Names), q # <<>>
    PROVE  /\ q \o r # <<>>
           /\ Head(q \o r) = Head(q) /\ Tail(q \o r) = Tail(q) \o r
<1> DEFINE x == Tail(q \o r)
           y == Tail(q) \o r
<1>0. q \o r # <<>>
  BY ConcatEqualIffEmpty
<1>1. q \o r \in Seq(Names) /\ Tail(q) \in Seq(Names) /\ Len(q) \in Nat \ {0}
      /\ Len(r) \in Nat
  BY EmptySeq, ConcatProperties, HeadTailProperties, LenProperties
<1>2. Head(q \o r) = Head(q)
  BY <1>1, ConcatProperties
<1>3. x \in Seq(Names) /\ y \in Seq(Names)
  BY <1>0, <1>1, HeadTailProperties, ConcatProperties
<1>4. Len(x) = Len(q) + Len(r) - 1 /\ Len(y) = Len(q) - 1 + Len(r)
  BY <1>0, <1>1, HeadTailProperties, ConcatProperties
<1>5. ASSUME NEW i \in 1..Len(x) PROVE x[i] = y[i]
  <2>1. i \in Nat /\ i + 1 \in 1..(Len(q) + Len(r)) /\ i \in 1..(Len(Tail(q)) + Len(r))
        /\ Len(Tail(q)) = Len(q) - 1
    BY <1>0, <1>1, <1>4, <1>5, HeadTailProperties
  <2>2. x[i] = (q \o r)[i + 1]
    BY <1>0, <1>1, <1>5, HeadTailProperties
  <2>3. x[i] = IF i + 1 <= Len(q) THEN q[i + 1] ELSE r[i + 1 - Len(q)]
    BY <2>1, <2>2, ConcatProperties
  <2>4. y[i] = IF i <= Len(q) - 1 THEN Tail(q)[i] ELSE r[i - (Len(q) - 1)]
    BY <1>1, <2>1, ConcatProperties
  <2>5. CASE i + 1 <= Len(q)
    <3>1. Tail(q)[i] = q[i + 1]
      BY <2>1, <2>5, <1>1, HeadTailProperties
    <3> QED BY <1>1, <2>1, <2>3, <2>4, <2>5, <3>1
  <2>6. CASE ~(i + 1 <= Len(q))
    BY <1>1, <2>1, <2>3, <2>4, <2>6
  <2> QED BY <2>5, <2>6
<1> HIDE DEF x, y
<1>6. x = y
  BY <1>1, <1>3, <1>4, <1>5, SeqEqual
<1> QED BY <1>0, <1>2, <1>6 DEF x, y

LEMMA NamesIn == /\ "connected" \in Names /\ "got_ip" \in Names
                 /\ "down" \in Names /\ "lost" \in Names
BY DEF Names

(* The events of a link that lasts.                                        *)
LEMMA OpenFacts ==
    ASSUME NEW t \in Open
    PROVE  /\ t \in Seq(Names) /\ Len(t) <= 2 /\ Len(t) \in Nat
           /\ t # <<>> => /\ Head(t) \in {"connected", "got_ip"}
                          /\ Tail(t) \in Short /\ ~Connected(Tail(t))
<1>1. CASE t = <<>> BY <1>1, EmptySeq
<1>2. CASE t = <<"connected">> BY <1>2, Heads, InNames, NamesIn DEF Connected, Short
<1>3. CASE t = <<"got_ip">> BY <1>3, Heads, InNames, NamesIn DEF Connected, Short
<1>4. CASE t = <<"connected", "got_ip">>
  BY <1>4, Heads, InNames, NamesIn DEF Connected, Short
<1>5. CASE t = <<"got_ip", "got_ip">>
  BY <1>5, Heads, InNames, NamesIn DEF Connected, Short
<1> QED BY <1>1, <1>2, <1>3, <1>4, <1>5 DEF Open

(* The same when one more address can still come.                          *)
LEMMA ShortFacts ==
    ASSUME NEW t \in Short
    PROVE  /\ t \in Open /\ Len(t) <= 1
           /\ Append(t, "got_ip") \in Open
           /\ Connected(Append(t, "got_ip")) <=> Connected(t)
<1>1. CASE t = <<>>
  <2>1. Append(t, "got_ip") = <<"got_ip">>
    BY <1>1, Appends, NamesIn
  <2> QED BY <1>1, <2>1, Heads, EmptySeq DEF Connected, Open
<1>2. CASE t = <<"connected">>
  <2>1. Append(t, "got_ip") = <<"connected", "got_ip">>
    BY <1>2, Appends, NamesIn
  <2> QED BY <1>2, <2>1, Heads DEF Connected, Open
<1>3. CASE t = <<"got_ip">>
  <2>1. Append(t, "got_ip") = <<"got_ip", "got_ip">>
    BY <1>3, Appends, NamesIn
  <2> QED BY <1>3, <2>1, Heads DEF Connected, Open
<1> QED BY <1>1, <1>2, <1>3 DEF Short

(* The events of a link that is lost.                                      *)
LEMMA ClosedFacts ==
    ASSUME NEW q \in Closed
    PROVE  /\ q \in Seq(Names) /\ Len(q) <= 4 /\ Len(q) \in Nat
           /\ q # <<>> /\ q # Lost /\ Head(q) \in {"connected", "got_ip", "down"}
           /\ Head(q) = "down" => Tail(q) = Lost
           /\ Head(q) # "down" => Tail(q) \in Closed /\ ~Connected(Tail(q))
<1>0. Lost \in Seq(Names) /\ Len(Lost) = 1 /\ Head(Lost) = "lost"
  BY Heads, InNames, NamesIn DEF Lost
<1>1. CASE q = <<"down", "lost">>
  BY <1>0, <1>1, Heads, InNames, NamesIn DEF Lost
<1>2. CASE q = <<"connected", "down", "lost">>
  BY <1>0, <1>2, Heads, InNames, NamesIn DEF Lost, Closed, Connected
<1>3. CASE q = <<"got_ip", "down", "lost">>
  BY <1>0, <1>3, Heads, InNames, NamesIn DEF Lost, Closed, Connected
<1>4. CASE q = <<"connected", "got_ip", "down", "lost">>
  BY <1>0, <1>4, Heads, InNames, NamesIn DEF Lost, Closed, Connected
<1>5. CASE q = <<"got_ip", "got_ip", "down", "lost">>
  BY <1>0, <1>5, Heads, InNames, NamesIn DEF Lost, Closed, Connected
<1> QED BY <1>1, <1>2, <1>3, <1>4, <1>5 DEF Closed

(* What losing a link adds.                                                *)
LEMMA UnlinkFacts ==
    ASSUME NEW t \in Open
    PROVE  /\ t \o Unlink \in Closed
           /\ Connected(t \o Unlink) <=> Connected(t)
           /\ t \in Short => Len(t \o Unlink) <= 3
<1>0. 2 <= 3 /\ 3 <= 3
  OBVIOUS
<1>1. CASE t = <<>>
  <2>1. t \o Unlink = <<"down", "lost">>
    BY <1>1, Concatenations, NamesIn DEF Unlink
  <2>2. Len(<<"down", "lost">>) = 2 /\ ~Connected(<<"down", "lost">>) /\ ~Connected(t)
    BY <1>1, Heads DEF Connected
  <2>3. <<"down", "lost">> \in Closed
    BY DEF Closed
  <2> QED BY <1>0, <2>1, <2>2, <2>3, Zenon
<1>2. CASE t = <<"connected">>
  <2>1. t \o Unlink = <<"connected", "down", "lost">>
    BY <1>2, ConcatenationToOne, NamesIn DEF Unlink
  <2>2. /\ Len(<<"connected", "down", "lost">>) = 3 /\ Connected(t)
        /\ Connected(<<"connected", "down", "lost">>)
    BY <1>2, Heads DEF Connected
  <2>3. <<"connected", "down", "lost">> \in Closed
    BY DEF Closed
  <2> QED BY <1>0, <2>1, <2>2, <2>3, Zenon
<1>3. CASE t = <<"got_ip">>
  <2>1. t \o Unlink = <<"got_ip", "down", "lost">>
    BY <1>3, ConcatenationToOne, NamesIn DEF Unlink
  <2>2. /\ Len(<<"got_ip", "down", "lost">>) = 3 /\ ~Connected(t)
        /\ ~Connected(<<"got_ip", "down", "lost">>)
    BY <1>3, Heads DEF Connected
  <2>3. <<"got_ip", "down", "lost">> \in Closed
    BY DEF Closed
  <2> QED BY <1>0, <2>1, <2>2, <2>3, Zenon
<1>4. CASE t = <<"connected", "got_ip">>
  <2>1. t \o Unlink = <<"connected", "got_ip", "down", "lost">>
    BY <1>4, Concatenations, NamesIn DEF Unlink
  <2>2. t \notin Short
    BY <1>4, Heads, EmptySeq DEF Short
  <2> QED BY <1>4, <2>1, <2>2, Heads DEF Connected, Closed
<1>5. CASE t = <<"got_ip", "got_ip">>
  <2>1. t \o Unlink = <<"got_ip", "got_ip", "down", "lost">>
    BY <1>5, Concatenations, NamesIn DEF Unlink
  <2>2. t \notin Short
    BY <1>5, Heads, EmptySeq DEF Short
  <2> QED BY <1>5, <2>1, <2>2, Heads DEF Connected, Closed
<1> QED BY <1>1, <1>2, <1>3, <1>4, <1>5 DEF Open

(* Concatenating four parts is done from the right.                       *)
LEMMA Associative ==
    ASSUME NEW a \in Seq(Names), NEW b \in Seq(Names), NEW q \in Seq(Names)
    PROVE  (a \o b) \o q = a \o (b \o q)
<1> DEFINE N == Names
<1>1. a \in Seq(N) /\ b \in Seq(N) /\ q \in Seq(N)
  OBVIOUS
<1> HIDE DEF N
<1> QED BY <1>1, ConcatAssociative, SMT

(* They are a sequence of names, as long as all of them; the last of them  *)
(* takes the place of an empty one.                                        *)
LEMMA JoinedParts ==
    ASSUME NEW w \in Seq(Names), NEW s \in Seq(Names), NEW m \in Seq(Names),
           NEW t \in Seq(Names)
    PROVE  /\ Joined(w, s, m, t) \in Seq(Names)
           /\ Len(Joined(w, s, m, t)) = Len(w) + Len(s) + Len(m) + Len(t)
           /\ Joined(w, s, m, t) = <<>> => s = <<>>
<1>1. PICK x : x = m \o t
  OBVIOUS
<1>2. x \in Seq(Names) /\ Len(x) = Len(m) + Len(t)
  BY <1>1, ConcatProperties
<1>3. PICK y : y = s \o x
  OBVIOUS
<1>4. y \in Seq(Names) /\ Len(y) = Len(s) + Len(x)
  BY ONLY <1>2, <1>3, ConcatProperties, s \in Seq(Names)
<1>5. w \o y \in Seq(Names) /\ Len(w \o y) = Len(w) + Len(y)
  BY ONLY <1>4, ConcatProperties, w \in Seq(Names)
<1>6. Joined(w, s, m, t) = w \o y
  BY <1>1, <1>3, Zenon DEF Joined
<1>7. w \o y = <<>> => y = <<>>
  BY ONLY <1>4, ConcatEqualIffEmpty, w \in Seq(Names)
<1>8. s \o x = <<>> => s = <<>>
  BY ONLY <1>2, ConcatEqualIffEmpty, s \in Seq(Names)
<1>9. /\ Len(w) \in Nat /\ Len(s) \in Nat /\ Len(m) \in Nat /\ Len(t) \in Nat
  BY LenProperties
<1>10. Len(w) + Len(y) = Len(w) + Len(s) + Len(m) + Len(t)
  BY <1>2, <1>4, <1>9
<1> QED BY <1>3, <1>5, <1>6, <1>7, <1>8, <1>10, Zenon

LEMMA JoinedShifted ==
    ASSUME NEW w \in Seq(Names), NEW s \in Seq(Names), NEW u \in Seq(Names)
    PROVE  /\ Joined(<<>>, <<>>, <<>>, u) = u
           /\ Joined(w, <<>>, <<>>, u) = Joined(w, u, <<>>, <<>>)
           /\ Joined(w, s, <<>>, u) = Joined(w, s, u, <<>>)
           /\ Joined(<<>>, w, s, u) = Joined(w, s, <<>>, u)
<1>0. <<>> \in Seq(Names) /\ s \o u \in Seq(Names)
  BY EmptySeq, ConcatProperties
<1>1. <<>> \o u = u /\ u \o <<>> = u /\ <<>> \o <<>> = <<>>
  BY <1>0, ConcatEmptySeq
<1>2. <<>> \o (w \o (s \o u)) = w \o (s \o u)
  <2>1. w \o (s \o u) \in Seq(Names)
    BY <1>0, ConcatProperties
  <2> QED BY <2>1, ConcatEmptySeq
<1> QED BY <1>1, <1>2, Zenon DEF Joined

(* The first part that is not empty is handled first.                      *)
LEMMA JoinedHead ==
    ASSUME NEW w \in Seq(Names), NEW s \in Seq(Names), NEW m \in Seq(Names),
           NEW t \in Seq(Names)
    PROVE  /\ s # <<>> => /\ Joined(<<>>, s, m, t) # <<>>
                          /\ Head(Joined(<<>>, s, m, t)) = Head(s)
                          /\ Tail(Joined(<<>>, s, m, t)) = Joined(<<>>, Tail(s), m, t)
           /\ w # <<>> => /\ Head(Joined(w, s, m, t)) = Head(w)
                          /\ Tail(Joined(w, s, m, t)) = Joined(Tail(w), s, m, t)
<1>1. PICK x : x = m \o t
  OBVIOUS
<1>2. x \in Seq(Names)
  BY <1>1, ConcatProperties
<1>3. PICK y : y = s \o x
  OBVIOUS
<1>4. y \in Seq(Names)
  BY ONLY <1>2, <1>3, ConcatProperties, s \in Seq(Names)
<1>5. w # <<>> => Head(w \o y) = Head(w) /\ Tail(w \o y) = Tail(w) \o y
  BY ONLY <1>4, HeadOfParts, w \in Seq(Names)
<1>6. s # <<>> => /\ s \o x # <<>>
                  /\ Head(s \o x) = Head(s) /\ Tail(s \o x) = Tail(s) \o x
  BY ONLY <1>2, HeadOfParts, s \in Seq(Names)
<1>7. s # <<>> => Tail(s) \in Seq(Names)
  BY HeadTailProperties
<1>8. /\ <<>> \o (s \o x) = s \o x
      /\ s # <<>> => <<>> \o (Tail(s) \o x) = Tail(s) \o x
  <2>1. s \o x \in Seq(Names) /\ (s # <<>> => Tail(s) \o x \in Seq(Names))
    BY ONLY <1>2, <1>7, ConcatProperties, s \in Seq(Names)
  <2> QED BY <2>1, ConcatEmptySeq
<1> QED BY <1>1, <1>3, <1>5, <1>6, <1>8, Zenon DEF Joined

(* The parts and the queue are sequences of names.                         *)
LEMMA PartsAreSequences ==
    ASSUME NEW s, NEW m, NEW t, Parts(s, m, t)
    PROVE  /\ s \in Seq(Names) /\ m \in Seq(Names) /\ t \in Seq(Names)
           /\ Working \in Seq(Names) /\ events \in Seq(Names)
<1>0. Lost \in Seq(Names) /\ <<>> \in Seq(Names)
  BY InNames, NamesIn, EmptySeq DEF Lost
<1>1. s \in Seq(Names) /\ m \in Seq(Names) /\ t \in Seq(Names) /\ Working \in Seq(Names)
  BY <1>0, ClosedFacts, OpenFacts DEF Parts, Working
<1> QED BY <1>1, JoinedParts DEF Parts

(* Appending to the queue appends to its last part.                        *)
LEMMA AppendToParts ==
    ASSUME NEW s, NEW m, NEW t, Parts(s, m, t), NEW q \in Seq(Names)
    PROVE  events \o q = Joined(Working, s, m, t \o q)
<1>0. m \in Seq(Names) /\ t \in Seq(Names)
  BY PartsAreSequences
<1>s. s \in Seq(Names)
  BY PartsAreSequences
<1>w. Working \in Seq(Names)
  BY PartsAreSequences
<1>1. (m \o t) \o q = m \o (t \o q)
  BY ONLY <1>0, Associative, q \in Seq(Names)
<1>2. PICK x : x = m \o t
  OBVIOUS
<1>3. PICK y : y = s \o x
  OBVIOUS
<1>4. x \in Seq(Names)
  BY ONLY <1>0, <1>2, ConcatProperties
<1>5. y \in Seq(Names)
  BY ONLY <1>s, <1>3, <1>4, ConcatProperties
<1>6. (s \o x) \o q = s \o (x \o q)
  BY ONLY <1>s, <1>4, Associative, q \in Seq(Names)
<1>7. (Working \o y) \o q = Working \o (y \o q)
  BY ONLY <1>w, <1>5, Associative, q \in Seq(Names)
<1>8. events = Working \o (s \o (m \o t))
  BY DEF Parts, Joined
<1> QED BY <1>1, <1>2, <1>3, <1>6, <1>7, <1>8, Zenon DEF Joined

(* What is handled is the head of the first part.                          *)
LEMMA HandledPart ==
    ASSUME NEW s, NEW m, NEW t, Parts(s, m, t), Rules(s, m, t), ~losing
    PROVE  /\ s = <<>> => events = t /\ m = <<>>
           /\ s # <<>> => Head(events) = Head(s) /\ Tail(events) = Joined(Working, Tail(s), m, t)
<1>1. s \in Seq(Names) /\ m \in Seq(Names) /\ t \in Seq(Names) /\ <<>> \in Seq(Names)
  BY PartsAreSequences, EmptySeq
<1>2. Working = <<>> /\ events = Joined(<<>>, s, m, t)
  BY DEF Parts, Working
<1>3. s = <<>> => m = <<>>
  BY DEF Rules
<1>4. Joined(<<>>, <<>>, <<>>, t) = t
  BY ONLY <1>1, JoinedShifted
<1>5. s # <<>> => /\ Head(Joined(<<>>, s, m, t)) = Head(s)
                  /\ Tail(Joined(<<>>, s, m, t)) = Joined(<<>>, Tail(s), m, t)
  BY ONLY <1>1, JoinedHead
<1>6. CASE s = <<>>
  BY <1>2, <1>3, <1>4, <1>6, Zenon
<1>7. CASE s # <<>>
  BY <1>2, <1>5, <1>7, Zenon
<1> QED BY <1>6, <1>7

(* A step that leaves the queue and what the rules speak of alone.         *)
LEMMA KeptStep ==
    ASSUME Queues, UNCHANGED <<wifi, netif, smart, events, losing>>
    PROVE  Queues'
<1>1. PICK s, m, t : Parts(s, m, t) /\ Rules(s, m, t)
  BY DEF Queues
<1>2. Parts(s, m, t)' /\ Rules(s, m, t)'
  BY <1>1 DEF Parts, Rules, Working
<1> QED BY <1>2 DEF Queues

(* A link that is cut, is lost or could not be had: by the network, or by  *)
(* SmartConfig while there is one request.                                 *)
LEMMA UnlinkedStep ==
    ASSUME Queues, wifi \in {"trying", "linked"}, Session!Unlinked,
           losing' = losing, netif' = netif,
           smart' = smart \/ smart = "listen" \/ events = <<>>
    PROVE  Queues'
<1>1. PICK s, m, t : Parts(s, m, t) /\ Rules(s, m, t)
  BY DEF Queues
<1>s. s \in Seq(Names) /\ m \in Seq(Names) /\ t \in Seq(Names) /\ Working \in Seq(Names)
  BY <1>1, PartsAreSequences
<1>2. wifi' = "idle" /\ Working' = Working /\ events' = Joined(Working, s, m, t \o Unlink)
  <2>1. Unlink \in Seq(Names)
    BY InNames, NamesIn DEF Unlink
  <2>2. Working' = Working /\ events' = events \o Unlink /\ wifi' = "idle"
    BY DEF Session!Unlinked, Unlink, Working
  <2> QED BY <1>1, <2>1, <2>2, AppendToParts
<1>3. m = <<>> /\ t \in Open /\ s \in Closed \cup {<<>>, Lost}
  BY <1>1 DEF Parts, Rules
<1>4. s # <<>> => smart' = smart /\ smart \notin {"listen", "apply"}
  <2>1. events = <<>> => s = <<>>
    BY <1>1, <1>s, JoinedParts DEF Parts
  <2> QED BY <1>1, <2>1 DEF Rules
<1>5. PICK u : u = t \o Unlink
  OBVIOUS
<1>6. /\ u \in Closed /\ u \in Seq(Names) /\ u # <<>> /\ u # Lost
      /\ Connected(u) <=> Connected(t)
      /\ t \in Short => Len(u) <= 3
  BY <1>3, <1>5, UnlinkFacts, ClosedFacts
<1>7. <<>> \in Open /\ <<>> \in Short /\ <<>> \in Seq(Names) /\ Len(<<>>) = 0 /\ 0 <= 3
      /\ ~Connected(<<>>)
  BY EmptySeq DEF Open, Short, Connected
<1>8. CASE s = <<>>
  <2>1. events' = Joined(Working', u, <<>>, <<>>)
    BY <1>s, <1>2, <1>3, <1>5, <1>6, <1>8, JoinedShifted
  <2>2. Parts(u, <<>>, <<>>)'
    BY <1>6, <1>7, <2>1 DEF Parts
  <2>3. Rules(u, <<>>, <<>>)'
    BY <1>1, <1>2, <1>6, <1>7, <1>8 DEF Rules, First
  <2> QED BY <1>2, <2>2, <2>3 DEF Queues
<1>9. CASE s # <<>>
  <2>1. events' = Joined(Working', s, u, <<>>)
    BY <1>s, <1>2, <1>3, <1>5, <1>6, JoinedShifted
  <2>2. Parts(s, u, <<>>)'
    BY <1>3, <1>6, <1>7, <2>1 DEF Parts
  <2>3. Rules(s, u, <<>>)'
    BY <1>1, <1>2, <1>4, <1>6, <1>7, <1>9 DEF Rules, First
  <2> QED BY <1>2, <2>2, <2>3 DEF Queues
<1> QED BY <1>8, <1>9

(* The event being handled is the first in the queue.                      *)
LEMMA WorkedPart ==
    ASSUME NEW s, NEW m, NEW t, Parts(s, m, t), losing
    PROVE  Head(events) = "lost" /\ Tail(events) = Joined(<<>>, s, m, t)
<1>1. s \in Seq(Names) /\ m \in Seq(Names) /\ t \in Seq(Names)
  BY PartsAreSequences
<1>2. events = Joined(Lost, s, m, t)
  BY DEF Parts, Working
<1>3. Lost \in Seq(Names) /\ Lost # <<>> /\ Head(Lost) = "lost" /\ Tail(Lost) = <<>>
  BY Heads, InNames, NamesIn DEF Lost
<1>4. /\ Head(Joined(Lost, s, m, t)) = Head(Lost)
      /\ Tail(Joined(Lost, s, m, t)) = Joined(Tail(Lost), s, m, t)
  BY ONLY <1>1, <1>3, JoinedHead
<1> QED BY <1>2, <1>3, <1>4, Zenon

(* An event other than a loss is the first of its link.                    *)
LEMMA LinkEvent ==
    ASSUME NEW s, NEW m, NEW t, Parts(s, m, t), Rules(s, m, t),
           NEW e, e # "lost", Session!Handle(e)
    PROVE  /\ ~losing
           /\ s = <<>> => /\ m = <<>> /\ wifi = "linked" /\ e # "down"
                          /\ t \in Open /\ t # <<>> /\ Head(t) = e
                          /\ Tail(events) = Joined(Working, <<>>, <<>>, Tail(t))
           /\ s # <<>> => /\ s \in Closed /\ Head(s) = e
                          /\ Tail(events) = Joined(Working, Tail(s), m, t)
<1>1. events # <<>> /\ Head(events) = e
  BY DEF Session!Handle
<1>2. ~losing
  BY <1>1, WorkedPart
<1>3. s # <<>> => /\ s \in Closed /\ Head(s) = e
                  /\ Tail(events) = Joined(Working, Tail(s), m, t)
  <2>1. Head(Lost) = "lost"
    BY Heads DEF Lost
  <2> QED BY <1>1, <1>2, <2>1, HandledPart DEF Parts
<1>4. ASSUME s = <<>>
      PROVE  /\ m = <<>> /\ wifi = "linked" /\ e # "down"
             /\ t \in Open /\ t # <<>> /\ Head(t) = e
             /\ Tail(events) = Joined(Working, <<>>, <<>>, Tail(t))
  <2>1. events = t /\ m = <<>> /\ t \in Open
    BY <1>2, <1>4, HandledPart DEF Parts
  <2>2. t # <<>> /\ Head(t) = e /\ e # "down" /\ wifi = "linked"
    BY <1>1, <2>1, OpenFacts DEF Rules
  <2>3. Tail(t) \in Seq(Names)
    BY <2>1, <2>2, OpenFacts, ShortFacts
  <2>4. Joined(<<>>, <<>>, <<>>, Tail(t)) = Tail(t)
    BY ONLY <2>3, JoinedShifted, EmptySeq
  <2>5. Working = <<>>
    BY <1>2 DEF Working
  <2> QED BY <2>1, <2>2, <2>4, <2>5, Zenon
<1> QED BY <1>2, <1>3, <1>4

(* Handling it leaves the rest of its link.                                *)
LEMMA LinkEventStep ==
    ASSUME Queues, NEW e \in {"connected", "got_ip", "down"}, Session!Handle(e),
           events' = Tail(events), losing' = losing, wifi' = wifi, smart' = smart,
           netif' = IF e = "connected" THEN "dhcp"
                    ELSE IF e = "down" THEN "down" ELSE netif
    PROVE  Queues'
<1>1. PICK s, m, t : Parts(s, m, t) /\ Rules(s, m, t)
  BY DEF Queues
<1>2. /\ ~losing /\ Working' = Working /\ e # "lost"
      /\ s \in Closed \cup {<<>>, Lost} /\ m \in Closed \cup {<<>>} /\ t \in Open
      /\ wifi' \in {"idle", "trying", "linked"} /\ losing' \in BOOLEAN
  BY <1>1, LinkEvent DEF Parts, Queues, Working
<1>3. CASE s = <<>>
  <2> DEFINE u == Tail(t)
  <2>1. /\ m = <<>> /\ wifi = "linked" /\ e # "down" /\ t \in Open /\ t # <<>>
        /\ events' = Joined(Working, <<>>, <<>>, u)
    BY <1>1, <1>2, <1>3, LinkEvent
  <2>2. u \in Short /\ u \in Open /\ ~Connected(u) /\ ~Connected(<<>>)
    BY <2>1, OpenFacts, ShortFacts DEF Connected
  <2> HIDE DEF u
  <2>3. Parts(<<>>, <<>>, u)'
    BY <1>2, <2>1, <2>2 DEF Parts
  <2>4. Rules(<<>>, <<>>, u)'
    <3>1. Lost # <<>>
      BY Heads, EmptySeq DEF Lost
    <3> QED BY <1>1, <1>2, <1>3, <2>1, <2>2, <3>1 DEF Rules, First
  <2> QED BY <1>2, <2>3, <2>4 DEF Queues
<1>4. CASE s # <<>> /\ e # "down"
  <2> DEFINE u == Tail(s)
  <2>1. s \in Closed /\ Head(s) = e /\ events' = Joined(Working, u, m, t)
    BY <1>1, <1>2, <1>4, LinkEvent
  <2>2. u \in Closed /\ u # <<>> /\ u # Lost /\ ~Connected(u)
        /\ (e = "connected" => Connected(s))
    <3>1. u \in Closed /\ ~Connected(u)
      BY <1>4, <2>1, ClosedFacts
    <3> HIDE DEF u
    <3> QED BY <1>4, <2>1, <3>1, ClosedFacts DEF Connected
  <2> HIDE DEF u
  <2>3. Parts(u, m, t)'
    BY <1>2, <2>1, <2>2 DEF Parts
  <2>4. Rules(u, m, t)'
    BY <1>1, <1>2, <1>4, <2>1, <2>2 DEF Rules, First
  <2> QED BY <1>2, <2>3, <2>4 DEF Queues
<1>5. CASE s # <<>> /\ e = "down"
  <2>1. events' = Joined(Working, Lost, m, t)
    BY <1>1, <1>2, <1>5, LinkEvent, ClosedFacts
  <2>2. Lost # <<>> /\ ~Connected(Lost)
    BY Heads DEF Lost, Connected
  <2>3. Parts(Lost, m, t)'
    BY <1>2, <2>1 DEF Parts
  <2>4. Rules(Lost, m, t)'
    BY <1>1, <1>2, <1>5, <2>2 DEF Rules, First
  <2> QED BY <1>2, <2>3, <2>4 DEF Queues
<1> QED BY <1>3, <1>4, <1>5

(* A link that comes up, an address that comes.                            *)
LEMMA LinkStep == Queues /\ Session!Link => Queues'
<1> SUFFICES ASSUME Queues, Session!Link PROVE Queues'
  OBVIOUS
<1>1. PICK s, m, t : Parts(s, m, t) /\ Rules(s, m, t)
  BY DEF Queues
<1> DEFINE u == <<"connected">>
<1>2. /\ wifi = "trying" /\ wifi' = "linked" /\ UNCHANGED <<netif, smart, losing>>
      /\ events' = Append(events, "connected")
  BY DEF Session!Link
<1>3. t = <<>> /\ m = <<>> /\ s \in Closed \cup {<<>>, Lost} /\ Working' = Working
  BY <1>1, <1>2 DEF Parts, Rules, Working
<1>4. u \in Seq(Names) /\ u \in Open /\ u \in Short /\ <<>> \o u = u
  <2>1. u \in Seq(Names)
    BY InNames, NamesIn
  <2> QED BY <2>1, ConcatEmptySeq DEF Open, Short
<1>5. events' = Joined(Working', s, m, u)
  <2>1. events \in Seq(Names)
    BY <1>1, PartsAreSequences
  <2>2. events' = events \o u
    BY <1>2, <2>1, NamesIn, AppendIsConcat
  <2> HIDE DEF u
  <2>3. events \o u = Joined(Working, s, m, t \o u)
    BY <1>1, <1>4, AppendToParts
  <2> QED BY <1>3, <1>4, <2>2, <2>3, Zenon
<1> HIDE DEF u
<1>6. Parts(s, m, u)'
  BY <1>3, <1>4, <1>5 DEF Parts
<1>7. Rules(s, m, u)' /\ wifi' \in {"idle", "trying", "linked"} /\ losing' \in BOOLEAN
  <2>1. Len(<<>>) = 0 /\ 0 <= 3
    OBVIOUS
  <2> QED BY <1>1, <1>2, <1>3, <1>4, <2>1 DEF Rules, First, Queues
<1> QED BY <1>6, <1>7 DEF Queues

LEMMA DhcpStep == Queues /\ Session!DhcpDone => Queues'
<1> SUFFICES ASSUME Queues, Session!DhcpDone PROVE Queues'
  OBVIOUS
<1>1. PICK s, m, t : Parts(s, m, t) /\ Rules(s, m, t)
  BY DEF Queues
<1> DEFINE u == Append(t, "got_ip")
<1>2. /\ wifi = "linked" /\ netif = "dhcp" /\ netif' = "ip"
      /\ UNCHANGED <<wifi, smart, losing>> /\ events' = Append(events, "got_ip")
  BY DEF Session!DhcpDone
<1>3. t \in Short /\ m = <<>> /\ s \in Closed \cup {<<>>, Lost} /\ Working' = Working
  BY <1>1, <1>2 DEF Parts, Rules, Working
<1>4. u \in Open /\ (Connected(u) <=> Connected(t))
  BY <1>3, ShortFacts
<1>5. events' = Joined(Working', s, m, u)
  <2>1. events \in Seq(Names) /\ t \in Seq(Names) /\ <<"got_ip">> \in Seq(Names)
    BY <1>1, PartsAreSequences, InNames, NamesIn
  <2>2. events' = events \o <<"got_ip">> /\ u = t \o <<"got_ip">>
    BY <1>2, <2>1, NamesIn, AppendIsConcat
  <2> HIDE DEF u
  <2>3. PICK q : q = <<"got_ip">>
    OBVIOUS
  <2>4. events \o q = Joined(Working, s, m, t \o q)
    BY <1>1, <2>1, <2>3, AppendToParts
  <2> QED BY <1>3, <2>2, <2>3, <2>4, Zenon
<1> HIDE DEF u
<1>6. Parts(s, m, u)'
  BY <1>3, <1>4, <1>5 DEF Parts
<1>7. Rules(s, m, u)'
  <2>1. ~losing /\ s # Lost /\ ~Connected(s)
    <3>1. s # <<>> => First(s, t) = s
      BY DEF First
    <3>2. ~Connected(<<>>)
      BY DEF Connected
    <3> QED BY <1>1, <1>2, <3>1, <3>2 DEF Rules
  <2>2. ~Connected(First(s, u))
    <3>1. ~Connected(First(s, t))
      BY <1>1, <1>2 DEF Rules
    <3> QED BY <1>4, <3>1 DEF First
  <2> QED BY <1>1, <1>2, <1>3, <2>1, <2>2 DEF Rules
<1> QED BY <1>2, <1>6, <1>7 DEF Queues

(* A link that was lost: the request ...                                   *)
LEMMA LostStep == Queues /\ Session!EventLost => Queues'
<1> SUFFICES ASSUME Queues, Session!EventLost PROVE Queues'
  OBVIOUS
<1>1. PICK s, m, t : Parts(s, m, t) /\ Rules(s, m, t)
  BY DEF Queues
<1>2. /\ ~losing /\ losing' = TRUE /\ events # <<>> /\ Head(events) = "lost"
      /\ UNCHANGED <<netif, smart, events>>
      /\ wifi' = IF wifi = "idle" THEN "trying" ELSE wifi
  BY DEF Session!EventLost, Session!Handle
<1>3. s \in Seq(Names) /\ m \in Seq(Names) /\ t \in Seq(Names) /\ Lost \in Seq(Names)
      /\ s \in Closed \cup {<<>>, Lost} /\ m \in Closed \cup {<<>>} /\ t \in Open
  BY <1>1, PartsAreSequences, InNames, NamesIn DEF Parts, Lost
<1>4. s = Lost
  <2>1. s # <<>>
    <3> SUFFICES ASSUME s = <<>> PROVE FALSE
      OBVIOUS
    <3>1. events = t
      BY <1>1, <1>2, HandledPart
    <3> QED BY <1>2, <1>3, <3>1, OpenFacts
  <2>2. Head(s) = "lost"
    BY <1>1, <1>2, <2>1, HandledPart
  <2> QED BY <1>3, <2>1, <2>2, ClosedFacts
<1>5. events' = Joined(Working', m, <<>>, t)
  <2>1. events = Joined(<<>>, Lost, m, t) /\ Working' = Lost
    BY <1>1, <1>2, <1>4 DEF Parts, Working
  <2>2. Joined(<<>>, Lost, m, t) = Joined(Lost, m, <<>>, t)
    BY ONLY <1>3, JoinedShifted
  <2> QED BY <1>2, <2>1, <2>2, Zenon
<1>6. Parts(m, <<>>, t)'
  BY <1>3, <1>5 DEF Parts
<1>7. Rules(m, <<>>, t)'
  <2>1. <<>> \in Short /\ Len(<<>>) <= 3 /\ Lost # <<>>
    BY Heads, EmptySeq DEF Short, Lost
  <2>2. netif = "down" /\ (m # <<>> => t = <<>>)
    BY <1>1, <1>4 DEF Rules
  <2>3. ~Connected(<<>>)
    BY DEF Connected
  <2> QED BY <1>1, <1>2, <1>3, <1>4, <2>1, <2>2, <2>3 DEF Rules
<1>8. wifi' \in {"idle", "trying", "linked"} /\ losing' \in BOOLEAN
  BY <1>2 DEF Queues
<1> QED BY <1>6, <1>7, <1>8 DEF Queues

(* ... and the rest of its handler.                                        *)
LEMMA LostEndStep == Queues /\ Session!EventLostEnd => Queues'
<1> SUFFICES ASSUME Queues, Session!EventLostEnd PROVE Queues'
  OBVIOUS
<1>1. PICK s, m, t : Parts(s, m, t) /\ Rules(s, m, t)
  BY DEF Queues
<1>2. /\ losing /\ losing' = FALSE /\ events' = Tail(events)
      /\ UNCHANGED <<wifi, netif, smart>>
  BY DEF Session!EventLostEnd, Session!network
<1>3. Working' = <<>> /\ events' = Joined(<<>>, s, m, t)
  BY <1>1, <1>2, WorkedPart DEF Working
<1>4. Parts(s, m, t)'
  BY <1>1, <1>3 DEF Parts
<1>5. Rules(s, m, t)'
  BY <1>1, <1>2 DEF Rules
<1>6. wifi' \in {"idle", "trying", "linked"} /\ losing' \in BOOLEAN
  BY <1>2 DEF Queues
<1> QED BY <1>4, <1>5, <1>6 DEF Queues

(* The steps of SmartConfig that do not cut a link: it asks for one when   *)
(* there is one request, and listens again when the queue has been empty.  *)
LEMMA SmartStep ==
    ASSUME Queues, UNCHANGED <<netif, events, losing>>,
           \/ smart = "listen" /\ smart' = "apply" /\ wifi = "idle" /\ wifi' = wifi
           \/ /\ smart = "apply" /\ smart' = "linking"
              /\ wifi' = IF wifi = "idle" THEN "trying" ELSE wifi
           \/ smart = "linking" /\ smart' = "listen" /\ wifi' = wifi /\ events = <<>>
           \/ smart = "linking" /\ smart' = "off" /\ wifi' = wifi
    PROVE  Queues'
<1>1. PICK s, m, t : Parts(s, m, t) /\ Rules(s, m, t)
  BY DEF Queues
<1>2. Parts(s, m, t)'
  BY <1>1 DEF Parts, Working
<1>3. events = <<>> => s = <<>>
  <2>1. s \in Seq(Names) /\ m \in Seq(Names) /\ t \in Seq(Names) /\ Working \in Seq(Names)
    BY <1>1, PartsAreSequences
  <2> QED BY <1>1, <2>1, JoinedParts DEF Parts
<1>4. Rules(s, m, t)'
  BY <1>1, <1>3 DEF Rules
<1>5. wifi' \in {"idle", "trying", "linked"} /\ losing' \in BOOLEAN
  BY DEF Queues
<1> QED BY <1>2, <1>4, <1>5 DEF Queues

(* Every step keeps the invariant.                                         *)
LEMMA QueuesStep == Queues /\ [Session!Next]_(Session!vars) => Queues'
<1> SUFFICES ASSUME Queues, [Session!Next]_(Session!vars) PROVE Queues'
  OBVIOUS
<1> USE DEF Session!network, Session!session, Session!shown
<1>1. CASE \/ Session!NetworkChanges \/ Session!Mqtt \/ Session!ServerAcks
           \/ Session!ServerDrops \/ UNCHANGED Session!vars
  <2>1. UNCHANGED <<wifi, netif, smart, events, losing>>
    BY <1>1 DEF Session!NetworkChanges, Session!Mqtt, Session!MqttStart,
       Session!MqttConnect, Session!MqttCannotConnect, Session!MqttSubscribe,
       Session!MqttSubscribed, Session!MqttFails, Session!MqttAborted,
       Session!MqttWaited, Session!Abort, Session!ServerAcks, Session!ServerDrops,
       Session!vars
  <2> QED BY <2>1, KeptStep
<1>2. CASE Session!Link BY <1>2, LinkStep
<1>3. CASE Session!LinkFails \/ Session!LinkLost
  BY <1>3, UnlinkedStep DEF Session!LinkFails, Session!LinkLost
<1>4. CASE Session!DhcpDone BY <1>4, DhcpStep
<1>5. CASE Session!EventConnected BY <1>5, LinkEventStep DEF Session!EventConnected
<1>6. CASE Session!EventDown BY <1>6, LinkEventStep DEF Session!EventDown
<1>7. CASE Session!EventGotIp BY <1>7, LinkEventStep DEF Session!EventGotIp
<1>8. CASE Session!EventLost BY <1>8, LostStep
<1>9. CASE Session!EventLostEnd BY <1>9, LostEndStep
<1>10. CASE Session!SmartDisconnect
  <2>1. wifi \in {"idle", "trying", "linked"}
    BY DEF Queues
  <2>2. CASE wifi = "idle"
    BY <1>10, <2>2, SmartStep DEF Session!SmartDisconnect
  <2>3. CASE wifi # "idle"
    BY <1>10, <2>1, <2>3, UnlinkedStep DEF Session!SmartDisconnect
  <2> QED BY <2>2, <2>3
<1>11. CASE Session!SmartConnect BY <1>11, SmartStep DEF Session!SmartConnect
<1>12. CASE Session!SmartTimeout
  <2>1. wifi \in {"idle", "trying", "linked"}
    BY DEF Queues
  <2>2. CASE UNCHANGED <<wifi, events>>
    BY <1>12, <2>2, SmartStep DEF Session!SmartTimeout
  <2>3. CASE wifi # "idle" /\ Session!Unlinked
    BY <1>12, <2>1, <2>3, UnlinkedStep DEF Session!SmartTimeout
  <2> QED BY <1>12, <2>2, <2>3 DEF Session!SmartTimeout
<1>13. CASE Session!SmartOver BY <1>13, SmartStep DEF Session!SmartOver
<1> QED
  BY <1>1, <1>2, <1>3, <1>4, <1>5, <1>6, <1>7, <1>8, <1>9, <1>10, <1>11, <1>12, <1>13
  DEF Session!Next, Session!Driver, Session!Events, Session!Smart

(* The invariant holds at boot.                                            *)
LEMMA InitQueues == Session!Init => Queues
<1> SUFFICES ASSUME Session!Init PROVE Queues
  OBVIOUS
<1>1. <<>> \in Seq(Names) /\ <<>> \in Open /\ <<>> \in Short /\ ~Connected(<<>>) /\ Lost # <<>>
  BY Heads, EmptySeq DEF Open, Short, Connected, Lost
<1>2. Joined(<<>>, <<>>, <<>>, <<>>) = <<>>
  BY <1>1, JoinedShifted
<1>3. Parts(<<>>, <<>>, <<>>)
  BY <1>1, <1>2 DEF Session!Init, Parts, Working
<1>4. Rules(<<>>, <<>>, <<>>)
  BY <1>1 DEF Session!Init, Rules, First
<1> QED BY <1>3, <1>4 DEF Session!Init, Queues

(* Two lost links and a loss that is being handled are all there can be.   *)
LEMMA QueuesShort == Queues => Session!EventsBounded
<1> SUFFICES ASSUME Queues PROVE Len(events) <= 8
  BY DEF Session!EventsBounded
<1>1. PICK s, m, t : Parts(s, m, t) /\ Rules(s, m, t)
  BY DEF Queues
<1>2. /\ s \in Seq(Names) /\ m \in Seq(Names) /\ t \in Seq(Names) /\ Working \in Seq(Names)
      /\ s \in Closed \cup {<<>>, Lost} /\ m \in Closed \cup {<<>>} /\ t \in Open
      /\ events = Joined(Working, s, m, t)
  BY <1>1, PartsAreSequences DEF Parts
<1>3. Len(events) = Len(Working) + Len(s) + Len(m) + Len(t)
  BY <1>2, JoinedParts
<1>4. Len(<<>>) = 0 /\ Len(Lost) = 1
  BY Heads, EmptySeq DEF Lost
<1>5. Len(s) \in Nat /\ Len(m) \in Nat /\ Len(t) \in Nat
  BY <1>2, LenProperties
<1>6. Len(s) <= 4 /\ (s = <<>> => Len(s) = 0)
  <2>1. CASE s \in Closed
    BY <1>4, <2>1, ClosedFacts
  <2>2. CASE s = <<>>
    BY <1>4, <2>2
  <2>3. CASE s = Lost
    <3>1. Len(s) = 1
      BY <1>4, <2>3
    <3>2. s # <<>>
      BY <1>4, <3>1
    <3> QED BY <3>1, <3>2
  <2> QED BY <1>2, <2>1, <2>2, <2>3
<1>7. Len(m) <= 4 /\ (m = <<>> => Len(m) = 0)
  <2>1. CASE m \in Closed
    BY <1>4, <2>1, ClosedFacts
  <2>2. CASE m = <<>>
    BY <1>4, <2>2
  <2> QED BY <1>2, <2>1, <2>2
<1>8. Len(t) <= 2 /\ (t = <<>> => Len(t) = 0) /\ (t \in Short => Len(t) <= 1)
  BY <1>2, <1>4, OpenFacts, ShortFacts
<1>9. /\ (m # <<>> => t = <<>>) /\ (s = <<>> => m = <<>>)
      /\ (losing /\ s # <<>> => t \in Short /\ Len(m) <= 3)
  BY <1>1 DEF Rules
<1>10. CASE losing
  <2>1. Len(Working) = 1
    BY <1>4, <1>10 DEF Working
  <2>2. s = <<>> \/ Len(m) <= 3
    BY <1>9, <1>10
  <2> QED BY <1>3, <1>5, <1>6, <1>7, <1>8, <1>9, <2>1, <2>2
<1>11. CASE ~losing
  <2>1. Len(Working) = 0
    BY <1>4, <1>11 DEF Working
  <2> QED BY <1>3, <1>5, <1>6, <1>7, <1>8, <1>9, <2>1
<1> QED BY <1>10, <1>11

(* The queue of the event loop holds at most eight events.                 *)
THEOREM SessionEventsBounded == Session!Spec => []Session!EventsBounded
BY QueuesShort, InitQueues, QueuesStep, PTL DEF Session!Spec

(* Every step keeps the others from reporting while the client connects.   *)
LEMMA ReportsStep ==
    Session!ReportsOnlyWhileConnected /\ [Session!Next]_(Session!vars) =>
        Session!ReportsOnlyWhileConnected'
<1> SUFFICES ASSUME Session!ReportsOnlyWhileConnected, [Session!Next]_(Session!vars)
             PROVE  Session!ReportsOnlyWhileConnected'
  OBVIOUS
<1> USE DEF Session!network, Session!session, Session!shown
<1>0. CASE Session!Smart
  <2>1. client' = client /\ isConnect2Server' = isConnect2Server
    BY <1>0 DEF Session!Smart, Session!SmartDisconnect, Session!SmartConnect,
                Session!SmartTimeout, Session!SmartOver, Session!Unlinked
  <2> QED BY <2>1 DEF Session!ReportsOnlyWhileConnected
<1>1. CASE \/ Session!NetworkChanges \/ Session!Driver \/ Session!LinkLost
           \/ Session!EventConnected \/ Session!EventDown \/ Session!EventLost
  <2>1. client' = client /\ isConnect2Server' = isConnect2Server
    BY <1>1 DEF Session!NetworkChanges, Session!Driver, Session!Link, Session!LinkFails,
                Session!LinkLost, Session!Unlinked, Session!DhcpDone,
                Session!EventConnected, Session!EventDown, Session!EventLost
  <2> QED BY <2>1 DEF Session!ReportsOnlyWhileConnected
<1>2. CASE \/ Session!MqttSubscribed \/ Session!ServerAcks \/ Session!ServerDrops
           \/ UNCHANGED Session!vars
  <2>1. client' = client /\ isConnect2Server' = isConnect2Server
    BY <1>2 DEF Session!MqttSubscribed, Session!ServerAcks, Session!ServerDrops,
                Session!vars
  <2> QED BY <2>1 DEF Session!ReportsOnlyWhileConnected
<1>3. CASE Session!EventLostEnd \/ Session!MqttAborted
  <2>1. isConnect2Server' = FALSE
    BY <1>3 DEF Session!EventLostEnd, Session!MqttAborted
  <2> QED BY <2>1 DEF Session!ReportsOnlyWhileConnected
<1>7. CASE Session!MqttCannotConnect \/ Session!MqttFails
  <2>1. client' = "aborting"
    BY <1>7 DEF Session!MqttCannotConnect, Session!MqttFails, Session!Abort
  <2> QED BY <2>1 DEF Session!ReportsOnlyWhileConnected
<1>4. CASE Session!EventGotIp
  <2>1. isConnect2Server' = isConnect2Server /\ (client # "none" => client' = client)
    BY <1>4 DEF Session!EventGotIp
  <2> QED BY <2>1 DEF Session!ReportsOnlyWhileConnected
<1>5. CASE Session!MqttStart \/ Session!MqttConnect \/ Session!MqttWaited
  <2>1. isConnect2Server' = isConnect2Server /\ client \notin {"connected", "aborting"}
    BY <1>5 DEF Session!MqttStart, Session!MqttConnect, Session!MqttWaited
  <2> QED BY <2>1 DEF Session!ReportsOnlyWhileConnected
<1>6. CASE Session!MqttSubscribe
  BY <1>6 DEF Session!MqttSubscribe, Session!ReportsOnlyWhileConnected
<1> QED
  BY <1>0, <1>1, <1>2, <1>3, <1>4, <1>5, <1>6, <1>7
  DEF Session!Next, Session!Events, Session!Mqtt

(* The other tasks may report only while the client is connected.          *)
THEOREM SessionReports == Session!Spec => []Session!ReportsOnlyWhileConnected
<1>1. Session!Init => Session!ReportsOnlyWhileConnected
  BY DEF Session!Init, Session!ReportsOnlyWhileConnected
<1> QED BY <1>1, ReportsStep, PTL DEF Session!Spec

(* The types of what is not the queue or the station.                      *)
StateOK ==
    /\ good \in BOOLEAN /\ netif \in {"down", "dhcp", "ip"}
    /\ smart \in {"off", "listen", "apply", "linking"}
    /\ client \in {"none", "created", "init", "subscribing", "connected", "aborting", "wait"}
    /\ tcp \in {"none", "open", "dead"} /\ sub \in {"none", "sent", "acked", "done"}
    /\ isConnect2Server \in BOOLEAN /\ led \in {"fast", "medium", "disable"}

(* Every step keeps them.                                                  *)
LEMMA StateStep == StateOK /\ [Session!Next]_(Session!vars) => StateOK'
<1> SUFFICES ASSUME StateOK, [Session!Next]_(Session!vars) PROVE StateOK'
  OBVIOUS
<1> USE DEF StateOK, Session!network, Session!session, Session!shown
<1>1. CASE Session!NetworkChanges BY <1>1, Zenon DEF Session!NetworkChanges
<1>2. CASE Session!Driver \/ Session!LinkLost
  BY <1>2 DEF Session!Driver, Session!Link, Session!LinkFails, Session!LinkLost,
              Session!Unlinked, Session!DhcpDone
<1>3. CASE Session!EventConnected \/ Session!EventDown BY <1>3
  DEF Session!EventConnected, Session!EventDown
<1>4. CASE Session!EventGotIp BY <1>4 DEF Session!EventGotIp
<1>5. CASE Session!EventLost \/ Session!EventLostEnd BY <1>5
  DEF Session!EventLost, Session!EventLostEnd
<1>6. CASE Session!MqttStart \/ Session!MqttConnect \/ Session!MqttWaited
  BY <1>6 DEF Session!MqttStart, Session!MqttConnect, Session!MqttWaited
<1>7. CASE Session!MqttCannotConnect \/ Session!MqttFails
  BY <1>7 DEF Session!MqttCannotConnect, Session!MqttFails, Session!Abort
<1>8. CASE Session!MqttSubscribe \/ Session!MqttSubscribed BY <1>8
  DEF Session!MqttSubscribe, Session!MqttSubscribed
<1>9. CASE Session!ServerAcks \/ Session!ServerDrops BY <1>9
  DEF Session!ServerAcks, Session!ServerDrops
<1>10. CASE UNCHANGED Session!vars BY <1>10 DEF Session!vars
<1>11. CASE Session!Smart
  BY <1>11 DEF Session!Smart, Session!SmartDisconnect, Session!SmartConnect,
               Session!SmartTimeout, Session!SmartOver, Session!Unlinked
<1>12. CASE Session!MqttAborted BY <1>12 DEF Session!MqttAborted
<1> QED
  BY <1>1, <1>2, <1>3, <1>4, <1>5, <1>6, <1>7, <1>8, <1>9, <1>10, <1>11, <1>12
    DEF Session!Next, Session!Events, Session!Mqtt

(* The queues and the states that occur have the types of TypeOK.          *)
LEMMA SessionTypes == Queues /\ StateOK => Session!TypeOK
<1> SUFFICES ASSUME Queues, StateOK PROVE Session!TypeOK
  OBVIOUS
<1>1. PICK s, m, t : Parts(s, m, t) /\ Rules(s, m, t)
  BY DEF Queues
<1>2. events \in Seq(Names)
  BY <1>1, PartsAreSequences
<1> QED BY <1>2 DEF Queues, StateOK, Session!TypeOK, Names

(* Every variable of MqttSession keeps its type.                           *)
THEOREM SessionTypeCorrect == Session!Spec => []Session!TypeOK
<1>1. Session!Init => StateOK
  BY DEF Session!Init, StateOK
<1> QED BY <1>1, SessionTypes, InitQueues, QueuesStep, StateStep, PTL DEF Session!Spec

-----------------------------------------------------------------------------
(* The LED and the session.                                                *)

(* Every step is one of the session, or leaves it alone.                   *)
LEMMA SessionMoves ==
    [StatusNext]_avars => [Session!Next]_(Session!vars)
<1> SUFFICES ASSUME [StatusNext]_avars
             PROVE  [Session!Next]_(Session!vars)
  OBVIOUS
<1> USE DEF svars, Session!vars, Session!network, Session!session, Session!shown
<1>1. CASE StaStart BY <1>1 DEF StaStart
<1>2. CASE StaConnect BY <1>2 DEF StaConnect
<1>3. CASE SessionStep
  BY <1>3 DEF SessionStep
<1>4. CASE LedScan BY <1>4 DEF LedScan
<1>5. CASE UNCHANGED avars BY <1>5 DEF avars
<1> QED BY <1>1, <1>2, <1>3, <1>4, <1>5 DEF StatusNext

(* Every step is one of the strobe, or leaves it alone, as the speed asked *)
(* for is always one of the table.                                         *)
LEMMA StrobeMoves == StateOK /\ StateOK' /\ [StatusNext]_avars => [Next]_vars
<1> SUFFICES ASSUME StateOK, StateOK', [StatusNext]_avars PROVE [Next]_vars
  OBVIOUS
<1>1. Speed[led] \in Speeds /\ Speed[led'] \in Speeds /\ Speed["medium"] \in Speeds
  <2>1. led \in {"fast", "medium", "disable"} /\ led' \in {"fast", "medium", "disable"}
    BY DEF StateOK
  <2> QED BY <2>1 DEF Speed, Speeds
<1>2. \A speed \in Speeds : SetStrobe(speed) => Next
  BY DEF Next
<1>3. CASE StaStart BY <1>1, <1>2, <1>3 DEF StaStart
<1>4. CASE StaConnect BY <1>1, <1>2, <1>4 DEF StaConnect
<1>5. CASE SessionStep BY <1>1, <1>2, <1>5 DEF SessionStep
<1>6. CASE LedScan BY <1>6 DEF LedScan, Next
<1>7. CASE UNCHANGED avars BY <1>7 DEF avars
<1> QED BY <1>3, <1>4, <1>5, <1>6, <1>7 DEF StatusNext

-----------------------------------------------------------------------------
(* The composition keeps the invariants of its session.                    *)
THEOREM StatusSession ==
    StatusSpec => [](Queues /\ StateOK /\ Session!ReportsOnlyWhileConnected)
<1>1. StatusInit => /\ Queues /\ StateOK
                    /\ Session!ReportsOnlyWhileConnected
  <2> SUFFICES ASSUME StatusInit
               PROVE  /\ Queues /\ StateOK
                      /\ Session!ReportsOnlyWhileConnected
    OBVIOUS
  <2>1. Session!Init
    BY DEF StatusInit
  <2> QED
    BY <2>1, InitQueues DEF Session!Init, StateOK, Session!ReportsOnlyWhileConnected
<1>2. /\ Queues /\ StateOK /\ Session!ReportsOnlyWhileConnected
      /\ [StatusNext]_avars
      => (Queues /\ StateOK /\ Session!ReportsOnlyWhileConnected)'
  BY SessionMoves, QueuesStep, StateStep, ReportsStep
<1> QED BY <1>1, <1>2, PTL DEF StatusSpec

(* Every variable of the session keeps its type in the composition.        *)
THEOREM StatusSessionTypes == StatusSpec => []SessionTypeOK
<1> DEFINE Station == station \in {"off", "started", "up"}
<1>1. StatusInit => Station
  BY DEF StatusInit
<1>2. Station /\ [StatusNext]_avars => Station'
  BY DEF StatusNext, StaStart, StaConnect, SessionStep, LedScan, avars
<1>3. Queues /\ StateOK /\ Station => SessionTypeOK
  BY SessionTypes DEF Session!TypeOK, SessionTypeOK
<1> QED BY <1>1, <1>2, <1>3, StatusSession, PTL DEF StatusSpec

(* In the composition, reports are allowed only while the client is        *)
(* connected.                                                              *)
THEOREM StatusReports == StatusSpec => []ReportsOnlyWhileConnected
<1>1. Session!ReportsOnlyWhileConnected => ReportsOnlyWhileConnected
  BY DEF ReportsOnlyWhileConnected, Session!ReportsOnlyWhileConnected
<1> QED BY <1>1, StatusSession, PTL

(* In the composition, the event loop never holds more than eight events.  *)
THEOREM StatusEvents == StatusSpec => []EventsBounded
<1>1. Queues => EventsBounded
  BY QueuesShort DEF EventsBounded, Session!EventsBounded
<1> QED BY <1>1, StatusSession, PTL

(* The composition is a strobe whose speed is set by some tasks ...        *)
THEOREM StatusIsStrobe == StatusSpec => Spec
<1>1. StatusInit => Init
  BY DEF StatusInit
<1> QED BY <1>1, StrobeMoves, StatusSession, PTL DEF StatusSpec, Spec

(* ... so that its countdown fits its byte, and every variable its type,   *)
THEOREM StatusTypeCorrect == StatusSpec => []TypeOK
BY StatusIsStrobe, LedTypeCorrect, PTL

(* ... and its LED never keeps its state longer than the period of the *)
(* speed the connection asks for.                                          *)
THEOREM StatusBlinksInTime == StatusSpec => []BlinksInTime
BY StatusIsStrobe, LedBlinksInTime, PTL
=============================================================================
