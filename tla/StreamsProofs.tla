---------------------------- MODULE StreamsProofs ----------------------------
(***************************************************************************)
(* Proofs about the programs that are not echo servers, for every setting  *)
(* of their timers, script of commands, list of messages and cut of the    *)
(* stream: a dead connection is reported when it is one, and in time; the  *)
(* half-closing client sees its answers; a message is read as it was sent. *)
(***************************************************************************)
EXTENDS ServersProofs

-----------------------------------------------------------------------------
(* The heartbeat *)

\* An interval and the keep-alive time in ticks.
Interval == KEEP_ALIVE_INTERVAL * SECOND
KeepAlive == KEEP_ALIVE_TIME * SECOND

\* The seconds that the timer may keep from before come to less than one.
SilenceInv ==
    client = "select" =>
        /\ heartbeats <= KEEP_ALIVE_PROBETIMES
        /\ ~stdin => silence + tv < KeepAlive + SECOND + heartbeats * Interval

\* A server that is there owes an answer for the probes of a silence: it has sent one, it
\* sleeps since the first of them or longer, or it is to read the first, sent just now.
AnswerOwed ==
    client = "select" /\ heartbeats >= 1 /\ server # "down" =>
        \/ pongs > 0
        \/ server = "exit"
        \/ server = "sleep" /\ asleep + heartbeats * Interval <= sleepingtime * SECOND + tv
        \/ server = "read" /\ probes > 0 /\ heartbeats = 1 /\ tv = Interval

HeartbeatInv ==
    /\ HeartbeatTypeOK
    /\ asleep <= sleepingtime * SECOND
    /\ SilenceInv
    /\ AnswerOwed
    /\ NoFalseAlarm
\* Arithmetic.

LEMMA RestOfSecond == ASSUME NEW t \in Nat, NEW s \in Nat \ {0} PROVE t % s \in 0 .. s - 1
  OBVIOUS

LEMMA ProductInNat == ASSUME NEW a \in Nat, NEW b \in Nat PROVE a * b \in Nat
  OBVIOUS

LEMMA OneMore == ASSUME NEW a \in Int, NEW b \in Int PROVE (a + 1) * b = a * b + b
  OBVIOUS

LEMMA ProductMonotonic ==
    ASSUME NEW a \in Nat, NEW b \in Nat, NEW c \in Nat, a <= b PROVE a * c <= b * c
<1>1. b * c = a * c + (b - a) * c
  OBVIOUS
<1>2. b - a \in Nat
  OBVIOUS
<1> QED
  BY <1>1, <1>2, ProductInNat

LEMMA Timers == Interval \in Nat \ {0} /\ KeepAlive \in Nat \ {0} /\ SECOND \in Nat \ {0}
<1>1. ASSUME NEW a \in Nat \ {0}, NEW b \in Nat \ {0} PROVE a * b \in Nat \ {0}
  OBVIOUS
<1> QED
  BY <1>1, HeartbeatAssumption DEF Interval, KeepAlive

LEMMA InitHeartbeatInv == HeartbeatInit => HeartbeatInv
<1> SUFFICES ASSUME HeartbeatInit PROVE HeartbeatInv
  OBVIOUS
<1> USE HeartbeatAssumption, Timers
<1>1. sleepingtime \in Nat /\ sleepingtime * SECOND \in Nat /\ 0 * Interval = 0
  BY ProductInNat DEF HeartbeatInit
<1>2. tv = KeepAlive
  BY DEF HeartbeatInit, KeepAlive
<1>3. HeartbeatTypeOK
  BY <1>2 DEF HeartbeatInit, HeartbeatTypeOK
<1>4. SilenceInv
  BY <1>1, <1>2 DEF HeartbeatInit, SilenceInv
<1> QED
  BY <1>1, <1>3, <1>4 DEF HeartbeatInit, HeartbeatInv, AnswerOwed, NoFalseAlarm

LEMMA NextHeartbeatInv == HeartbeatInv /\ [HeartbeatNext]_heartbeatVars => HeartbeatInv'
<1> SUFFICES ASSUME HeartbeatInv, [HeartbeatNext]_heartbeatVars PROVE HeartbeatInv'
  OBVIOUS
<1> USE HeartbeatAssumption, Timers
<1>t. /\ HeartbeatTypeOK /\ sleepingtime \in Nat /\ sleepingtime * SECOND \in Nat
      /\ heartbeats * Interval \in Nat /\ (heartbeats + 1) * Interval = heartbeats * Interval + Interval
      /\ 0 * Interval = 0 /\ 1 * Interval = Interval
  BY ProductInNat, OneMore DEF HeartbeatInv, HeartbeatTypeOK
<1>1. CASE Probe
  <2>1. CASE heartbeats' > KEEP_ALIVE_PROBETIMES
    <3>1. HeartbeatTypeOK'
      BY <1>1, <1>t, <2>1 DEF Probe, HeartbeatTypeOK
    <3>2. CASE heartbeats = 0
      BY <1>1, <1>t, <2>1, <3>1, <3>2
      DEF Probe, HeartbeatInv, HeartbeatTypeOK, SilenceInv, AnswerOwed, NoFalseAlarm
    <3>3. ASSUME heartbeats # 0, server # "down"
          PROVE  heartbeats * Interval <= sleepingtime * SECOND
      BY <1>1, <1>t, <2>1, <3>3 DEF Probe, HeartbeatInv, HeartbeatTypeOK, AnswerOwed, SocketReady
    <3>4. heartbeats = KEEP_ALIVE_PROBETIMES
      BY <1>1, <1>t, <2>1 DEF Probe, HeartbeatInv, HeartbeatTypeOK, SilenceInv
    <3>5. CASE heartbeats # 0
      <4>1. ASSUME server # "down"
            PROVE  sleepingtime >= KEEP_ALIVE_INTERVAL * KEEP_ALIVE_PROBETIMES
        <5>0. KEEP_ALIVE_INTERVAL * KEEP_ALIVE_PROBETIMES \in Nat
          BY ProductInNat
        <5>1. SUFFICES ASSUME sleepingtime + 1 <= KEEP_ALIVE_INTERVAL * KEEP_ALIVE_PROBETIMES
                       PROVE  FALSE
          BY <1>t, <5>0
        <5>2. (sleepingtime + 1) * SECOND <= KEEP_ALIVE_INTERVAL * KEEP_ALIVE_PROBETIMES * SECOND
          BY <1>t, <5>0, <5>1, ProductMonotonic
        <5>3. (sleepingtime + 1) * SECOND = sleepingtime * SECOND + SECOND
          BY <1>t, OneMore
        <5>4. heartbeats * Interval = KEEP_ALIVE_INTERVAL * KEEP_ALIVE_PROBETIMES * SECOND
          BY <3>4 DEF Interval
        <5> QED
          BY <1>t, <3>3, <3>5, <4>1, <5>0, <5>2, <5>3, <5>4, ProductInNat
      <4> QED
        BY <1>1, <1>t, <2>1, <3>1, <4>1
        DEF Probe, HeartbeatInv, SilenceInv, AnswerOwed, NoFalseAlarm
    <3> QED
      BY <3>2, <3>5
  <2>2. CASE ~(heartbeats' > KEEP_ALIVE_PROBETIMES)
    <3>0. tv' = Interval /\ probes' = probes + 1 /\ client' = "select"
      BY <1>1, <2>2 DEF Probe, Interval
    <3>1. HeartbeatTypeOK'
      BY <1>1, <1>t, <3>0 DEF Probe, HeartbeatTypeOK
    <3>2. SilenceInv'
      BY <1>1, <1>t, <2>2, <3>0 DEF Probe, HeartbeatInv, HeartbeatTypeOK, SilenceInv
    <3>3. AnswerOwed'
      <4>1. CASE heartbeats = 0
        BY <1>1, <1>t, <3>0, <4>1
        DEF Probe, HeartbeatInv, HeartbeatTypeOK, AnswerOwed, SocketReady
      <4>2. CASE heartbeats # 0
        BY <1>1, <1>t, <3>0, <4>2
        DEF Probe, HeartbeatInv, HeartbeatTypeOK, AnswerOwed, SocketReady
      <4> QED
        BY <4>1, <4>2
    <3> QED
      BY <1>1, <3>0, <3>1, <3>2, <3>3 DEF Probe, HeartbeatInv, NoFalseAlarm
  <2> QED
    BY <2>1, <2>2
<1>2. CASE Hear
  <2>1. CASE pongs > 0
    <3>0. /\ tv' = KeepAlive + (tv % SECOND) /\ heartbeats' = 0 /\ silence' = 0 /\ pongs' = 0
          /\ client' = "select" /\ tv % SECOND \in 0 .. SECOND - 1
      BY <1>2, <1>t, <2>1, RestOfSecond DEF Hear, KeepAlive, HeartbeatTypeOK
    <3>1. HeartbeatTypeOK'
      BY <1>2, <1>t, <3>0 DEF Hear, HeartbeatTypeOK
    <3>2. SilenceInv'
      BY <1>t, <3>0 DEF SilenceInv
    <3> QED
      BY <1>2, <3>0, <3>1, <3>2 DEF Hear, HeartbeatInv, AnswerOwed, NoFalseAlarm
  <2>2. CASE ~(pongs > 0)
    BY <1>2, <1>t, <2>2 DEF Hear, HeartbeatInv, HeartbeatTypeOK, SilenceInv, AnswerOwed, NoFalseAlarm
  <2> QED
    BY <2>1, <2>2
<1>3. CASE ServerReads
  <2>1. HeartbeatTypeOK'
    BY <1>3, <1>t DEF ServerReads, HeartbeatTypeOK
  <2>2. AnswerOwed'
    BY <1>3, <1>t DEF ServerReads, HeartbeatInv, HeartbeatTypeOK, AnswerOwed
  <2> QED
    BY <1>3, <1>t, <2>1, <2>2 DEF ServerReads, HeartbeatInv, SilenceInv, NoFalseAlarm
<1>4. CASE Answer
  BY <1>4, <1>t DEF Answer, HeartbeatInv, HeartbeatTypeOK, SilenceInv, AnswerOwed, NoFalseAlarm
<1>5. CASE Interrupt
  BY <1>5, <1>t DEF Interrupt, HeartbeatInv, HeartbeatTypeOK, SilenceInv, AnswerOwed, NoFalseAlarm
<1>6. CASE Type
  BY <1>6, <1>t DEF Type, HeartbeatInv, HeartbeatTypeOK, SilenceInv, AnswerOwed, NoFalseAlarm
<1>7. CASE Tick
  <2>1. HeartbeatTypeOK' /\ asleep' <= sleepingtime' * SECOND
    BY <1>7, <1>t DEF Tick, Less, HeartbeatInv, HeartbeatTypeOK
  <2>2. SilenceInv'
    BY <1>7, <1>t DEF Tick, Less, HeartbeatInv, HeartbeatTypeOK, SilenceInv
  <2>3. AnswerOwed'
    BY <1>7, <1>t DEF Tick, Less, HeartbeatInv, HeartbeatTypeOK, AnswerOwed, SocketReady
  <2> QED
    BY <1>7, <2>1, <2>2, <2>3 DEF Tick, HeartbeatInv, NoFalseAlarm
<1>8. CASE UNCHANGED heartbeatVars
  BY <1>8, <1>t
  DEF heartbeatVars, HeartbeatInv, HeartbeatTypeOK, SilenceInv, AnswerOwed, NoFalseAlarm
<1> QED
  BY <1>1, <1>2, <1>3, <1>4, <1>5, <1>6, <1>7, <1>8 DEF HeartbeatNext, HeartbeatProcesses

LEMMA HeartbeatInvHolds == HeartbeatSpec => []HeartbeatInv
  BY InitHeartbeatInv, NextHeartbeatInv, PTL DEF HeartbeatSpec

-----------------------------------------------------------------------------
(* The half-closing client and its server *)

\* The lines the client wrote are somewhere on their way, as long as the client
\* has not closed its socket and the server was not interrupted. Only then is
\* the server's end reset.
LinesInv ==
    /\ {written, unread, held, coming, printed} \subseteq Nat
    /\ srv \in {"read", "answer", "eof", "pipe", "error", "int"}
    /\ cli \in {"loop", "shut", "closed", "terminated", "error"}
    /\ reset \in {"none", "unread", "answer"}
    /\ cli # "closed" => reset = "none" /\ srv \notin {"pipe", "error"}
    /\ cli # "closed" /\ srv # "int" =>
        /\ printed + coming + held + unread = written
        /\ srv # "answer" => held = 0
        /\ srv = "eof" => unread = 0 /\ cli # "loop"
        /\ cli = "terminated" => srv = "eof" /\ coming = 0

LEMMA HalfInit == Init => LinesInv
<1> QED
  BY DEF Init, Half!Start, LinesInv

LEMMA HalfCommand ==
    ASSUME LinesInv, Half!Command
    PROVE  LinesInv'
<1>1. cli = "loop" /\ UNCHANGED <<srv, held, coming, printed>>
  BY DEF Half!Command
<1>2. \/ /\ written' = written + 1
         /\ unread' = IF Half!Serving THEN unread + 1 ELSE unread
         /\ UNCHANGED <<cli, reset>>
      \/ cli' = "shut" /\ UNCHANGED <<written, unread, reset>>
      \/ /\ cli' = "closed" /\ reset' = IF coming > 0 THEN "unread" ELSE "none"
         /\ UNCHANGED <<written, unread>>
  BY DEF Half!Command
<1>3. CASE written' = written + 1 /\ UNCHANGED <<cli, reset>>
           /\ unread' = IF Half!Serving THEN unread + 1 ELSE unread
  BY <1>1, <1>3 DEF LinesInv, Half!Serving
<1>4. CASE cli' = "shut" /\ UNCHANGED <<written, unread, reset>>
  BY <1>1, <1>4 DEF LinesInv
<1>5. CASE cli' = "closed" /\ reset' = (IF coming > 0 THEN "unread" ELSE "none")
           /\ UNCHANGED <<written, unread>>
  BY <1>1, <1>5 DEF LinesInv
<1> QED
  BY <1>2, <1>3, <1>4, <1>5

LEMMA HalfReadAnswers ==
    ASSUME LinesInv, Half!ReadAnswers
    PROVE  LinesInv'
<1>1. /\ cli \in {"loop", "shut"} /\ (coming > 0 \/ ~Half!Serving)
      /\ printed' = printed + coming /\ coming' = 0
      /\ IF coming > 0 THEN cli' = cli ELSE cli' \in {"terminated", "error"}
      /\ UNCHANGED <<srv, written, unread, held, reset>>
  BY DEF Half!ReadAnswers
<1>2. CASE coming > 0
  BY <1>1, <1>2 DEF LinesInv
<1>3. CASE ~(coming > 0)
  <2>1. coming = 0 /\ srv \notin {"read", "answer"}
    BY <1>1, <1>3 DEF LinesInv, Half!Serving
  <2>2. srv \in {"eof", "int"}
    BY <1>1, <2>1 DEF LinesInv
  <2> QED
    BY <1>1, <1>3, <2>1, <2>2 DEF LinesInv
<1> QED
  BY <1>2, <1>3

LEMMA HalfServerReads ==
    ASSUME LinesInv, Half!ServerReads
    PROVE  LinesInv'
<1>1. srv = "read" /\ UNCHANGED <<cli, written, coming, printed, reset>>
  BY DEF Half!ServerReads
<1>2. CASE held' \in 1 .. unread /\ unread' = unread - held' /\ srv' = "answer"
  <2>1. /\ held' \in Nat /\ unread' \in Nat /\ held' + unread' = unread
        /\ unread \in Nat
    BY <1>2 DEF LinesInv
  <2>2. cli # "closed" => held = 0 /\ cli # "terminated"
    BY <1>1 DEF LinesInv
  <2>3. cli # "closed" => printed + coming + held' + unread' = written
    <3>1. printed \in Nat /\ coming \in Nat
      BY DEF LinesInv
    <3>2. cli # "closed" => printed + coming + 0 + unread = written
      BY <1>1, <2>2 DEF LinesInv
    <3>3. \A p, q, h, u \in Nat : p + q + 0 + (h + u) = p + q + h + u
      OBVIOUS
    <3>4. printed + coming + 0 + (held' + unread') = printed + coming + held' + unread'
      BY <2>1, <3>1, <3>3
    <3>5. unread = held' + unread'
      BY <2>1
    <3> QED
      BY <3>2, <3>4, <3>5
  <2> QED
    BY <1>1, <1>2, <2>1, <2>2, <2>3 DEF LinesInv
<1>3. CASE /\ unread = 0 /\ cli \in {"shut", "closed"}
           /\ srv' = IF reset = "unread" THEN "error" ELSE "eof"
           /\ UNCHANGED <<unread, held>>
  BY <1>1, <1>3 DEF LinesInv
<1> QED
  BY <1>2, <1>3 DEF Half!ServerReads

LEMMA HalfAnswer ==
    ASSUME LinesInv, Half!Answer
    PROVE  LinesInv'
<1>1. /\ srv = "answer" /\ held' = 0 /\ srv' = Half!Outcome
      /\ coming' = IF cli = "closed" THEN coming ELSE coming + held
      /\ reset' = IF cli = "closed" /\ reset = "none" THEN "answer" ELSE reset
      /\ UNCHANGED <<cli, written, unread, printed>>
  BY DEF Half!Answer
<1>2. Half!Outcome \in {"read", "pipe", "error"} /\ (reset = "none" => Half!Outcome = "read")
  BY DEF Half!Outcome
<1> QED
  BY <1>1, <1>2 DEF LinesInv

LEMMA HalfStep ==
    ASSUME LinesInv, Half!Next \/ UNCHANGED programsVars
    PROVE  LinesInv'
<1>1. CASE Half!Arrive \/ UNCHANGED programsVars
  BY <1>1 DEF LinesInv, Half!Arrive, programsVars
<1>2. CASE Half!sig_int
  BY <1>2 DEF LinesInv, Half!sig_int, Half!Serving
<1> QED
  BY <1>1, <1>2, HalfCommand, HalfReadAnswers, HalfServerReads, HalfAnswer DEF Half!Next

-----------------------------------------------------------------------------
(* Where the messages of a stream begin *)

\* The equation of Before has a solution: one for every 0 .. k, by induction,
\* and those agree where they are defined.
LEMMA BeforeRecurs ==
    \A m \in Nat : Msg!Before[m] = IF m <= 1 THEN 0 ELSE Msg!Before[m - 1] + Msg!Size(m - 1)
<1> DEFINE G(f, m) == IF m <= 1 THEN 0 ELSE f[m - 1] + Msg!Size(m - 1)
           Solves(f, k) == \A m \in 0 .. k : f[m] = G(f, m)
<1> HIDE DEF Msg!Size
<1>1. \A k \in Nat : \E f : Solves(f, k)
  <2> DEFINE T == {k \in Nat : \E f : Solves(f, k)}
  <2>1. 0 \in T
    <3>1. Solves([m \in {0} |-> 0], 0)
      OBVIOUS
    <3> QED
      BY <3>1
  <2>2. ASSUME NEW k \in Nat, k \in T PROVE k + 1 \in T
    <3>1. PICK f : Solves(f, k)
      BY <2>2
    <3> DEFINE h == [m \in 0 .. k + 1 |-> IF m = k + 1 THEN G(f, k + 1) ELSE f[m]]
    <3>2. ASSUME NEW m \in 0 .. k + 1 PROVE h[m] = G(h, m)
      <4>1. m > 1 => m - 1 \in 0 .. k /\ h[m - 1] = f[m - 1]
        BY <3>2
      <4>2. G(h, m) = G(f, m)
        BY <3>2, <4>1
      <4>3. CASE m = k + 1
        BY <4>2, <4>3
      <4>4. CASE m # k + 1
        <5>1. m \in 0 .. k /\ h[m] = f[m]
          BY <3>2, <4>4
        <5> QED
          BY <3>1, <4>2, <5>1
      <4> QED
        BY <4>3, <4>4
    <3>3. Solves(h, k + 1)
      BY <3>2
    <3> HIDE DEF h, Solves
    <3> QED
      BY <3>3
  <2> HIDE DEF T, Solves
  <2>3. Nat \subseteq T
    BY <2>1, <2>2, NatInduct
  <2> QED
    BY <2>3 DEF T
<1>2. \A m \in Nat : \A k, l \in Nat : \A f, g :
        m <= k /\ m <= l /\ Solves(f, k) /\ Solves(g, l) => f[m] = g[m]
  <2> DEFINE P(m) == \A k, l \in Nat : \A f, g :
                        m <= k /\ m <= l /\ Solves(f, k) /\ Solves(g, l) => f[m] = g[m]
             T == {m \in Nat : P(m)}
  <2>1. 0 \in T
    OBVIOUS
  <2>2. ASSUME NEW j \in Nat, j \in T PROVE j + 1 \in T
    <3>1. ASSUME NEW k \in Nat, NEW l \in Nat, NEW f, NEW g,
                 j + 1 <= k, j + 1 <= l, Solves(f, k), Solves(g, l)
          PROVE  f[j + 1] = g[j + 1]
      <4>1. f[j] = g[j]
        <5>1. P(j) /\ j <= k /\ j <= l
          BY <2>2, <3>1
        <5> HIDE DEF Solves
        <5> QED
          BY <3>1, <5>1
      <4>2. f[j + 1] = G(f, j + 1) /\ g[j + 1] = G(g, j + 1)
        <5>1. j + 1 \in 0 .. k /\ j + 1 \in 0 .. l
          BY <3>1
        <5> HIDE DEF G
        <5> QED
          BY <3>1, <5>1
      <4>3. (j + 1) - 1 = j
        OBVIOUS
      <4>4. G(f, j + 1) = G(g, j + 1)
        BY <4>1, <4>3
      <4> HIDE DEF G
      <4> QED
        BY <4>2, <4>4
    <3> HIDE DEF Solves
    <3> QED
      BY <3>1
  <2> HIDE DEF T
  <2>3. Nat \subseteq T
    BY <2>1, <2>2, NatInduct
  <2> QED
    BY <2>3 DEF T
<1> DEFINE sol == [k \in Nat |-> CHOOSE f : Solves(f, k)]
           F == [m \in Nat |-> sol[m][m]]
<1>3. \A k \in Nat : Solves(sol[k], k)
  <2> HIDE DEF Solves
  <2> QED
    BY <1>1
<1>4. ASSUME NEW m \in Nat PROVE F[m] = G(F, m)
  <2>1. sol[m][m] = G(sol[m], m)
    <3>1. Solves(sol[m], m) /\ m \in 0 .. m
      BY <1>3
    <3> HIDE DEF sol
    <3> QED
      BY <3>1
  <2>2. m > 1 => m - 1 \in Nat /\ sol[m][m - 1] = sol[m - 1][m - 1]
    <3> HIDE DEF sol, Solves
    <3> QED
      BY <1>2, <1>3
  <2> HIDE DEF sol
  <2> QED
    BY <2>1, <2>2
<1>5. F = [m \in Nat |-> IF m <= 1 THEN 0 ELSE F[m - 1] + Msg!Size(m - 1)]
  <2> HIDE DEF sol
  <2> QED
    BY <1>4
<1>6. Msg!Before = [m \in Nat |-> IF m <= 1 THEN 0 ELSE Msg!Before[m - 1] + Msg!Size(m - 1)]
  <2> HIDE DEF F
  <2> QED
    BY <1>5 DEF Msg!Before
<1> QED
  BY <1>6

LEMMA Begins ==
    ASSUME lengths \in Seq(Nat)
    PROVE  /\ Msg!Before[1] = 0
           /\ \A m \in 1 .. Len(lengths) :
                /\ Msg!Size(m) \in Nat
                /\ Msg!Before[m + 1] = Msg!Before[m] + Msg!Size(m)
           /\ \A m \in 1 .. Len(lengths) + 1 : Msg!Before[m] \in Nat
           /\ \A m \in 1 .. Len(lengths) : Msg!Before[m + 1] <= Msg!Total
<1>1. Len(lengths) \in Nat /\ FIELD \in Nat /\ Msg!Len(lengths) = Len(lengths)
  BY ProgramsAssumption DEF Msg!Len, Len
<1>2. \A m \in 1 .. Len(lengths) : Msg!Size(m) \in Nat
  BY <1>1 DEF Msg!Size
<1>3. Msg!Before[1] = 0
  BY BeforeRecurs
<1>4. ASSUME NEW m \in 1 .. Len(lengths)
      PROVE  Msg!Before[m + 1] = Msg!Before[m] + Msg!Size(m)
  <2>1. m \in Nat /\ m + 1 \in Nat /\ (m + 1) - 1 = m /\ ~(m + 1 <= 1)
    BY <1>1
  <2> QED
    BY <2>1, BeforeRecurs
<1> HIDE DEF Msg!Size, Msg!Before
<1>5. \A m \in 1 .. Len(lengths) + 1 : Msg!Before[m] \in Nat
  <2> DEFINE T == {k \in Nat : k + 1 <= Len(lengths) + 1 => Msg!Before[k + 1] \in Nat}
  <2>1. 0 \in T
    BY <1>3
  <2>2. ASSUME NEW k \in Nat, k \in T PROVE k + 1 \in T
    <3> SUFFICES ASSUME (k + 1) + 1 <= Len(lengths) + 1
                 PROVE  Msg!Before[(k + 1) + 1] \in Nat
      OBVIOUS
    <3>1. k + 1 \in 1 .. Len(lengths) /\ Msg!Before[k + 1] \in Nat
      BY <1>1, <2>2
    <3> QED
      BY <1>2, <1>4, <3>1
  <2> HIDE DEF T
  <2>3. Nat \subseteq T
    BY <2>1, <2>2, NatInduct
  <2> SUFFICES ASSUME NEW m \in 1 .. Len(lengths) + 1 PROVE Msg!Before[m] \in Nat
    OBVIOUS
  <2>4. m - 1 \in T /\ (m - 1) + 1 = m /\ m <= Len(lengths) + 1
    BY <1>1, <2>3
  <2> QED
    BY <2>4 DEF T
<1>6. \A m \in 1 .. Len(lengths) : Msg!Before[m + 1] <= Msg!Total
  <2> DEFINE L == Len(lengths)
             B(k) == Msg!Before[(L + 1) - k]
             T == {k \in Nat : k <= L => B(k) <= Msg!Before[L + 1]}
  <2>1. 0 \in T
    <3>1. (L + 1) - 0 = L + 1 /\ L + 1 \in 1 .. L + 1
      BY <1>1
    <3> QED
      BY <1>5, <3>1
  <2>2. ASSUME NEW k \in Nat, k \in T PROVE k + 1 \in T
    <3> SUFFICES ASSUME k + 1 <= L PROVE B(k + 1) <= Msg!Before[L + 1]
      OBVIOUS
    <3> DEFINE m == L - k
    <3>1. m \in 1 .. L /\ (L + 1) - (k + 1) = m /\ (L + 1) - k = m + 1
      BY <1>1
    <3> HIDE DEF m
    <3>2. Msg!Before[m + 1] <= Msg!Before[L + 1]
      BY <2>2, <3>1
    <3>3. /\ Msg!Before[m + 1] = Msg!Before[m] + Msg!Size(m) /\ Msg!Size(m) \in Nat
          /\ Msg!Before[m] \in Nat /\ Msg!Before[L + 1] \in Nat
      BY <1>1, <1>2, <1>4, <1>5, <3>1
    <3>4. Msg!Before[m] <= Msg!Before[L + 1]
      BY <3>2, <3>3
    <3> QED
      BY <3>1, <3>4
  <2> HIDE DEF T
  <2>3. Nat \subseteq T
    BY <2>1, <2>2, NatInduct
  <2> SUFFICES ASSUME NEW m \in 1 .. Len(lengths) PROVE Msg!Before[m + 1] <= Msg!Total
    OBVIOUS
  <2>4. L - m \in T /\ L - m <= L /\ (L + 1) - (L - m) = m + 1
    BY <1>1, <2>3
  <2>5. Msg!Total = Msg!Before[L + 1]
    BY <1>1 DEF Msg!Total
  <2> QED
    BY <2>4, <2>5 DEF T
<1> QED
  BY <1>2, <1>3, <1>4, <1>5, <1>6

-----------------------------------------------------------------------------
(* The message stream *)

\* The first byte of the field that is read.
FieldStart == Msg!Before[received + 1]
                + (CASE reading = "type" -> FIELD [] reading = "data" -> 2 * FIELD [] OTHER -> 0)

StreamTypes ==
    /\ lengths \in Seq(Nat)
    /\ {queued, delivered, consumed, have} \subseteq Nat
    /\ consumed <= delivered /\ delivered <= queued /\ queued <= Msg!Total
    /\ reading \in {"length", "type", "data", "closed", "toolong"}
    /\ received \in 0 .. Len(lengths)

\* The reader is in the field it takes itself to be in. What it reads as type or
\* data belongs to a message that was sent.
ReaderInv ==
    /\ Msg!InReadn => consumed = FieldStart + have /\ have <= Msg!Want
    /\ reading \in {"type", "data"} => received + 1 \in 1 .. Len(lengths)
    /\ Msg!Before[received + 1] <= consumed

EndInv ==
    /\ reading = "closed" =>
        \/ /\ ended
           /\ received + 1 \in 1 .. Len(lengths) =>
                queued < Msg!Before[received + 1] + Msg!Size(received + 1)
        \/ received + 1 \in 1 .. Len(lengths) /\ lengths[received + 1] = 0
    /\ reading = "toolong" => lengths[received + 1] > BUFFER

StreamInv == StreamTypes /\ ReaderInv /\ EndInv

LEMMA StreamInit == Init => StreamInv
<1> SUFFICES ASSUME Init PROVE StreamInv
  OBVIOUS
<1>1. /\ lengths \in Seq(Nat) /\ Len(lengths) \in Nat
      /\ queued = 0 /\ delivered = 0 /\ reading = "length" /\ have = 0 /\ consumed = 0
      /\ received = 0
  BY ProgramsAssumption DEF Init, Msg!Start
<1>2. Msg!Before[1] = 0
  BY <1>1, Begins
<1>3. 0 <= Msg!Total
  <2>1. Msg!Len(lengths) = Len(lengths)
    BY DEF Msg!Len, Len
  <2>2. Len(lengths) + 1 \in 1 .. Len(lengths) + 1
    BY <1>1
  <2>3. Msg!Before[Len(lengths) + 1] \in Nat
    BY <1>1, <2>2, Begins
  <2> QED
    BY <2>1, <2>3 DEF Msg!Total
<1>4. StreamTypes
  BY <1>1, <1>3 DEF StreamTypes
<1>5. FieldStart = 0 /\ Msg!Want = FIELD /\ FIELD \in Nat
  <2>1. FIELD \in Nat
    BY ProgramsAssumption
  <2>2. received + 1 = 1
    BY <1>1
  <2>3. FieldStart = 0
    BY <1>1, <1>2, <2>2 DEF FieldStart
  <2> QED
    BY <1>1, <2>1, <2>3 DEF Msg!Want
<1>6. ReaderInv
  BY <1>1, <1>2, <1>5 DEF ReaderInv
<1> QED
  BY <1>1, <1>4, <1>6 DEF StreamInv, EndInv

LEMMA SameLengths ==
    ASSUME lengths' = lengths
    PROVE  /\ Msg!Before' = Msg!Before /\ Msg!Total' = Msg!Total
           /\ \A m : Msg!Size(m)' = Msg!Size(m)
           /\ received' = received /\ reading' = reading =>
                /\ FieldStart' = FieldStart /\ Msg!Want' = Msg!Want
                /\ (Msg!InReadn' <=> Msg!InReadn)
<1>1. Msg!Before' = Msg!Before /\ Msg!Total' = Msg!Total
  BY DEF Msg!Before, Msg!Size, Msg!Total
<1>2. \A m : Msg!Size(m)' = Msg!Size(m)
  BY DEF Msg!Size
<1>3. ASSUME received' = received, reading' = reading
      PROVE  /\ FieldStart' = FieldStart /\ Msg!Want' = Msg!Want
             /\ (Msg!InReadn' <=> Msg!InReadn)
  BY <1>1, <1>3 DEF FieldStart, Msg!Want, Msg!Current, Msg!InReadn
<1> QED
  BY <1>1, <1>2, <1>3

LEMMA StreamNumbers ==
    ASSUME StreamTypes
    PROVE  /\ Len(lengths) \in Nat /\ FIELD \in Nat \ {0} /\ BUFFER \in Nat
           /\ queued \in Nat /\ delivered \in Nat /\ consumed \in Nat /\ have \in Nat
           /\ received \in Nat /\ received + 1 \in 1 .. Len(lengths) + 1
           /\ Msg!Before[received + 1] \in Nat /\ Msg!Total \in Nat
           /\ received + 1 \in 1 .. Len(lengths) => lengths[received + 1] \in Nat
           /\ received + 1 \notin 1 .. Len(lengths) => Msg!Before[received + 1] = Msg!Total
<1>1. /\ Len(lengths) \in Nat /\ FIELD \in Nat \ {0} /\ BUFFER \in Nat
      /\ queued \in Nat /\ delivered \in Nat /\ consumed \in Nat /\ have \in Nat
      /\ received \in Nat /\ received + 1 \in 1 .. Len(lengths) + 1
      /\ received + 1 \in 1 .. Len(lengths) => lengths[received + 1] \in Nat
  <2>1. lengths \in Seq(Nat) /\ Len(lengths) \in Nat /\ received \in 0 .. Len(lengths)
    BY DEF StreamTypes
  <2>2. received + 1 \in 1 .. Len(lengths) => lengths[received + 1] \in Nat
    BY <2>1
  <2>3. FIELD \in Nat \ {0} /\ BUFFER \in Nat
    BY ProgramsAssumption
  <2>4. queued \in Nat /\ delivered \in Nat /\ consumed \in Nat /\ have \in Nat
    BY DEF StreamTypes
  <2> QED
    BY <2>1, <2>2, <2>3, <2>4
<1>2. \A m \in 1 .. Len(lengths) + 1 : Msg!Before[m] \in Nat
  BY Begins DEF StreamTypes
<1>3. Msg!Total = Msg!Before[Len(lengths) + 1]
  BY DEF Msg!Total, Msg!Len, Len
<1>4. Len(lengths) + 1 \in 1 .. Len(lengths) + 1
  BY <1>1
<1>5. received + 1 \notin 1 .. Len(lengths) => received + 1 = Len(lengths) + 1
  BY <1>1
<1> QED
  BY <1>1, <1>2, <1>3, <1>4, <1>5

\* The client and the network: the reader stands still.
LEMMA ClientSteps ==
    ASSUME StreamInv, Msg!SendMessage \/ Msg!EndClient \/ Msg!Deliver \/ UNCHANGED programsVars
    PROVE  StreamInv'
<1>1. /\ UNCHANGED <<lengths, reading, have, consumed, received>>
      /\ queued' = queued \/ ~ended
      /\ ended => ended'
  BY DEF Msg!SendMessage, Msg!EndClient, Msg!Deliver, programsVars
<1>2. queued' \in Nat /\ queued <= queued' /\ queued' <= Msg!Total
  <2>1. CASE queued' = queued
    BY <2>1, StreamNumbers DEF StreamInv, StreamTypes
  <2>2. CASE Msg!SendMessage
    <3>1. PICK m \in DOMAIN lengths :
            /\ queued = Msg!Before[m]
            /\ \/ queued' = Msg!Before[m] + Msg!Size(m)
               \/ queued' \in queued .. queued + Msg!Size(m) - 1
      BY <2>2 DEF Msg!SendMessage
    <3>2. /\ m \in 1 .. Len(lengths) /\ Msg!Size(m) \in Nat /\ Msg!Total \in Nat
          /\ queued \in Nat /\ Msg!Before[m + 1] = queued + Msg!Size(m)
          /\ Msg!Before[m + 1] <= Msg!Total
      <4>1. lengths \in Seq(Nat) /\ queued \in Nat /\ Msg!Total \in Nat
        BY StreamNumbers DEF StreamInv, StreamTypes
      <4>2. m \in 1 .. Len(lengths)
        BY <4>1
      <4> QED
        BY <3>1, <4>1, <4>2, Begins
    <3> HIDE DEF Msg!Size, Msg!Total, Msg!Before
    <3>3. queued' \in Nat /\ queued <= queued' /\ queued' <= queued + Msg!Size(m)
      BY <3>1, <3>2
    <3> QED
      BY <3>2, <3>3
  <2> QED
    BY <2>1, <2>2 DEF Msg!SendMessage, Msg!EndClient, Msg!Deliver, programsVars
<1>3. delivered' \in Nat /\ delivered <= delivered' /\ delivered' <= queued'
  <2>1. CASE delivered' = delivered
    <3>1. delivered \in Nat /\ queued \in Nat /\ delivered <= queued
      BY DEF StreamInv, StreamTypes
    <3> QED
      BY <1>2, <2>1, <3>1
  <2>2. CASE Msg!Deliver
    BY <2>2, StreamNumbers DEF StreamInv, Msg!Deliver
  <2> QED
    BY <2>1, <2>2 DEF Msg!SendMessage, Msg!EndClient, programsVars
<1>4. /\ Msg!Before' = Msg!Before /\ Msg!Total' = Msg!Total
      /\ \A m : Msg!Size(m)' = Msg!Size(m)
      /\ FieldStart' = FieldStart /\ Msg!Want' = Msg!Want
      /\ (Msg!InReadn' <=> Msg!InReadn)
  BY <1>1, SameLengths
<1>5. StreamTypes'
  <2>1. consumed' <= delivered'
    BY <1>1, <1>3, StreamNumbers DEF StreamInv, StreamTypes
  <2> QED
    BY <1>1, <1>2, <1>3, <1>4, <2>1 DEF StreamInv, StreamTypes
<1>6. ReaderInv'
  BY <1>1, <1>4 DEF StreamInv, ReaderInv
<1>7. EndInv'
  <2>1. Msg!Size(received + 1)' = Msg!Size(received + 1)
    BY <1>1 DEF Msg!Size
  <2> QED
    BY <1>1, <1>4, <2>1 DEF StreamInv, EndInv
<1> QED
  BY <1>5, <1>6, <1>7 DEF StreamInv

LEMMA ReadnStep ==
    ASSUME StreamInv, Msg!readn
    PROVE  StreamInv'
<1>1. PICK k \in 1 .. Msg!Want - have :
        /\ consumed + k <= delivered
        /\ consumed' = consumed + k
        /\ have' = have + k
  BY DEF Msg!readn
<1>2. /\ Msg!InReadn /\ have < Msg!Want
      /\ UNCHANGED <<lengths, queued, delivered, ended, reading, received>>
  BY DEF Msg!readn
<1>3. /\ Msg!Before' = Msg!Before /\ Msg!Total' = Msg!Total
      /\ FieldStart' = FieldStart /\ Msg!Want' = Msg!Want
      /\ (Msg!InReadn' <=> Msg!InReadn)
  BY <1>2, SameLengths
<1>4. consumed = FieldStart + have /\ have <= Msg!Want
  BY <1>2 DEF StreamInv, ReaderInv
<1>5. Msg!Want \in Nat
  <2>1. reading = "data" => received + 1 \in 1 .. Len(lengths)
    BY DEF StreamInv, ReaderInv
  <2> QED
    BY <2>1, StreamNumbers DEF StreamInv, Msg!Want, Msg!Current
<1>6. FieldStart \in Nat
  <2>1. Msg!Before[received + 1] \in Nat /\ FIELD \in Nat
    BY StreamNumbers DEF StreamInv
  <2> HIDE DEF Msg!Before
  <2> QED
    BY <2>1 DEF FieldStart
<1>7. /\ have \in Nat /\ consumed \in Nat /\ k \in Nat /\ Msg!Before[received + 1] \in Nat
      /\ Msg!Before[received + 1] <= consumed
  <2>1. have \in Nat /\ consumed \in Nat /\ Msg!Before[received + 1] <= consumed
    BY DEF StreamInv, StreamTypes, ReaderInv
  <2>2. Msg!Before[received + 1] \in Nat
    BY StreamNumbers DEF StreamInv
  <2>3. k \in Nat
    BY <1>5, <2>1
  <2> QED
    BY <2>1, <2>2, <2>3
<1> HIDE DEF FieldStart, Msg!Want, Msg!Before
<1>8. /\ have' <= Msg!Want /\ consumed' = FieldStart + have'
      /\ have' \in Nat /\ consumed' \in Nat /\ Msg!Before[received + 1] <= consumed'
  BY <1>1, <1>4, <1>5, <1>6, <1>7
<1>9. StreamTypes'
  BY <1>1, <1>2, <1>3, <1>8 DEF StreamInv, StreamTypes
<1>10. ReaderInv'
  BY <1>2, <1>3, <1>8 DEF StreamInv, ReaderInv
<1>11. EndInv'
  BY <1>2, <1>3 DEF StreamInv, EndInv, Msg!InReadn
<1> QED
  BY <1>9, <1>10, <1>11 DEF StreamInv

LEMMA ReadEndStep ==
    ASSUME StreamInv, Msg!ReadEnd
    PROVE  StreamInv'
<1>1. /\ Msg!InReadn /\ have < Msg!Want /\ ended /\ consumed = queued
      /\ reading' = "closed"
      /\ UNCHANGED <<lengths, queued, delivered, ended, have, consumed, received>>
  BY DEF Msg!ReadEnd
<1>2. /\ Msg!Before' = Msg!Before /\ Msg!Total' = Msg!Total
      /\ Msg!Size(received + 1)' = Msg!Size(received + 1)
  BY <1>1, SameLengths DEF Msg!Size
<1>3. ASSUME received + 1 \in 1 .. Len(lengths)
      PROVE  queued < Msg!Before[received + 1] + Msg!Size(received + 1)
  <2>1. consumed = FieldStart + have
    BY <1>1 DEF StreamInv, ReaderInv
  <2>2. /\ FIELD \in Nat /\ have \in Nat /\ lengths[received + 1] \in Nat
        /\ Msg!Before[received + 1] \in Nat
    BY <1>3, StreamNumbers DEF StreamInv
  <2>3. CASE reading = "length"
    BY <1>1, <2>1, <2>2, <2>3 DEF FieldStart, Msg!Want, Msg!Size
  <2>4. CASE reading = "type"
    BY <1>1, <2>1, <2>2, <2>4 DEF FieldStart, Msg!Want, Msg!Size
  <2>5. CASE reading = "data"
    BY <1>1, <2>1, <2>2, <2>5 DEF FieldStart, Msg!Want, Msg!Size, Msg!Current
  <2> QED
    BY <1>1, <2>3, <2>4, <2>5 DEF Msg!InReadn
<1>4. StreamTypes'
  BY <1>1, <1>2 DEF StreamInv, StreamTypes
<1>5. ReaderInv'
  BY <1>1, <1>2 DEF StreamInv, ReaderInv, Msg!InReadn
<1>6. EndInv'
  BY <1>1, <1>2, <1>3 DEF EndInv
<1> QED
  BY <1>4, <1>5, <1>6 DEF StreamInv

LEMMA ReadMessageStep ==
    ASSUME StreamInv, Msg!read_message
    PROVE  StreamInv'
<1>1. /\ Msg!InReadn /\ have = Msg!Want /\ have' = 0
      /\ UNCHANGED <<lengths, queued, delivered, ended, consumed>>
      /\ received' = IF reading = "data" /\ Msg!Want > 0 THEN received + 1 ELSE received
  BY DEF Msg!read_message
<1>2. /\ reading = "length" => reading' = "type"
      /\ reading = "type" =>
            reading' = IF lengths[received + 1] > BUFFER THEN "toolong" ELSE "data"
      /\ reading = "data" => reading' = IF Msg!Want = 0 THEN "closed" ELSE "length"
  BY DEF Msg!read_message, Msg!Current
<1>3. /\ FIELD \in Nat \ {0} /\ consumed \in Nat /\ received \in Nat /\ Len(lengths) \in Nat
      /\ Msg!Before[received + 1] \in Nat /\ Msg!Total \in Nat /\ BUFFER \in Nat
      /\ consumed <= Msg!Total /\ consumed = FieldStart + have
      /\ Msg!Before[received + 1] <= consumed
  BY <1>1, StreamNumbers DEF StreamInv, StreamTypes, ReaderInv
<1>4. Msg!Before' = Msg!Before /\ Msg!Total' = Msg!Total
  BY <1>1, SameLengths
<1> HIDE DEF Msg!Before, Msg!Total
<1>5. CASE reading = "length"
  <2>1. consumed = Msg!Before[received + 1] + FIELD
    BY <1>1, <1>3, <1>5 DEF FieldStart, Msg!Want
  <2>2. received + 1 \in 1 .. Len(lengths)
    <3>1. received + 1 \notin 1 .. Len(lengths) => Msg!Before[received + 1] = Msg!Total
      BY StreamNumbers DEF StreamInv
    <3>2. Msg!Before[received + 1] # Msg!Total
      BY <1>3, <2>1
    <3> QED
      BY <3>1, <3>2
  <2>3. received' = received /\ reading' = "type"
    BY <1>1, <1>2, <1>5
  <2>4. FieldStart' = Msg!Before[received + 1] + FIELD /\ Msg!Want' = FIELD
    BY <1>4, <2>3 DEF FieldStart, Msg!Want
  <2>5. StreamTypes'
    BY <1>1, <1>4, <2>3 DEF StreamInv, StreamTypes
  <2>6. ReaderInv'
    <3>1. consumed' = FieldStart' + have' /\ have' <= Msg!Want'
      BY <1>1, <1>3, <2>1, <2>4
    <3> QED
      BY <1>1, <1>3, <1>4, <2>2, <2>3, <3>1 DEF ReaderInv
  <2> QED
    BY <2>3, <2>5, <2>6 DEF StreamInv, EndInv
<1>6. CASE reading = "type"
  <2>1. consumed = Msg!Before[received + 1] + 2 * FIELD /\ received + 1 \in 1 .. Len(lengths)
    BY <1>1, <1>3, <1>6 DEF FieldStart, Msg!Want, StreamInv, ReaderInv
  <2>2. /\ received' = received
        /\ reading' = IF lengths[received + 1] > BUFFER THEN "toolong" ELSE "data"
    BY <1>1, <1>2, <1>6
  <2>3. lengths[received + 1] \in Nat
    BY <2>1, StreamNumbers DEF StreamInv
  <2>4. reading' = "data" => FieldStart' = Msg!Before[received + 1] + 2 * FIELD
                             /\ Msg!Want' = lengths[received + 1]
    BY <1>1, <1>4, <2>2 DEF FieldStart, Msg!Want, Msg!Current
  <2>5. StreamTypes'
    BY <1>1, <1>4, <2>2 DEF StreamInv, StreamTypes
  <2>6. ReaderInv'
    <3>1. reading' = "data" => consumed' = FieldStart' + have' /\ have' <= Msg!Want'
      BY <1>1, <1>3, <2>1, <2>3, <2>4
    <3>2. Msg!InReadn' => reading' = "data"
      BY <2>2 DEF Msg!InReadn
    <3> QED
      BY <1>1, <1>3, <1>4, <2>1, <2>2, <3>1, <3>2 DEF ReaderInv
  <2>7. EndInv'
    BY <1>1, <2>2 DEF EndInv
  <2> QED
    BY <2>5, <2>6, <2>7 DEF StreamInv
<1>7. CASE reading = "data"
  <2>1. /\ received + 1 \in 1 .. Len(lengths) /\ Msg!Want = lengths[received + 1]
        /\ lengths[received + 1] \in Nat
    BY <1>7, StreamNumbers DEF StreamInv, ReaderInv, Msg!Want, Msg!Current
  <2>2. consumed = Msg!Before[received + 1] + 2 * FIELD + lengths[received + 1]
    BY <1>1, <1>3, <1>7, <2>1 DEF FieldStart
  <2>3. CASE Msg!Want = 0
    <3>1. received' = received /\ reading' = "closed"
      BY <1>1, <1>2, <1>7, <2>3
    <3>2. StreamTypes'
      BY <1>1, <1>4, <3>1 DEF StreamInv, StreamTypes
    <3>3. ReaderInv'
      BY <1>1, <1>3, <1>4, <3>1 DEF ReaderInv, Msg!InReadn
    <3>4. EndInv'
      BY <1>1, <2>1, <2>3, <3>1 DEF EndInv
    <3> QED
      BY <3>2, <3>3, <3>4 DEF StreamInv
  <2>4. CASE Msg!Want # 0
    <3>1. received' = received + 1 /\ reading' = "length"
      BY <1>1, <1>2, <1>7, <2>1, <2>4
    <3>2. Msg!Before[(received + 1) + 1] = consumed
      <4>1. Msg!Before[(received + 1) + 1] = Msg!Before[received + 1] + Msg!Size(received + 1)
        BY <2>1, Begins DEF StreamInv, StreamTypes
      <4> QED
        BY <1>3, <2>1, <2>2, <4>1 DEF Msg!Size
    <3>3. FieldStart' = consumed /\ Msg!Want' = FIELD
      BY <1>3, <1>4, <3>1, <3>2 DEF FieldStart, Msg!Want
    <3>4. StreamTypes'
      <4>1. received + 1 \in 0 .. Len(lengths)
        BY <1>3, <2>1
      <4> QED
        BY <1>1, <1>4, <3>1, <4>1 DEF StreamInv, StreamTypes
    <3>5. ReaderInv'
      <4>1. consumed' = FieldStart' + have' /\ have' <= Msg!Want'
        BY <1>1, <1>3, <3>3
      <4> QED
        BY <1>1, <1>3, <1>4, <3>1, <3>2, <4>1 DEF ReaderInv
    <3> QED
      BY <3>1, <3>4, <3>5 DEF StreamInv, EndInv
  <2> QED
    BY <2>3, <2>4
<1> QED
  BY <1>1, <1>5, <1>6, <1>7 DEF Msg!InReadn

LEMMA StreamStep ==
    ASSUME StreamInv, Msg!StreamNext \/ UNCHANGED programsVars
    PROVE  StreamInv'
<1> QED
  BY ClientSteps, ReadnStep, ReadEndStep, ReadMessageStep DEF Msg!StreamNext, Msg!StreamServer

\* What is proved of the reader is the property of MessageStream.
LEMMA StreamInStep == StreamInv => Msg!MessagesWhole
<1> SUFFICES ASSUME StreamInv PROVE Msg!MessagesWhole
  OBVIOUS
<1>1. DOMAIN lengths = 1 .. Len(lengths)
  BY DEF StreamInv, StreamTypes
<1>2. Msg!InReadn => consumed = FieldStart + have
  BY DEF StreamInv, ReaderInv
<1>3. Msg!Before[received + 1] <= queued
  BY StreamNumbers DEF StreamInv, ReaderInv, StreamTypes
<1> QED
  BY <1>1, <1>2, <1>3 DEF Msg!MessagesWhole, Msg!Current, FieldStart, StreamInv, EndInv

-----------------------------------------------------------------------------
(* The file server of mid-homework *)

FilesTypes ==
    /\ Files!FilesTypeOK
    /\ mode = "read" => serving \in Files!People
    /\ typed \in [Files!People -> Nat] /\ took \in [Files!People -> Nat]
    /\ seen \in [Files!People -> Nat] /\ answers \in [Files!People -> Seq(Files!Ops)]

\* quit is a client's last line and is not sent. Unless somebody was in a hurry,
\* no connection has been reset and at most one line of a client is ahead.
LinesAhead ==
    /\ \A c \in Files!People :
        /\ c \in gone => took[c] < typed[c]
        /\ \A j \in 1 .. typed[c] : Commands[c][j].op = "quit" => c \in gone /\ j = typed[c]
        /\ ~hurried => typed[c] <= took[c] + 1
    /\ ~hurried => ~broken

FilesInv ==
    FilesTypes /\ LinesAhead /\ Files!PatientClientsAnswered /\ Files!PatientClientsHarmless

LEMMA CommandLists ==
    /\ 0 \notin Files!People /\ Files!People \subseteq Nat
    /\ \A c \in Files!People :
        /\ Len(Commands[c]) \in Nat
        /\ \A j \in 1 .. Len(Commands[c]) :
            Commands[c][j] \in [op : {"pwd", "ls", "other", "quit", "cd", "list"}, path : STRING]
<1> DEFINE Cmds == [op : {"pwd", "ls", "other", "quit", "cd", "list"}, path : STRING]
<1>1. Commands \in Seq(Seq(Cmds))
  BY ProgramsAssumption
<1>2. \A c \in DOMAIN Commands : Commands[c] \in Seq(Cmds) /\ c # 0 /\ c \in Nat
  <2> HIDE DEF Cmds
  <2> QED
    BY <1>1
<1>3. \A s \in Seq(Cmds) : Len(s) \in Nat /\ \A j \in 1 .. Len(s) : s[j] \in Cmds
  <2> HIDE DEF Cmds
  <2> QED
    OBVIOUS
<1> QED
  BY <1>2, <1>3 DEF Files!People

\* The lines before m that are answered, counted.
LEMMA AskedCounts ==
    ASSUME NEW c, NEW m \in Nat
    PROVE  /\ Files!Cardinality(Files!Asked(c, m)) \in Nat
           /\ m + 1 \notin Files!Asked(c, m)
           /\ IF Commands[c][m + 1].op = "cd"
              THEN Files!Asked(c, m + 1) = Files!Asked(c, m)
              ELSE /\ Files!Asked(c, m + 1) = Files!Asked(c, m) \cup {m + 1}
                   /\ Files!Cardinality(Files!Asked(c, m + 1))
                            = Files!Cardinality(Files!Asked(c, m)) + 1
           /\ \A j \in Files!Asked(c, m) :
                Files!Cardinality(Files!Asked(c, j)) \in 1 .. Files!Cardinality(Files!Asked(c, m))
<1> DEFINE A(k) == Files!Asked(c, k)
<1>1. \A S : Files!Cardinality(S) = Cardinality(S)
  BY DEF Files!Cardinality, Cardinality
<1>2. \A k \in Nat : A(k) = {j \in 1 .. k : Commands[c][j].op # "cd"}
  BY DEF Files!Asked, Files!Line
<1>3. \A k \in Nat : IsFiniteSet(A(k)) /\ Cardinality(A(k)) \in Nat
  <2>1. \A k \in Nat : A(k) \subseteq 1 .. k
    BY <1>2
  <2>2. \A k \in Nat : IsFiniteSet(1 .. k)
    BY FS_Interval
  <2> HIDE DEF A
  <2>3. \A k \in Nat : IsFiniteSet(A(k))
    BY <2>1, <2>2, FS_Subset
  <2> QED
    BY <2>3, FS_CardinalityType
<1>4. m + 1 \notin A(m)
  BY <1>2
<1>5. A(m + 1) = IF Commands[c][m + 1].op = "cd" THEN A(m) ELSE A(m) \cup {m + 1}
  <2>1. \A j : j \in 1 .. m + 1 <=> j \in 1 .. m \/ j = m + 1
    OBVIOUS
  <2>2. m + 1 \in Nat
    OBVIOUS
  <2>3. A(m + 1) = {j \in 1 .. m + 1 : Commands[c][j].op # "cd"}
    BY <1>2, <2>2
  <2>4. A(m) = {j \in 1 .. m : Commands[c][j].op # "cd"}
    BY <1>2
  <2> HIDE DEF A
  <2> QED
    BY <2>1, <2>3, <2>4
<1>6. Cardinality(A(m) \cup {m + 1}) = Cardinality(A(m)) + 1
  <2> HIDE DEF A
  <2> QED
    BY <1>3, <1>4, FS_AddElement
<1>7. ASSUME NEW j \in A(m)
      PROVE  Cardinality(A(j)) \in 1 .. Cardinality(A(m))
  <2>1. j \in Nat /\ A(j) \subseteq A(m) /\ j \in A(j)
    BY <1>2, <1>7
  <2> HIDE DEF A
  <2>2. Cardinality(A(j)) <= Cardinality(A(m)) /\ Cardinality(A(j)) # 0
    BY <1>3, <2>1, FS_Subset, FS_EmptySet
  <2> QED
    BY <1>3, <2>1, <2>2
<1> QED
  BY <1>1, <1>3, <1>4, <1>5, <1>6, <1>7

LEMMA FilesInit == Init => FilesInv
<1> SUFFICES ASSUME Init PROVE FilesInv
  OBVIOUS
<1>1. /\ mode = "accept" /\ serving = 0 /\ cwd = "top" /\ broken = FALSE
      /\ conn = [c \in Files!People |-> "none"] /\ gone = {}
      /\ typed = [c \in Files!People |-> 0] /\ took = [c \in Files!People |-> 0]
      /\ answers = [c \in Files!People |-> <<>>] /\ seen = [c \in Files!People |-> 0]
      /\ hurried = FALSE
  BY DEF Init, Files!Start
<1>2. FilesTypes
  <2>1. \A c \in Files!People : /\ answers[c] = <<>> /\ Len(answers[c]) = 0
                                /\ seen[c] = 0 /\ took[c] = 0 /\ typed[c] = 0
                                /\ Len(Commands[c]) \in Nat
    BY <1>1, CommandLists
  <2>2. answers \in [Files!People -> Seq(Files!Ops)]
    <3>1. <<>> \in Seq(Files!Ops)
      OBVIOUS
    <3> QED
      BY <1>1, <3>1
  <2>3. conn \in [Files!People -> {"none", "waiting", "open", "closed"}]
        /\ typed \in [Files!People -> Nat] /\ took \in [Files!People -> Nat]
        /\ seen \in [Files!People -> Nat]
    BY <1>1
  <2>4. Files!FilesTypeOK
    <3>1. \A c \in Files!People :
            /\ answers[c] \in Seq(Files!Ops) /\ seen[c] \in 0 .. Len(answers[c])
            /\ took[c] \in 0 .. typed[c] /\ typed[c] \in 0 .. Len(Commands[c])
      BY <2>1, <2>2
    <3>2. \A c : Files!Len(answers[c]) = Len(answers[c]) /\ Files!Len(Commands[c]) = Len(Commands[c])
      BY DEF Files!Len, Len
    <3> HIDE DEF Files!Ops
    <3> QED
      BY <1>1, <2>3, <3>1, <3>2 DEF Files!FilesTypeOK
  <2> QED
    BY <1>1, <2>2, <2>3, <2>4 DEF FilesTypes
<1>3. LinesAhead
  BY <1>1 DEF LinesAhead
<1>4. \A c : Files!Asked(c, 0) = {}
  BY DEF Files!Asked
<1>5. Files!Cardinality({}) = 0
  <2>1. Files!Cardinality({}) = Cardinality({})
    BY DEF Files!Cardinality, Cardinality
  <2> QED
    BY <2>1, FS_EmptySet
<1> QED
  BY <1>1, <1>2, <1>3, <1>4, <1>5
  DEF FilesInv, Files!PatientClientsAnswered, Files!PatientClientsHarmless

\* The server has not read and not answered.
LEMMA FilesQuiet ==
    ASSUME FilesInv, UNCHANGED <<took, answers, cwd>>, hurried => hurried',
           mode' = "dead" => mode = "dead" /\ serving' = serving,
           mode = "dead" => mode' = "dead"
    PROVE  Files!PatientClientsAnswered' /\ Files!PatientClientsHarmless'
<1> QED
  BY DEF FilesInv, Files!PatientClientsAnswered, Files!PatientClientsHarmless, Files!Line,
         Files!Exists, Files!Asked

LEMMA FilesConnects ==
    ASSUME FilesInv, NEW c \in Files!People, Files!Connect(c)
    PROVE  FilesInv'
<1>1. /\ conn' = [conn EXCEPT ![c] = "waiting"]
      /\ UNCHANGED <<mode, serving, cwd, broken, gone, typed, took, answers, seen, hurried>>
  BY DEF Files!Connect
<1>2. FilesTypes' /\ LinesAhead'
  BY <1>1 DEF FilesInv, FilesTypes, Files!FilesTypeOK, LinesAhead
<1> QED
  BY <1>1, <1>2, FilesQuiet DEF FilesInv

LEMMA FilesTypesLine ==
    ASSUME FilesInv, NEW c \in Files!People, Files!Type(c)
    PROVE  FilesInv'
<1>1. /\ c \notin gone /\ typed[c] < Len(Commands[c])
      /\ typed' = [typed EXCEPT ![c] = @ + 1]
      /\ gone' = gone \cup {d \in {c} : Commands[c][typed'[c]].op = "quit"}
      /\ broken' = (broken \/ (c \in gone' /\ seen[c] < Len(answers[c])))
      /\ hurried' = (hurried \/ took[c] < typed[c] \/ seen[c] < Len(answers[c]))
      /\ UNCHANGED <<mode, serving, cwd, conn, took, answers, seen>>
  BY DEF Files!Type, Files!Line, Files!Len, Len
<1>2. /\ Len(Commands[c]) \in Nat /\ typed[c] \in Nat /\ took[c] \in Nat /\ took[c] <= typed[c]
      /\ typed'[c] = typed[c] + 1 /\ \A d \in Files!People : d # c => typed'[d] = typed[d]
      /\ typed' \in [Files!People -> Nat]
  BY <1>1, CommandLists DEF FilesInv, FilesTypes, Files!FilesTypeOK
<1>3. FilesTypes'
  <2>1. \A d \in Files!People : took'[d] \in 0 .. typed'[d] /\ typed'[d] \in 0 .. Len(Commands[d])
    BY <1>1, <1>2 DEF FilesInv, FilesTypes, Files!FilesTypeOK, Files!Len, Len
  <2>2. broken' \in BOOLEAN /\ hurried' \in BOOLEAN /\ gone' \subseteq Files!People
    BY <1>1 DEF FilesInv, FilesTypes, Files!FilesTypeOK
  <2> QED
    BY <1>1, <1>2, <2>1, <2>2 DEF FilesInv, FilesTypes, Files!FilesTypeOK, Files!Len, Len
<1>4. LinesAhead'
  <2>1. ASSUME NEW d \in Files!People
        PROVE  /\ d \in gone' => took'[d] < typed'[d]
               /\ \A j \in 1 .. typed'[d] :
                    Commands[d][j].op = "quit" => d \in gone' /\ j = typed'[d]
               /\ ~hurried' => typed'[d] <= took'[d] + 1
    <3>1. CASE d = c
      <4>1. ASSUME NEW j \in 1 .. typed'[c], Commands[c][j].op = "quit"
            PROVE  c \in gone' /\ j = typed'[c]
        <5>1. j \notin 1 .. typed[c]
          BY <1>1, <4>1 DEF FilesInv, LinesAhead
        <5>2. j = typed'[c]
          BY <1>2, <5>1
        <5> QED
          BY <1>1, <4>1, <5>2
      <4>2. ~hurried' => typed[c] = took[c]
        <5>1. ~hurried' => ~(took[c] < typed[c])
          BY <1>1
        <5> QED
          BY <1>2, <5>1
      <4> QED
        BY <1>1, <1>2, <3>1, <4>1, <4>2
    <3>2. CASE d # c
      BY <1>1, <1>2, <3>2 DEF FilesInv, LinesAhead
    <3> QED
      BY <3>1, <3>2
  <2>2. ~hurried' => ~broken'
    BY <1>1 DEF FilesInv, LinesAhead
  <2> QED
    BY <2>1, <2>2 DEF LinesAhead
<1> QED
  BY <1>1, <1>3, <1>4, FilesQuiet DEF FilesInv

LEMMA FilesQuietSteps ==
    ASSUME FilesInv,
           \/ \E c \in Files!People : Files!Show(c)
           \/ Files!AcceptClient \/ Files!ClientClosed \/ UNCHANGED programsVars
    PROVE  FilesInv'
<1>1. CASE \E c \in Files!People : Files!Show(c)
  <2>1. PICK c \in Files!People :
          /\ seen' = [seen EXCEPT ![c] = Len(answers[c])]
          /\ UNCHANGED <<mode, serving, cwd, broken, conn, gone, typed, took, answers, hurried>>
    BY <1>1 DEF Files!Show, Files!Len, Len
  <2>2. seen' \in [Files!People -> Nat]
        /\ \A d \in Files!People : seen'[d] \in 0 .. Len(answers[d])
    <3>1. \A d \in Files!People : Len(answers[d]) \in Nat
      BY DEF FilesInv, FilesTypes
    <3> QED
      BY <2>1, <3>1 DEF FilesInv, FilesTypes, Files!FilesTypeOK, Files!Len, Len
  <2>3. FilesTypes' /\ LinesAhead'
    BY <2>1, <2>2 DEF FilesInv, FilesTypes, Files!FilesTypeOK, LinesAhead, Files!Len, Len
  <2> QED
    BY <2>1, <2>3, FilesQuiet DEF FilesInv
<1>2. CASE Files!AcceptClient
  <2>1. /\ mode = "accept" /\ mode' = "read" /\ broken' = FALSE
        /\ serving' \in Files!People /\ conn' = [conn EXCEPT ![serving'] = "open"]
        /\ UNCHANGED <<cwd, gone, typed, took, answers, seen, hurried>>
    <3>1. Files!Queue \in SUBSET Nat
      BY CommandLists DEF Files!Queue
    <3>2. Files!Min(Files!Queue) = Min(Files!Queue)
      BY DEF Files!Min, Min
    <3>3. Files!Queue # {} => Files!Min(Files!Queue) \in Files!Queue
      BY <3>1, <3>2, MinIsLeast
    <3> QED
      BY <1>2, <3>3 DEF Files!AcceptClient, Files!Queue
  <2>2. FilesTypes' /\ LinesAhead'
    BY <2>1 DEF FilesInv, FilesTypes, Files!FilesTypeOK, LinesAhead
  <2> QED
    BY <2>1, <2>2, FilesQuiet DEF FilesInv
<1>3. CASE Files!ClientClosed
  <2>1. /\ mode = "read" /\ mode' = "accept" /\ conn' = [conn EXCEPT ![serving] = "closed"]
        /\ UNCHANGED <<serving, cwd, broken, gone, typed, took, answers, seen, hurried>>
    BY <1>3 DEF Files!ClientClosed
  <2>2. FilesTypes' /\ LinesAhead'
    BY <2>1 DEF FilesInv, FilesTypes, Files!FilesTypeOK, LinesAhead
  <2> QED
    BY <2>1, <2>2, FilesQuiet DEF FilesInv
<1>4. CASE UNCHANGED programsVars
  <2>1. UNCHANGED <<mode, serving, cwd, broken, conn, gone, typed, took, answers, seen, hurried>>
    BY <1>4 DEF programsVars
  <2>2. FilesTypes' /\ LinesAhead'
    BY <2>1 DEF FilesInv, FilesTypes, Files!FilesTypeOK, LinesAhead
  <2> QED
    BY <2>1, <2>2, FilesQuiet DEF FilesInv
<1> QED
  BY <1>1, <1>2, <1>3, <1>4

\* The answers that a command may get which was read by itself.
RightAnswers(op) ==
    CASE op = "other" -> {"error"} [] op = "pwd" -> {"pwd", "garbled"} [] OTHER -> {op}

LEMMA FilesReads ==
    ASSUME FilesInv, Files!ReadCommand
    PROVE  FilesInv'
<1> DEFINE l == Commands[serving][took[serving] + 1]
<1>1. /\ mode = "read" /\ serving \in Files!People
      /\ UNCHANGED <<serving, conn, gone, typed, seen, hurried>>
  BY DEF FilesInv, FilesTypes, Files!ReadCommand
<1>2. PICK many \in 1 .. Files!Pending(serving) :
        /\ took' = [took EXCEPT ![serving] = @ + many]
        /\ CASE l.op = "cd" -> Files!cd(l, many)
             [] l.op = "list" -> Files!ls_cmd(l, many)
             [] l.op = "pwd" /\ many = 1 -> \E path \in Files!pwd_cmd : Files!send(path)
             [] OTHER -> Files!send(IF many = 1 /\ l.op # "other" THEN l.op ELSE "error")
  BY DEF Files!ReadCommand, Files!Line
<1>3. /\ took[serving] \in Nat /\ typed[serving] \in Nat /\ many \in Nat /\ many >= 1
      /\ took[serving] + many <= typed[serving] /\ typed[serving] <= Len(Commands[serving])
      /\ serving \in gone => took[serving] + many < typed[serving]
      /\ Len(Commands[serving]) \in Nat
  <2>1. /\ took[serving] \in Nat /\ typed[serving] \in Nat /\ Len(Commands[serving]) \in Nat
        /\ typed[serving] <= Len(Commands[serving])
    BY <1>1, CommandLists DEF FilesInv, FilesTypes, Files!FilesTypeOK, Files!Len, Len
  <2> QED
    BY <2>1 DEF Files!Pending
<1>4. /\ took'[serving] = took[serving] + many
      /\ \A c \in Files!People : c # serving => took'[c] = took[c]
      /\ took' \in [Files!People -> Nat]
  BY <1>1, <1>2, <1>3 DEF FilesInv, FilesTypes
<1>5. l.op \in {"pwd", "ls", "other", "cd", "list"}
  <2>1. took[serving] + 1 \in 1 .. typed[serving] /\ took[serving] + 1 \in 1 .. Len(Commands[serving])
    BY <1>3
  <2>2. l \in [op : {"pwd", "ls", "other", "quit", "cd", "list"}, path : STRING]
    BY <1>1, <2>1, CommandLists
  <2>3. l.op # "quit"
    <3> SUFFICES ASSUME l.op = "quit" PROVE FALSE
      OBVIOUS
    <3>1. serving \in gone /\ took[serving] + 1 = typed[serving]
      BY <1>1, <2>1 DEF FilesInv, LinesAhead
    <3> QED
      BY <1>3, <3>1
  <2> HIDE DEF l
  <2> QED
    BY <2>2, <2>3
<1>6. ~hurried => many = 1 /\ serving \notin gone /\ broken = FALSE
                  /\ typed[serving] = took[serving] + 1
  <2>1. ~hurried => typed[serving] <= took[serving] + 1 /\ ~broken
    BY <1>1 DEF FilesInv, LinesAhead
  <2>2. broken \in BOOLEAN
    BY DEF FilesInv, FilesTypes, Files!FilesTypeOK
  <2> QED
    BY <1>3, <2>1, <2>2
<1>7. /\ mode' \in {"read", "dead"} /\ cwd' \in {"top", "sub"} /\ broken' \in BOOLEAN
      /\ \/ answers' = answers
         \/ \E a \in Files!Ops : answers' = [answers EXCEPT ![serving] = Append(@, a)]
  <2>1. \A a : Files!send(a) =>
            /\ mode' \in {"read", "dead"} /\ cwd' = cwd /\ broken' \in {broken, TRUE}
            /\ answers' \in {answers, [answers EXCEPT ![serving] = Append(@, a)]}
    BY <1>1 DEF Files!send, Files!Append, Append
  <2>2. broken \in BOOLEAN /\ cwd \in {"top", "sub"}
    BY DEF FilesInv, FilesTypes, Files!FilesTypeOK
  <2> HIDE DEF l
  <2>3. CASE l.op = "cd"
    BY <1>1, <1>2, <2>2, <2>3 DEF Files!cd
  <2>4. CASE l.op = "list"
    <3>1. Files!send("list") \/ (mode' = "dead" /\ UNCHANGED <<cwd, answers, broken>>)
      BY <1>2, <2>4 DEF Files!ls_cmd
    <3> QED
      BY <2>1, <2>2, <3>1 DEF Files!Ops
  <2>5. CASE l.op \notin {"cd", "list"}
    <3>1. PICK a \in Files!Ops : Files!send(a)
      <4>1. (IF many = 1 /\ l.op # "other" THEN l.op ELSE "error") \in Files!Ops
        BY <1>5, <2>5 DEF Files!Ops
      <4>2. \/ \E path \in Files!pwd_cmd : Files!send(path)
            \/ Files!send(IF many = 1 /\ l.op # "other" THEN l.op ELSE "error")
        BY <1>2, <2>5
      <4>3. Files!pwd_cmd \subseteq Files!Ops
        BY DEF Files!pwd_cmd, Files!Ops
      <4> QED
        BY <4>1, <4>2, <4>3
    <3> QED
      BY <2>1, <2>2, <3>1
  <2> QED
    BY <2>3, <2>4, <2>5
<1>8. FilesTypes'
  <2>1. answers' \in [Files!People -> Seq(Files!Ops)]
        /\ \A c \in Files!People : Len(answers[c]) <= Len(answers'[c])
    <3>1. answers \in [Files!People -> Seq(Files!Ops)]
      BY DEF FilesInv, FilesTypes
    <3>2. \A c \in Files!People : Len(answers[c]) \in Nat
      BY <3>1
    <3>3. CASE answers' = answers
      BY <3>1, <3>2, <3>3
    <3>4. ASSUME NEW a \in Files!Ops, answers' = [answers EXCEPT ![serving] = Append(@, a)]
          PROVE  answers' \in [Files!People -> Seq(Files!Ops)]
                 /\ \A c \in Files!People : Len(answers[c]) <= Len(answers'[c])
      <4>1. /\ Append(answers[serving], a) \in Seq(Files!Ops)
            /\ Len(Append(answers[serving], a)) = Len(answers[serving]) + 1
        <5> HIDE DEF Files!Ops
        <5> QED
          BY <1>1, <3>1, <3>4
      <4>2. \A c \in Files!People :
                answers'[c] = IF c = serving THEN Append(answers[serving], a) ELSE answers[c]
        BY <3>1, <3>4
      <4> HIDE DEF Files!Ops
      <4> QED
        BY <1>1, <3>1, <3>2, <3>4, <4>1, <4>2
    <3> QED
      BY <1>7, <3>3, <3>4
  <2>2. \A c \in Files!People :
          /\ answers'[c] \in Seq(Files!Ops) /\ seen'[c] \in 0 .. Len(answers'[c])
          /\ took'[c] \in 0 .. typed'[c] /\ typed'[c] \in 0 .. Len(Commands[c])
    <3> SUFFICES ASSUME NEW c \in Files!People
                 PROVE  /\ answers'[c] \in Seq(Files!Ops) /\ seen'[c] \in 0 .. Len(answers'[c])
                        /\ took'[c] \in 0 .. typed'[c] /\ typed'[c] \in 0 .. Len(Commands[c])
      OBVIOUS
    <3>1. /\ seen[c] \in 0 .. Len(answers[c]) /\ answers[c] \in Seq(Files!Ops)
          /\ took[c] \in 0 .. typed[c] /\ typed[c] \in 0 .. Len(Commands[c])
          /\ typed[c] \in Nat
      BY DEF FilesInv, FilesTypes, Files!FilesTypeOK, Files!Len, Len
    <3>2. answers'[c] \in Seq(Files!Ops) /\ seen'[c] \in 0 .. Len(answers'[c])
      <4>1. Len(answers'[c]) \in Nat /\ Len(answers[c]) \in Nat /\ Len(answers[c]) <= Len(answers'[c])
        BY <2>1, <3>1
      <4> QED
        BY <1>1, <2>1, <3>1, <4>1
    <3>3. took'[c] \in 0 .. typed'[c]
      BY <1>1, <1>3, <1>4, <3>1
    <3> QED
      BY <1>1, <3>1, <3>2, <3>3
  <2>3. \A c : Files!Len(answers'[c]) = Len(answers'[c]) /\ Files!Len(Commands[c]) = Len(Commands[c])
    BY DEF Files!Len, Len
  <2>4. /\ serving \in Files!People \cup {0} /\ gone \subseteq Files!People /\ hurried \in BOOLEAN
        /\ conn \in [Files!People -> {"none", "waiting", "open", "closed"}]
        /\ typed \in [Files!People -> Nat] /\ seen \in [Files!People -> Nat]
    BY DEF FilesInv, FilesTypes, Files!FilesTypeOK
  <2>5. Files!FilesTypeOK'
    <3> HIDE DEF Files!Ops
    <3> QED
      BY <1>1, <1>7, <2>2, <2>3, <2>4 DEF Files!FilesTypeOK
  <2>6. answers' \in [Files!People -> Seq(Files!Ops)]
    BY <2>1
  <2>7. typed' \in [Files!People -> Nat] /\ took' \in [Files!People -> Nat]
        /\ seen' \in [Files!People -> Nat]
    BY <1>1, <1>4, <2>4
  <2>8. Files!FilesTypeOK' /\ (mode' = "read" => serving' \in Files!People)
    BY <1>1, <2>5
  <2> QED
    BY <2>6, <2>7, <2>8 DEF FilesTypes
<1>9. LinesAhead'
  <2>1. ASSUME NEW c \in Files!People
        PROVE  /\ c \in gone => took'[c] < typed[c]
               /\ ~hurried => typed[c] <= took'[c] + 1
    <3>1. (c \in gone => took[c] < typed[c]) /\ (~hurried => typed[c] <= took[c] + 1)
      BY DEF FilesInv, LinesAhead
    <3> QED
      BY <1>3, <1>4, <1>6, <3>1
  <2>2. ~hurried => ~broken'
    <3> SUFFICES ASSUME ~hurried PROVE ~broken'
      OBVIOUS
    <3>1. \A a : Files!send(a) => broken' = broken
      BY <1>6 DEF Files!send
    <3>2. broken' = broken
      BY <1>2, <3>1 DEF Files!cd, Files!ls_cmd
    <3> QED
      BY <1>6, <3>2
  <2> QED
    BY <1>1, <2>1, <2>2 DEF FilesInv, LinesAhead
<1>10. Files!PatientClientsAnswered'
  <2> SUFFICES ASSUME ~hurried, mode' # "dead", NEW c \in Files!People
               PROVE  /\ Len(answers'[c]) = Files!Cardinality(Files!Asked(c, took'[c]))
                      /\ \A j \in Files!Asked(c, took'[c]) :
                            answers'[c][Files!Cardinality(Files!Asked(c, j))]
                                \in RightAnswers(Commands[c][j].op)
    BY <1>1 DEF Files!PatientClientsAnswered, Files!Line, Files!Len, Len, Files!Asked,
                Files!Cardinality, RightAnswers
  <2>1. /\ Len(answers[c]) = Files!Cardinality(Files!Asked(c, took[c]))
        /\ \A j \in Files!Asked(c, took[c]) :
              answers[c][Files!Cardinality(Files!Asked(c, j))]
                  \in RightAnswers(Commands[c][j].op)
    BY <1>1 DEF FilesInv, Files!PatientClientsAnswered, Files!Line, Files!Len, Len,
                RightAnswers
  <2>2. CASE c # serving
    <3>1. answers'[c] = answers[c]
      BY <1>7, <2>2 DEF FilesInv, FilesTypes
    <3> QED
      BY <1>4, <2>1, <2>2, <3>1
  <2>3. CASE c = serving
    <3> DEFINE m == took[serving]
    <3>1. took'[c] = m + 1 /\ m \in Nat
      BY <1>3, <1>4, <1>6, <2>3
    <3>2. \A a : Files!send(a) => answers' = [answers EXCEPT ![serving] = Append(@, a)]
      BY <1>6 DEF Files!send, Files!Append, Append
    <3>3. CASE l.op = "cd"
      <4>1. answers' = answers
        BY <1>2, <3>3 DEF Files!cd
      <4>2. Files!Asked(c, m + 1) = Files!Asked(c, m)
        BY <2>3, <3>1, <3>3, AskedCounts
      <4> QED
        BY <2>1, <2>3, <3>1, <4>1, <4>2
    <3>4. CASE l.op # "cd"
      <4>1. PICK a \in RightAnswers(l.op) :
                a \in Files!Ops /\ answers' = [answers EXCEPT ![serving] = Append(@, a)]
        <5>1. \E a \in RightAnswers(l.op) : Files!send(a)
          <6>1. CASE l.op = "list"
            BY <1>1, <1>2, <2>1, <6>1 DEF Files!ls_cmd, RightAnswers
          <6>2. CASE l.op = "pwd"
            BY <1>2, <1>6, <6>2 DEF Files!pwd_cmd, RightAnswers
          <6>3. CASE l.op \notin {"list", "pwd"}
            BY <1>2, <1>6, <3>4, <6>3 DEF RightAnswers
          <6> QED
            BY <6>1, <6>2, <6>3
        <5>2. RightAnswers(l.op) \subseteq Files!Ops
          BY <1>5, <3>4 DEF RightAnswers, Files!Ops
        <5> HIDE DEF l
        <5> QED
          BY <3>2, <5>1, <5>2
      <4>2. answers[c] \in Seq(Files!Ops) /\ answers'[c] = Append(answers[c], a)
        BY <1>1, <2>3, <4>1 DEF FilesInv, FilesTypes
      <4>3. /\ Len(answers[c]) \in Nat /\ Len(answers'[c]) = Len(answers[c]) + 1
            /\ answers'[c][Len(answers[c]) + 1] = a
            /\ \A j \in 1 .. Len(answers[c]) : answers'[c][j] = answers[c][j]
        <5> HIDE DEF Files!Ops
        <5> QED
          BY <4>1, <4>2
      <4> DEFINE K(j) == Files!Cardinality(Files!Asked(c, j))
      <4>4. /\ Files!Asked(c, m + 1) = Files!Asked(c, m) \cup {m + 1} /\ K(m + 1) = K(m) + 1
            /\ \A j \in Files!Asked(c, m) : K(j) \in 1 .. K(m)
        BY <2>3, <3>1, <3>4, AskedCounts
      <4>5. ASSUME NEW j \in Files!Asked(c, m + 1)
            PROVE  answers'[c][K(j)] \in RightAnswers(Commands[c][j].op)
        <5>1. CASE j = m + 1
          BY <2>1, <2>3, <4>1, <4>3, <4>4, <5>1
        <5>2. CASE j \in Files!Asked(c, m)
          <6>1. K(j) \in 1 .. Len(answers[c])
            BY <2>1, <2>3, <4>4, <5>2
          <6>2. answers'[c][K(j)] = answers[c][K(j)]
            BY <4>3, <6>1
          <6> QED
            BY <2>1, <2>3, <5>2, <6>2
        <5> QED
          BY <4>4, <4>5, <5>1, <5>2
      <4> QED
        BY <2>1, <2>3, <3>1, <4>3, <4>4, <4>5
    <3> QED
      BY <3>3, <3>4
  <2> QED
    BY <2>2, <2>3
<1>11. Files!PatientClientsHarmless'
  <2> SUFFICES ASSUME ~hurried, mode' = "dead"
               PROVE  l.op = "list" /\ ~Files!Exists(l.path) /\ cwd' = cwd
    BY <1>1, <1>3, <1>4, <1>6 DEF Files!PatientClientsHarmless, Files!Line, Files!Exists
  <2>1. \A a : Files!send(a) => mode' = mode
    BY <1>6 DEF Files!send
  <2> HIDE DEF l
  <2>2. l.op = "list"
    BY <1>1, <1>2, <2>1 DEF Files!cd
  <2>3. Files!ls_cmd(l, many)
    BY <1>2, <2>2
  <2> QED
    BY <1>1, <1>6, <2>1, <2>2, <2>3 DEF Files!ls_cmd
<1> QED
  BY <1>8, <1>9, <1>10, <1>11 DEF FilesInv

LEMMA FilesStep ==
    ASSUME FilesInv, Files!FilesNext \/ UNCHANGED programsVars
    PROVE  FilesInv'
<1> QED
  BY FilesConnects, FilesTypesLine, FilesQuietSteps, FilesReads DEF Files!FilesNext

-----------------------------------------------------------------------------
(* Bags of datagrams *)

IsBag(B) == B \in [DOMAIN B -> Nat \ {0}]
Single(d) == Udp!SetToBag({d})

LEMMA BagAdds ==
    ASSUME NEW B, IsBag(B), NEW d
    PROVE  LET C == Udp!(+)(B, Single(d))
           IN  /\ IsBag(C) /\ DOMAIN C = DOMAIN B \cup {d}
               /\ \A e \in DOMAIN B : e # d => C[e] = B[e]
               /\ d \notin DOMAIN B => C[d] = 1
<1> DEFINE S == Single(d)
           C == Udp!(+)(B, S)
<1>1. DOMAIN S = {d} /\ S[d] = 1
  BY DEF Single, Udp!SetToBag
<1> HIDE DEF S
<1>2. C = [e \in DOMAIN B \cup {d} |-> (IF e \in DOMAIN B THEN B[e] ELSE 0)
                                        + (IF e \in {d} THEN S[e] ELSE 0)]
  BY <1>1 DEF Udp!(+)
<1>3. DOMAIN C = DOMAIN B \cup {d}
  BY <1>2
<1>4. \A e \in DOMAIN B : B[e] \in Nat \ {0}
  BY DEF IsBag
<1>5. \A e \in DOMAIN B \cup {d} : C[e] \in Nat \ {0}
  BY <1>1, <1>2, <1>4
<1>6. \A e \in DOMAIN B : e # d => C[e] = B[e]
  BY <1>1, <1>2, <1>4
<1>7. d \notin DOMAIN B => C[d] = 1
  BY <1>1, <1>2
<1>8. C = [e \in DOMAIN C |-> C[e]]
  BY <1>2
<1> HIDE DEF C
<1>9. C \in [DOMAIN C -> Nat \ {0}]
  BY <1>3, <1>5, <1>8
<1> QED
  BY <1>3, <1>6, <1>7, <1>9 DEF C, S, IsBag

LEMMA BagTakes ==
    ASSUME NEW B, IsBag(B), NEW d \in DOMAIN B
    PROVE  LET C == Udp!(-)(B, Single(d))
           IN  /\ IsBag(C) /\ DOMAIN B \ {d} \subseteq DOMAIN C /\ DOMAIN C \subseteq DOMAIN B
               /\ \A e \in DOMAIN B : e # d => C[e] = B[e]
               /\ d \in DOMAIN C => B[d] # 1
<1> DEFINE S == Single(d)
           C == Udp!(-)(B, S)
           D == [e \in DOMAIN B |-> IF e \in {d} THEN B[e] - S[e] ELSE B[e]]
<1>1. DOMAIN S = {d} /\ S[d] = 1
  BY DEF Single, Udp!SetToBag
<1> HIDE DEF S
<1>2. C = [e \in {x \in DOMAIN D : D[x] > 0} |-> D[e]]
  BY <1>1 DEF Udp!(-)
<1>3. \A e \in DOMAIN B : B[e] \in Nat \ {0}
  BY DEF IsBag
<1>4. /\ DOMAIN D = DOMAIN B /\ D[d] = B[d] - 1
      /\ \A e \in DOMAIN B : e # d => D[e] = B[e]
  BY <1>1
<1> HIDE DEF D
<1>5. /\ DOMAIN C = {x \in DOMAIN D : D[x] > 0}
      /\ \A e \in DOMAIN C : C[e] = D[e]
  BY <1>2
<1>6. \A e \in DOMAIN C : C[e] \in Nat \ {0}
  BY <1>3, <1>4, <1>5
<1>7. C = [e \in DOMAIN C |-> C[e]]
  BY <1>2
<1> HIDE DEF C
<1>8. C \in [DOMAIN C -> Nat \ {0}]
  BY <1>6, <1>7
<1>9. DOMAIN B \ {d} \subseteq DOMAIN C /\ DOMAIN C \subseteq DOMAIN B
  BY <1>3, <1>4, <1>5
<1>10. \A e \in DOMAIN B : e # d => C[e] = B[e]
  BY <1>4, <1>5, <1>9
<1>11. d \in DOMAIN C => B[d] # 1
  BY <1>3, <1>4, <1>5
<1> QED
  BY <1>8, <1>9, <1>10, <1>11 DEF C, S, IsBag

-----------------------------------------------------------------------------
(* What is in a message *)

Letters == [from : Udp!Callers \cup {0}, to : Udp!Callers \cup {0}, text : Seq(Udp!Chars)]

LEMMA CallersAre ==
    /\ 0 \notin Udp!Callers /\ Udp!Callers \subseteq Nat
    /\ \A c \in Udp!Callers : Len(Typed[c]) \in Nat /\ DOMAIN Typed[c] = 1 .. Len(Typed[c])
<1> DEFINE S == Seq({"short", "long", "goodbye"})
<1>1. Typed \in Seq(S)
  BY ProgramsAssumption
<1>2. Udp!Callers = 1 .. Len(Typed) /\ Len(Typed) \in Nat
  BY <1>1, LenProperties DEF Udp!Callers
<1>3. \A c \in Udp!Callers : Typed[c] \in S
  <2> HIDE DEF S
  <2> QED
    BY <1>1, <1>2, ElementOfSeq
<1>4. \A c \in Udp!Callers : Len(Typed[c]) \in Nat /\ DOMAIN Typed[c] = 1 .. Len(Typed[c])
  BY <1>3, LenProperties
<1> QED
  BY <1>2, <1>4

LEMMA ArrayIsSeq ==
    ASSUME NEW S, NEW m \in [1 .. 3 -> S]
    PROVE  m \in Seq(S) /\ Len(m) = 3 /\ DOMAIN m = 1 .. 3
<1>1. m \in UNION {[1 .. k -> S] : k \in Nat}
  OBVIOUS
<1>2. m \in Seq(S)
  BY <1>1, SeqDef
<1>3. 1 .. 3 = 1 .. Len(m) /\ Len(m) \in Nat
  BY <1>2, LenProperties
<1> QED
  BY <1>2, <1>3

LEMMA TextFacts ==
    ASSUME NEW c \in Udp!Callers, NEW k \in DOMAIN Typed[c]
    PROVE  LET t == Udp!TextOf(c, k)
           IN  /\ t \in Seq(Udp!Chars) /\ Len(t) \in {1, 2}
               /\ \A b \in 1 .. Len(t) : t[b] = <<c, k>> /\ t[b] # Udp!End
<1> DEFINE t == Udp!TextOf(c, k)
           l == IF Typed[c][k] = "long" THEN 2 ELSE 1
<1>1. c \in Nat /\ c # 0
  BY CallersAre
<1>2. k \in Nat
  BY CallersAre
<1>3. <<c, k>> \in Udp!Chars /\ <<c, k>> # Udp!End
  BY <1>1, <1>2 DEF Udp!Chars, Udp!End
<1>4. t = [b \in 1 .. l |-> <<c, k>>]
  BY DEF Udp!TextOf
<1>5. l \in {1, 2}
  OBVIOUS
<1> HIDE DEF t, l
<1>6. t \in Seq(Udp!Chars) /\ Len(t) = l
  BY <1>3, <1>4, <1>5
<1>7. \A b \in 1 .. Len(t) : t[b] = <<c, k>>
  BY <1>4, <1>5, <1>6
<1> QED
  BY <1>3, <1>5, <1>6, <1>7 DEF t

LEMMA StringFacts ==
    ASSUME NEW m \in [1 .. 3 -> Udp!Chars]
    PROVE  \E k \in 0 .. 3 :
               /\ Udp!StringIn(m) = SubSeq(m, 1, k)
               /\ \A b \in 1 .. k : m[b] # Udp!End
               /\ k # 3 => m[k + 1] = Udp!End
<1> DEFINE ends == {b \in 1 .. 3 : m[b] = Udp!End}
<1>1. CASE ends = {}
  <2>1. Udp!StringIn(m) = SubSeq(m, 1, 3)
    BY <1>1 DEF Udp!StringIn
  <2> QED
    BY <1>1, <2>1
<1>2. CASE ends # {}
  <2> DEFINE e == CHOOSE b \in ends : \A o \in ends : b <= o
  <2>1. \E b \in ends : \A o \in ends : b <= o
    BY <1>2
  <2>2. e \in ends /\ \A o \in ends : e <= o
    BY <2>1
  <2>3. Udp!StringIn(m) = SubSeq(m, 1, e - 1)
    BY <1>2 DEF Udp!StringIn
  <2> HIDE DEF e
  <2>4. e - 1 \in 0 .. 2 /\ (e - 1) + 1 = e
    BY <2>2
  <2>5. \A b \in 1 .. (e - 1) : m[b] # Udp!End
    BY <2>2
  <2> QED
    BY <2>2, <2>3, <2>4, <2>5
<1> QED
  BY <1>1, <1>2

\* The string that an array holds which begins with a text.
LEMMA StringBegins ==
    ASSUME NEW m \in [1 .. 3 -> Udp!Chars],
           NEW c \in Udp!Callers, NEW k \in DOMAIN Typed[c],
           \A b \in 1 .. Len(Udp!TextOf(c, k)) : m[b] = Udp!TextOf(c, k)[b]
    PROVE  /\ StartsWith(Udp!StringIn(m), Udp!TextOf(c, k))
           /\ m[Len(Udp!TextOf(c, k)) + 1] = Udp!End => Udp!StringIn(m) = Udp!TextOf(c, k)
<1> DEFINE t == Udp!TextOf(c, k)
           s == Udp!StringIn(m)
<1>1. t \in Seq(Udp!Chars) /\ Len(t) \in {1, 2} /\ \A b \in 1 .. Len(t) : t[b] # Udp!End
  BY TextFacts
<1>2. PICK e \in 0 .. 3 : /\ s = SubSeq(m, 1, e)
                          /\ \A b \in 1 .. e : m[b] # Udp!End
                          /\ e # 3 => m[e + 1] = Udp!End
  BY StringFacts
<1>3. \A b \in 1 .. Len(t) : m[b] = t[b]
  OBVIOUS
<1> HIDE DEF t, s
<1>4. e >= Len(t)
  <2>1. SUFFICES ASSUME e < Len(t) PROVE FALSE
    BY <1>1
  <2>2. e + 1 \in 1 .. Len(t) /\ e # 3
    BY <1>1, <2>1
  <2> QED
    BY <1>1, <1>2, <1>3, <2>2
<1>5. m \in Seq(Udp!Chars) /\ Len(m) = 3
  BY ArrayIsSeq
<1>6. s \in Seq(Udp!Chars) /\ Len(s) = e /\ \A b \in 1 .. e : s[b] = m[b]
  BY <1>2, <1>5
<1>7. StartsWith(s, t)
  BY <1>1, <1>3, <1>4, <1>6 DEF StartsWith
<1>8. ASSUME m[Len(t) + 1] = Udp!End PROVE s = t
  <2>1. e = Len(t)
    <3>1. SUFFICES ASSUME e > Len(t) PROVE FALSE
      BY <1>1, <1>4
    <3>2. Len(t) + 1 \in 1 .. e
      BY <1>1, <3>1
    <3> QED
      BY <1>2, <1>8, <3>2
  <2> QED
    BY <1>1, <1>3, <1>6, <2>1
<1> QED
  BY <1>7, <1>8 DEF t, s

LEMMA StringTyped ==
    ASSUME NEW m \in [1 .. 3 -> Udp!Chars]
    PROVE  Udp!StringIn(m) \in Seq(Udp!Chars)
<1>1. PICK e \in 0 .. 3 : Udp!StringIn(m) = SubSeq(m, 1, e)
  BY StringFacts
<1>2. m \in Seq(Udp!Chars) /\ Len(m) = 3
  BY ArrayIsSeq
<1> QED
  BY <1>1, <1>2

\* What a read leaves in the array.
LEMMA ReadFacts ==
    ASSUME message \in [1 .. 3 -> Udp!Chars],
           NEW c \in Udp!Callers, NEW k \in DOMAIN Typed[c],
           NEW tail \in {<<>>, <<Udp!End>>}
    PROVE  LET t == Udp!TextOf(c, k)
               m == Udp!Read(t, tail)
           IN  /\ m \in [1 .. 3 -> Udp!Chars]
               /\ \A b \in 1 .. Len(t) : m[b] = t[b]
               /\ tail = <<Udp!End>> => m[Len(t) + 1] = Udp!End
<1> DEFINE t == Udp!TextOf(c, k)
           m == Udp!Read(t, tail)
           new == t \o tail
<1>1. t \in Seq(Udp!Chars) /\ Len(t) \in {1, 2}
  BY TextFacts
<1>2. Udp!End \in Udp!Chars
  BY DEF Udp!End, Udp!Chars
<1>3. m = [b \in 1 .. 3 |-> IF b \in DOMAIN new THEN new[b] ELSE message[b]]
  BY DEF Udp!Read
<1> HIDE DEF t, m
<1>4. /\ tail \in Seq(Udp!Chars) /\ Len(tail) \in {0, 1}
      /\ tail = <<Udp!End>> => Len(tail) = 1 /\ tail[1] = Udp!End
  <2>1. CASE tail = <<>>
    BY <2>1, EmptySeq
  <2>2. CASE tail = <<Udp!End>>
    BY <1>2, <2>2
  <2> QED
    BY <2>1, <2>2
<1>5. /\ new \in Seq(Udp!Chars) /\ Len(new) = Len(t) + Len(tail)
      /\ \A b \in 1 .. Len(t) : new[b] = t[b]
      /\ tail = <<Udp!End>> => new[Len(t) + 1] = Udp!End
  <2>1. /\ new \in Seq(Udp!Chars) /\ Len(new) = Len(t) + Len(tail)
        /\ \A b \in 1 .. Len(new) : new[b] = IF b <= Len(t) THEN t[b] ELSE tail[b - Len(t)]
    BY <1>1, <1>4, ConcatProperties
  <2> QED
    BY <1>1, <1>4, <2>1
<1>6. DOMAIN new = 1 .. (Len(t) + Len(tail))
  BY <1>5
<1> HIDE DEF new
<1>7. \A b \in DOMAIN new : new[b] \in Udp!Chars
  BY <1>5
<1>8. m \in [1 .. 3 -> Udp!Chars]
  BY <1>3, <1>7
<1>9. \A b \in 1 .. Len(t) : m[b] = t[b]
  BY <1>1, <1>3, <1>4, <1>5, <1>6
<1>10. tail = <<Udp!End>> => m[Len(t) + 1] = Udp!End
  BY <1>1, <1>3, <1>4, <1>5, <1>6
<1> QED
  BY <1>8, <1>9, <1>10 DEF t, m

-----------------------------------------------------------------------------
(* The invariant. A client types or waits; while it does, and neither loss *)
(* nor copies come between, its line or the answer is at one place: on its *)
(* way, at the server's socket, in the server's array or at its own socket.*)

UdpTypes ==
    /\ kind \in {"plain", "connected"} /\ at \in {"first", "connect", "send", "recv", "ended"}
    /\ message \in [1 .. 3 -> Udp!Chars]
    /\ client_addr \in Udp!Callers \cup {0} /\ served \in Udp!Callers \cup {0}
    /\ IsBag(flight) /\ DOMAIN flight \subseteq Letters /\ inbox \in Seq(Letters)
    /\ failing \subseteq Udp!Callers \cup {0} /\ unsent \subseteq Udp!Callers /\ mixed \in BOOLEAN
    /\ user \in [Udp!Callers -> {"type", "await", "gone", "error"}]
    /\ asked \in [Udp!Callers -> Nat]
    /\ mail \in [Udp!Callers -> Seq(Seq(Udp!Chars))]
    /\ heard \in [Udp!Callers -> Seq(Seq(Udp!Chars))]
    /\ lost \in 0 .. MaxLost /\ copied \in 0 .. MaxCopied

UdpCounts ==
    \A c \in Udp!Callers :
        /\ asked[c] <= Len(Typed[c]) /\ Len(heard[c]) <= asked[c]
        /\ user[c] = "type" => Len(heard[c]) = asked[c]
        /\ user[c] = "await" => asked[c] = Len(heard[c]) + 1

\* One of the lines that c sent.
Line(c, text) == \E k \in 1 .. asked[c] : text = Udp!TextOf(c, k)

Asks(d) == d.from \in Udp!Callers /\ d.to = 0 /\ Line(d.from, d.text)
Meant(c, text) == IF kind = "plain" THEN Line(c, text) ELSE c = served
Tells(d) == d.from = 0 /\ d.to \in Udp!Callers /\ Meant(d.to, d.text)

UdpContents ==
    /\ \A d \in DOMAIN flight : Asks(d) \/ Tells(d)
    /\ \A j \in DOMAIN inbox : Asks(inbox[j])
    /\ \A c \in Udp!Callers : \A j \in DOMAIN mail[c] : Meant(c, mail[c][j])

UdpServer ==
    /\ kind = "plain" => at = "first" /\ served = 0 /\ failing = {} /\ unsent = {}
    /\ at \in {"first", "connect"} => served = 0 /\ ~mixed
    /\ at = "connect" => client_addr \in Udp!Callers
    /\ at \in {"send", "recv", "ended"} => served \in Udp!Callers
    /\ 0 \in failing => served \in Udp!Callers /\ user[served] \in {"gone", "error"}
    /\ served # 0 /\ ~mixed => \A j \in DOMAIN inbox : inbox[j].from = served

\* c is at its turns with the server.
InTurn(c) ==
    user[c] \in {"type", "await"} /\ (kind = "plain" \/ served = 0 \/ (c = served /\ ~mixed))

Flying(c) == {d \in DOMAIN flight : c \in {d.from, d.to}}
Standing(c) == {j \in DOMAIN inbox : inbox[j].from = c}
Held(c) == (at = "connect" /\ client_addr = c) \/ (at = "send" /\ served = c)

Latest(c) == Udp!TextOf(c, asked[c])
Says(c, text) == IF kind = "plain" THEN text = Latest(c) ELSE StartsWith(text, Latest(c))

InOnePlace(c) ==
    /\ \A d \in Flying(c) : flight[d] = 1 /\ Flying(c) = {d}
    /\ \A j \in Standing(c) : Standing(c) = {j}
    /\ Len(mail[c]) <= 1
    /\ Flying(c) # {} => Standing(c) = {} /\ ~Held(c) /\ mail[c] = <<>>
    /\ Standing(c) # {} => ~Held(c) /\ mail[c] = <<>>
    /\ Held(c) => mail[c] = <<>>

Recent(c) ==
    /\ \A d \in Flying(c) : IF d.from = c THEN d.text = Latest(c) ELSE Says(c, d.text)
    /\ \A j \in Standing(c) : inbox[j].text = Latest(c)
    /\ Held(c) => StartsWith(message, Latest(c))
    /\ mail[c] # <<>> => Says(c, mail[c][1])

Somewhere(c) == Flying(c) # {} \/ Standing(c) # {} \/ Held(c) \/ mail[c] # <<>>

Following(c) == InOnePlace(c) /\ Recent(c) /\ (user[c] = "type" => ~Somewhere(c))

Traced(c) == copied = 0 /\ InTurn(c) => Following(c)
Waits(c) ==
    at # "ended" /\ lost = 0 /\ c \notin unsent /\ InTurn(c) /\ user[c] = "await" => Somewhere(c)

UdpTurns == \A c \in Udp!Callers : Traced(c) /\ Waits(c)

UdpSafe == UdpTypes /\ UdpCounts /\ UdpContents /\ UdpServer
UdpInv == UdpSafe /\ UdpTurns /\ Udp!AnswersOwn

Letter(f, t, x) == [from |-> f, to |-> t, text |-> x]

LEMMA LetterFields ==
    \A f, t, x : /\ Letter(f, t, x).from = f /\ Letter(f, t, x).to = t
                 /\ Letter(f, t, x).text = x
BY DEF Letter

\* What a send does to the datagrams on their way, and what taking one does.
LEMMA SendAdds ==
    ASSUME UdpTypes, NEW f \in Udp!Callers \cup {0}, NEW t \in Udp!Callers \cup {0},
           NEW x \in Seq(Udp!Chars), flight' = Udp!(+)(flight, Udp!Datagram(f, t, x))
    PROVE  /\ IsBag(flight') /\ DOMAIN flight' = DOMAIN flight \cup {Letter(f, t, x)}
           /\ DOMAIN flight' \subseteq Letters
           /\ \A d \in DOMAIN flight : d # Letter(f, t, x) => flight'[d] = flight[d]
           /\ Letter(f, t, x) \notin DOMAIN flight => flight'[Letter(f, t, x)] = 1
<1>1. Letter(f, t, x) \in Letters
  BY DEF Letter, Letters
<1>2. flight' = Udp!(+)(flight, Single(Letter(f, t, x)))
  BY DEF Udp!Datagram, Single, Letter
<1>3. IsBag(flight) /\ DOMAIN flight \subseteq Letters
  BY DEF UdpTypes
<1> DEFINE l == Letter(f, t, x)
           C == Udp!(+)(flight, Single(l))
<1>4. /\ IsBag(C) /\ DOMAIN C = DOMAIN flight \cup {l}
      /\ \A d \in DOMAIN flight : d # l => C[d] = flight[d]
      /\ l \notin DOMAIN flight => C[l] = 1
  <2> HIDE DEF l
  <2> QED
    BY <1>3, BagAdds
<1>5. flight' = C
  BY <1>2
<1> HIDE DEF C
<1> QED
  BY <1>1, <1>3, <1>4, <1>5

LEMMA TakeRemoves ==
    ASSUME UdpTypes, NEW d \in DOMAIN flight, flight' = Udp!(-)(flight, Udp!SetToBag({d}))
    PROVE  /\ IsBag(flight') /\ DOMAIN flight' \subseteq DOMAIN flight
           /\ DOMAIN flight \ {d} \subseteq DOMAIN flight'
           /\ DOMAIN flight' \subseteq Letters
           /\ \A e \in DOMAIN flight : e # d => flight'[e] = flight[e]
           /\ d \in DOMAIN flight' => flight[d] # 1
<1>1. flight' = Udp!(-)(flight, Single(d))
  BY DEF Single
<1>2. IsBag(flight) /\ DOMAIN flight \subseteq Letters
  BY DEF UdpTypes
<1> DEFINE C == Udp!(-)(flight, Single(d))
<1>3. /\ IsBag(C) /\ DOMAIN C \subseteq DOMAIN flight
      /\ DOMAIN flight \ {d} \subseteq DOMAIN C
      /\ \A e \in DOMAIN flight : e # d => C[e] = flight[e]
      /\ d \in DOMAIN C => flight[d] # 1
  BY <1>2, BagTakes
<1>4. flight' = C
  BY <1>1
<1> HIDE DEF C
<1> QED
  BY <1>2, <1>3, <1>4

LEMMA OnTheirWay == Udp!BagToSet(flight) = DOMAIN flight
BY DEF Udp!BagToSet

\* A line that was sent, and how it is read.
LEMMA LineTyped ==
    ASSUME UdpTypes, UdpCounts, NEW c \in Udp!Callers, NEW x, Line(c, x)
    PROVE  /\ x \in Seq(Udp!Chars)
           /\ \A tail \in {<<>>, <<Udp!End>>} : Udp!Read(x, tail) \in [1 .. 3 -> Udp!Chars]
           /\ Udp!StringIn(Udp!Read(x, <<Udp!End>>)) = x
           /\ \A tail \in {<<>>, <<Udp!End>>} : StartsWith(Udp!Read(x, tail), x)
<1>1. PICK k \in 1 .. asked[c] : x = Udp!TextOf(c, k)
  BY DEF Line
<1>2. k \in DOMAIN Typed[c]
  <2>1. asked[c] \in Nat /\ asked[c] <= Len(Typed[c])
    BY DEF UdpCounts, UdpTypes
  <2>2. Len(Typed[c]) \in Nat /\ DOMAIN Typed[c] = 1 .. Len(Typed[c])
    BY CallersAre
  <2> QED
    BY <1>1, <2>1, <2>2
<1>3. x \in Seq(Udp!Chars) /\ Len(x) \in {1, 2}
  BY <1>1, <1>2, TextFacts
<1>4. message \in [1 .. 3 -> Udp!Chars]
  BY DEF UdpTypes
<1>5. \A tail \in {<<>>, <<Udp!End>>} :
        /\ Udp!Read(x, tail) \in [1 .. 3 -> Udp!Chars]
        /\ \A b \in 1 .. Len(x) : Udp!Read(x, tail)[b] = x[b]
        /\ tail = <<Udp!End>> => Udp!Read(x, tail)[Len(x) + 1] = Udp!End
  BY <1>1, <1>2, <1>4, ReadFacts
<1>6. \A tail \in {<<>>, <<Udp!End>>} : StartsWith(Udp!Read(x, tail), x)
  <2>1. \A tail \in {<<>>, <<Udp!End>>} : Len(Udp!Read(x, tail)) = 3
    BY <1>5, ArrayIsSeq
  <2> QED
    BY <1>3, <1>5, <2>1 DEF StartsWith
<1>7. Udp!StringIn(Udp!Read(x, <<Udp!End>>)) = x
  <2> DEFINE m == Udp!Read(x, <<Udp!End>>)
  <2>1. /\ m \in [1 .. 3 -> Udp!Chars] /\ m[Len(x) + 1] = Udp!End
        /\ \A b \in 1 .. Len(x) : m[b] = x[b]
    BY <1>5
  <2> HIDE DEF m
  <2>2. Udp!StringIn(m) = x
    BY <1>1, <1>2, <2>1, StringBegins
  <2> QED
    BY <2>2 DEF m
<1> QED
  BY <1>3, <1>5, <1>6, <1>7

\* The first datagram at the server's socket.
LEMMA HeadOfInbox ==
    ASSUME UdpTypes, UdpContents, inbox # <<>>
    PROVE  /\ Head(inbox) \in Letters /\ Head(inbox) = inbox[1] /\ 1 \in DOMAIN inbox
           /\ Head(inbox).from \in Udp!Callers /\ Line(Head(inbox).from, Head(inbox).text)
           /\ Tail(inbox) \in Seq(Letters)
           /\ \A j \in DOMAIN Tail(inbox) : j + 1 \in DOMAIN inbox /\ j + 1 # 1
                                            /\ Tail(inbox)[j] = inbox[j + 1]
<1>1. inbox \in Seq(Letters)
  BY DEF UdpTypes
<1>2. /\ Head(inbox) \in Letters /\ Head(inbox) = inbox[1] /\ 1 \in DOMAIN inbox
      /\ Tail(inbox) \in Seq(Letters)
      /\ \A j \in DOMAIN Tail(inbox) : j + 1 \in DOMAIN inbox /\ j + 1 # 1
                                       /\ Tail(inbox)[j] = inbox[j + 1]
  BY <1>1
<1>3. Asks(Head(inbox))
  BY <1>2 DEF UdpContents
<1> QED
  BY <1>2, <1>3 DEF Asks

\* What a datagram says stays true: lines are only added, and the server connects once.
LEMMA MeaningKept ==
    ASSUME UdpTypes, UdpTypes', kind' = kind, served \in {0, served'},
           \A c \in Udp!Callers : asked[c] <= asked'[c]
    PROVE  /\ \A c \in Udp!Callers : \A x : /\ Line(c, x) => Line(c, x)'
                                            /\ Meant(c, x) => Meant(c, x)'
           /\ \A d : (Asks(d) => Asks(d)') /\ (Tells(d) => Tells(d)')
<1>1. \A c \in Udp!Callers : asked[c] \in Nat /\ asked'[c] \in Nat /\ c # 0
  BY CallersAre DEF UdpTypes
<1>2. \A c \in Udp!Callers : \A x : Line(c, x) => Line(c, x)'
  BY <1>1 DEF Line
<1>3. \A c \in Udp!Callers : \A x : Meant(c, x) => Meant(c, x)'
  BY <1>1, <1>2 DEF Meant
<1>4. \A d : Asks(d) => Asks(d)'
  BY <1>2 DEF Asks
<1>5. \A d : Tells(d) => Tells(d)'
  BY <1>3 DEF Tells
<1> QED
  BY <1>2, <1>3, <1>4, <1>5

LEMMA AskSafe ==
    ASSUME UdpSafe, NEW e \in Udp!Callers, Udp!Ask(e)
    PROVE  UdpSafe'
<1>1. /\ user[e] = "type" /\ asked[e] < Len(Typed[e])
      /\ asked' = [asked EXCEPT ![e] = @ + 1] /\ user' = [user EXCEPT ![e] = "await"]
      /\ failing' = failing \ {e}
      /\ IF e \in failing
         THEN unsent' = unsent \cup {e} /\ UNCHANGED flight
         ELSE /\ flight' = Udp!(+)(flight, Udp!Datagram(e, 0, Udp!TextOf(e, asked'[e])))
              /\ UNCHANGED unsent
      /\ UNCHANGED <<kind, at, message, client_addr, served, inbox, mail, heard, lost, copied,
                     mixed>>
  BY DEF Udp!Ask
<1>2. UdpTypes /\ UdpCounts /\ UdpContents /\ UdpServer
  BY DEF UdpSafe
<1> DEFINE x == Udp!TextOf(e, asked'[e])
           l == Letter(e, 0, x)
<1>3. /\ asked[e] \in Nat /\ asked'[e] = asked[e] + 1
      /\ asked' \in [Udp!Callers -> Nat]
      /\ \A c \in Udp!Callers : c # e => asked'[c] = asked[c]
      /\ user' \in [Udp!Callers -> {"type", "await", "gone", "error"}]
      /\ user'[e] = "await" /\ \A c \in Udp!Callers : c # e => user'[c] = user[c]
  <2>1. asked \in [Udp!Callers -> Nat] /\ asked[e] \in Nat
    BY <1>2 DEF UdpTypes
  <2>2. user \in [Udp!Callers -> {"type", "await", "gone", "error"}]
    BY <1>2 DEF UdpTypes
  <2>3. /\ asked'[e] = asked[e] + 1 /\ asked' \in [Udp!Callers -> Nat]
        /\ \A c \in Udp!Callers : c # e => asked'[c] = asked[c]
    BY <1>1, <2>1
  <2>4. /\ user' \in [Udp!Callers -> {"type", "await", "gone", "error"}]
        /\ user'[e] = "await" /\ \A c \in Udp!Callers : c # e => user'[c] = user[c]
    BY <1>1, <2>2
  <2> QED
    BY <2>1, <2>3, <2>4
<1>4. asked'[e] \in DOMAIN Typed[e]
  BY <1>1, <1>3, CallersAre
<1>5. x \in Seq(Udp!Chars)
  BY <1>4, TextFacts
<1> HIDE DEF x
<1>6. /\ IsBag(flight') /\ DOMAIN flight' \subseteq Letters
      /\ DOMAIN flight' \subseteq DOMAIN flight \cup {l}
  <2>1. CASE e \in failing
    BY <1>1, <1>2, <2>1 DEF UdpTypes
  <2>2. CASE e \notin failing
    <3>1. flight' = Udp!(+)(flight, Udp!Datagram(e, 0, x))
      BY <1>1, <2>2 DEF x
    <3>2. e \in Udp!Callers \cup {0} /\ 0 \in Udp!Callers \cup {0}
      OBVIOUS
    <3> QED
      BY <1>2, <1>5, <3>1, <3>2, SendAdds
  <2> QED
    BY <2>1, <2>2
<1>7. UdpTypes'
  <2>1. failing' \subseteq Udp!Callers \cup {0} /\ unsent' \subseteq Udp!Callers
    BY <1>1, <1>2 DEF UdpTypes
  <2> QED
    BY <1>1, <1>2, <1>3, <1>6, <2>1 DEF UdpTypes
<1>8. UdpCounts'
  <2> SUFFICES ASSUME NEW c \in Udp!Callers
               PROVE  /\ asked'[c] <= Len(Typed[c]) /\ Len(heard'[c]) <= asked'[c]
                      /\ user'[c] = "type" => Len(heard'[c]) = asked'[c]
                      /\ user'[c] = "await" => asked'[c] = Len(heard'[c]) + 1
    BY DEF UdpCounts
  <2>1. /\ asked[c] <= Len(Typed[c]) /\ Len(heard[c]) <= asked[c]
        /\ user[c] = "type" => Len(heard[c]) = asked[c]
        /\ user[c] = "await" => asked[c] = Len(heard[c]) + 1
    BY <1>2 DEF UdpCounts
  <2>2. Len(Typed[c]) \in Nat /\ heard'[c] = heard[c]
    BY <1>1, CallersAre
  <2>3. CASE c = e
    BY <1>1, <1>3, <2>1, <2>2, <2>3
  <2>4. CASE c # e
    BY <1>3, <2>1, <2>2, <2>4
  <2> QED
    BY <2>3, <2>4
<1>9. UdpContents'
  <2>1. \A c \in Udp!Callers : asked[c] <= asked'[c]
    <3>1. \A c \in Udp!Callers : asked[c] \in Nat
      BY <1>2 DEF UdpTypes
    <3> QED
      BY <1>3, <3>1
  <2>2. /\ \A c \in Udp!Callers : \A t : Meant(c, t) => Meant(c, t)'
        /\ \A d : (Asks(d) => Asks(d)') /\ (Tells(d) => Tells(d)')
    BY <1>1, <1>2, <1>7, <2>1, MeaningKept
  <2>3. \A d : d = l => Asks(d)'
    <3>1. l.from = e /\ l.to = 0 /\ l.text = x
      BY LetterFields
    <3> HIDE DEF l
    <3>2. \A t : t = x => Line(e, t)'
      <4>1. asked'[e] \in 1 .. asked'[e]
        BY <1>3
      <4> QED
        BY <4>1 DEF Line, x
    <3> QED
      BY <3>1, <3>2 DEF Asks
  <2>4. \A d \in DOMAIN flight' : Asks(d)' \/ Tells(d)'
    <3> HIDE DEF l
    <3> QED
      BY <1>2, <1>6, <2>2, <2>3 DEF UdpContents
  <2> QED
    BY <1>1, <1>2, <2>2, <2>4 DEF UdpContents
<1>10. UdpServer'
  BY <1>1, <1>2, <1>3 DEF UdpServer
<1> QED
  BY <1>7, <1>8, <1>9, <1>10 DEF UdpSafe

LEMMA HearSafe ==
    ASSUME UdpSafe, NEW e \in Udp!Callers, Udp!Hear(e)
    PROVE  UdpSafe'
<1>1. /\ user[e] = "await" /\ mail[e] # <<>>
      /\ heard' = [heard EXCEPT ![e] = Append(@, Head(mail[e]))]
      /\ mail' = [mail EXCEPT ![e] = Tail(@)]
      /\ user' = [user EXCEPT ![e] = "type"]
      /\ UNCHANGED <<kind, at, message, client_addr, served, inbox, flight, failing, asked,
                     lost, copied, unsent, mixed>>
  BY DEF Udp!Hear
<1>2. UdpTypes /\ UdpCounts /\ UdpContents /\ UdpServer
  BY DEF UdpSafe
<1>3. /\ mail[e] \in Seq(Seq(Udp!Chars)) /\ heard[e] \in Seq(Seq(Udp!Chars))
      /\ mail \in [Udp!Callers -> Seq(Seq(Udp!Chars))]
      /\ heard \in [Udp!Callers -> Seq(Seq(Udp!Chars))]
      /\ asked[e] \in Nat
  BY <1>2 DEF UdpTypes
<1>4. /\ Head(mail[e]) \in Seq(Udp!Chars) /\ Tail(mail[e]) \in Seq(Seq(Udp!Chars))
      /\ Append(heard[e], Head(mail[e])) \in Seq(Seq(Udp!Chars))
      /\ Len(Append(heard[e], Head(mail[e]))) = Len(heard[e]) + 1
      /\ \A j \in DOMAIN Tail(mail[e]) : j + 1 \in DOMAIN mail[e]
                                         /\ Tail(mail[e])[j] = mail[e][j + 1]
  <2> DEFINE S == Seq(Udp!Chars)
  <2>1. mail[e] \in Seq(S) /\ heard[e] \in Seq(S)
    BY <1>3
  <2> HIDE DEF S
  <2>2. /\ Head(mail[e]) \in S /\ Tail(mail[e]) \in Seq(S)
        /\ \A j \in DOMAIN Tail(mail[e]) : j + 1 \in DOMAIN mail[e]
                                           /\ Tail(mail[e])[j] = mail[e][j + 1]
    BY <1>1, <2>1
  <2>3. /\ Append(heard[e], Head(mail[e])) \in Seq(S)
        /\ Len(Append(heard[e], Head(mail[e]))) = Len(heard[e]) + 1
    BY <2>1, <2>2
  <2> QED
    BY <2>2, <2>3 DEF S
<1>5. /\ heard'[e] = Append(heard[e], Head(mail[e])) /\ mail'[e] = Tail(mail[e])
      /\ user'[e] = "type"
      /\ \A c \in Udp!Callers : c # e =>
            heard'[c] = heard[c] /\ mail'[c] = mail[c] /\ user'[c] = user[c]
  BY <1>1, <1>2 DEF UdpTypes
<1>6. UdpTypes'
  BY <1>1, <1>2, <1>3, <1>4 DEF UdpTypes
<1>7. UdpCounts'
  BY <1>1, <1>2, <1>3, <1>4, <1>5 DEF UdpCounts
<1>8. UdpContents'
  <2>1. /\ \A c \in Udp!Callers : \A t : Meant(c, t)' <=> Meant(c, t)
        /\ \A d : (Asks(d)' <=> Asks(d)) /\ (Tells(d)' <=> Tells(d))
    BY <1>1 DEF Meant, Asks, Tells, Line
  <2> QED
    BY <1>1, <1>2, <1>4, <1>5, <2>1 DEF UdpContents
<1>9. UdpServer'
  BY <1>1, <1>2, <1>5 DEF UdpServer
<1> QED
  BY <1>6, <1>7, <1>8, <1>9 DEF UdpSafe

LEMMA LeaveSafe ==
    ASSUME UdpSafe, NEW e \in Udp!Callers, Udp!Leave(e)
    PROVE  UdpSafe'
<1>1. /\ user[e] \in {"type", "await"}
      /\ \E to \in {"gone", "error"} : user' = [user EXCEPT ![e] = to]
      /\ failing' = failing \ {e} /\ mail' = [mail EXCEPT ![e] = <<>>]
      /\ UNCHANGED <<kind, at, message, client_addr, served, inbox, flight, asked, heard,
                     lost, copied, unsent, mixed>>
  BY DEF Udp!Leave
<1>2. UdpTypes /\ UdpCounts /\ UdpContents /\ UdpServer
  BY DEF UdpSafe
<1>3. /\ mail'[e] = <<>> /\ user'[e] \in {"gone", "error"}
      /\ \A c \in Udp!Callers : c # e => mail'[c] = mail[c] /\ user'[c] = user[c]
      /\ user' \in [Udp!Callers -> {"type", "await", "gone", "error"}]
  BY <1>1, <1>2 DEF UdpTypes
<1>4. mail' \in [Udp!Callers -> Seq(Seq(Udp!Chars))]
  <2> DEFINE S == Seq(Udp!Chars)
  <2>1. mail \in [Udp!Callers -> Seq(S)]
    BY <1>2 DEF UdpTypes
  <2> HIDE DEF S
  <2>2. mail' \in [Udp!Callers -> Seq(S)]
    BY <1>1, <2>1
  <2> QED
    BY <2>2 DEF S
<1>5. UdpTypes'
  BY <1>1, <1>2, <1>3, <1>4 DEF UdpTypes
<1>6. UdpCounts'
  BY <1>1, <1>2, <1>3 DEF UdpCounts
<1>7. UdpContents'
  <2>1. /\ \A c \in Udp!Callers : \A t : Meant(c, t)' <=> Meant(c, t)
        /\ \A d : (Asks(d)' <=> Asks(d)) /\ (Tells(d)' <=> Tells(d))
    BY <1>1 DEF Meant, Asks, Tells, Line
  <2> QED
    BY <1>1, <1>2, <1>3, <2>1 DEF UdpContents
<1>8. UdpServer'
  BY <1>1, <1>2, <1>3 DEF UdpServer
<1> QED
  BY <1>5, <1>6, <1>7, <1>8 DEF UdpSafe

LEMMA LoseSafe ==
    ASSUME UdpSafe, Udp!Lose
    PROVE  UdpSafe'
<1>1. PICK d \in DOMAIN flight : flight' = Udp!(-)(flight, Udp!SetToBag({d}))
  BY OnTheirWay DEF Udp!Lose
<1>2. /\ lost < MaxLost /\ lost' = lost + 1
      /\ UNCHANGED <<kind, at, message, client_addr, served, inbox, failing, user, asked, mail,
                     heard, copied, unsent, mixed>>
  BY DEF Udp!Lose
<1>3. UdpTypes /\ UdpCounts /\ UdpContents /\ UdpServer
  BY DEF UdpSafe
<1>4. IsBag(flight') /\ DOMAIN flight' \subseteq DOMAIN flight /\ DOMAIN flight' \subseteq Letters
  BY <1>1, <1>3, TakeRemoves
<1>5. lost' \in 0 .. MaxLost
  <2>1. lost \in 0 .. MaxLost
    BY <1>3 DEF UdpTypes
  <2>2. MaxLost \in Nat
    BY ProgramsAssumption
  <2> QED
    BY <1>2, <2>1, <2>2
<1>6. UdpTypes'
  BY <1>2, <1>3, <1>4, <1>5 DEF UdpTypes
<1>7. UdpCounts'
  BY <1>2, <1>3 DEF UdpCounts
<1>8. UdpContents'
  <2>1. /\ \A c \in Udp!Callers : \A t : Meant(c, t)' <=> Meant(c, t)
        /\ \A e : (Asks(e)' <=> Asks(e)) /\ (Tells(e)' <=> Tells(e))
    BY <1>2 DEF Meant, Asks, Tells, Line
  <2> QED
    BY <1>2, <1>3, <1>4, <2>1 DEF UdpContents
<1>9. UdpServer'
  BY <1>2, <1>3 DEF UdpServer
<1> QED
  BY <1>6, <1>7, <1>8, <1>9 DEF UdpSafe

LEMMA DeliverSafe ==
    ASSUME UdpSafe, Udp!Deliver
    PROVE  UdpSafe'
<1>1. PICK d \in DOMAIN flight, copies \in 0 .. 1 :
        /\ copied' = copied + copies /\ copied' <= MaxCopied
        /\ flight' = IF copies = 1 THEN flight ELSE Udp!(-)(flight, Udp!SetToBag({d}))
        /\ IF Udp!NoSocket(d)
           THEN /\ failing' \in {failing, failing \cup (Udp!Connected \cap {d.from})}
                /\ UNCHANGED <<inbox, mail>>
           ELSE IF d.to = 0
           THEN inbox' = Append(inbox, d) /\ UNCHANGED <<mail, failing>>
           ELSE /\ mail' = [mail EXCEPT ![d.to] = Append(@, d.text)]
                /\ UNCHANGED <<inbox, failing>>
        /\ UNCHANGED <<kind, at, message, client_addr, served, user, asked, heard, lost,
                       unsent, mixed>>
  BY OnTheirWay DEF Udp!Deliver
<1>2. UdpTypes /\ UdpCounts /\ UdpContents /\ UdpServer
  BY DEF UdpSafe
<1>3. /\ d \in Letters /\ d.from \in Udp!Callers \cup {0} /\ d.to \in Udp!Callers \cup {0}
      /\ d.text \in Seq(Udp!Chars) /\ (Asks(d) \/ Tells(d))
  BY <1>2 DEF UdpTypes, UdpContents, Letters
<1>4. IsBag(flight') /\ DOMAIN flight' \subseteq DOMAIN flight /\ DOMAIN flight' \subseteq Letters
  <2>1. CASE copies = 1
    BY <1>1, <1>2, <2>1 DEF UdpTypes
  <2>2. CASE copies # 1
    BY <1>1, <1>2, <2>2, TakeRemoves
  <2> QED
    BY <2>1, <2>2
<1>5. copied' \in 0 .. MaxCopied
  <2>1. copied \in 0 .. MaxCopied
    BY <1>2 DEF UdpTypes
  <2>2. MaxCopied \in Nat
    BY ProgramsAssumption
  <2> QED
    BY <1>1, <2>1, <2>2
<1>6. /\ failing' \subseteq Udp!Callers \cup {0}
      /\ \A c \in failing' \ failing : c = d.from /\ c \in Udp!Connected /\ Udp!NoSocket(d)
  BY <1>1, <1>2, <1>3 DEF UdpTypes
<1>7. inbox' = inbox \/ (d.to = 0 /\ ~Udp!NoSocket(d) /\ inbox' = Append(inbox, d))
  BY <1>1
<1>8. /\ inbox' \in Seq(Letters)
      /\ \A j \in DOMAIN inbox' : \/ j \in DOMAIN inbox /\ inbox'[j] = inbox[j]
                                  \/ inbox'[j] = d /\ d.to = 0 /\ ~Udp!NoSocket(d)
  <2>1. inbox \in Seq(Letters)
    BY <1>2 DEF UdpTypes
  <2>2. d \in Letters
    BY <1>3
  <2>3. CASE inbox' = inbox
    BY <2>1, <2>3
  <2>4. CASE d.to = 0 /\ ~Udp!NoSocket(d) /\ inbox' = Append(inbox, d)
    <3>1. /\ Append(inbox, d) \in Seq(Letters) /\ Len(Append(inbox, d)) = Len(inbox) + 1
          /\ \A j \in 1 .. Len(inbox) : Append(inbox, d)[j] = inbox[j]
          /\ Append(inbox, d)[Len(inbox) + 1] = d
      BY <2>1, <2>2, AppendProperties
    <3>2. /\ DOMAIN inbox = 1 .. Len(inbox) /\ Len(inbox) \in Nat
          /\ DOMAIN Append(inbox, d) = 1 .. Len(Append(inbox, d))
      BY <2>1, <3>1, LenProperties
    <3>3. \A j \in DOMAIN Append(inbox, d) : j \in DOMAIN inbox \/ j = Len(inbox) + 1
      BY <3>1, <3>2
    <3> QED
      BY <2>4, <3>1, <3>2, <3>3
  <2> QED
    BY <1>7, <2>3, <2>4
<1>9. /\ mail' \in [Udp!Callers -> Seq(Seq(Udp!Chars))]
      /\ \A c \in Udp!Callers : \A j \in DOMAIN mail'[c] :
            \/ j \in DOMAIN mail[c] /\ mail'[c][j] = mail[c][j]
            \/ c = d.to /\ mail'[c][j] = d.text
  <2> DEFINE S == Seq(Udp!Chars)
  <2>1. mail \in [Udp!Callers -> Seq(S)] /\ d.text \in S
    BY <1>2, <1>3 DEF UdpTypes
  <2>2. mail' = mail \/ (d.to \in Udp!Callers /\ mail' = [mail EXCEPT ![d.to] = Append(@, d.text)])
    BY <1>1, <1>3
  <2> HIDE DEF S
  <2>3. CASE mail' = mail
    BY <2>1, <2>3 DEF S
  <2>4. CASE d.to \in Udp!Callers /\ mail' = [mail EXCEPT ![d.to] = Append(@, d.text)]
    <3>1. /\ Append(mail[d.to], d.text) \in Seq(S)
          /\ \A j \in DOMAIN Append(mail[d.to], d.text) :
                \/ j \in DOMAIN mail[d.to] /\ Append(mail[d.to], d.text)[j] = mail[d.to][j]
                \/ Append(mail[d.to], d.text)[j] = d.text
      BY <2>1, <2>4
    <3>2. mail' \in [Udp!Callers -> Seq(S)]
      BY <2>1, <2>4, <3>1
    <3>3. \A c \in Udp!Callers : IF c = d.to THEN mail'[c] = Append(mail[d.to], d.text)
                                 ELSE mail'[c] = mail[c]
      BY <2>1, <2>4
    <3> QED
      BY <3>1, <3>2, <3>3 DEF S
  <2> QED
    BY <2>2, <2>3, <2>4
<1>10. UdpTypes'
  BY <1>1, <1>2, <1>4, <1>5, <1>6, <1>8, <1>9 DEF UdpTypes
<1>11. UdpCounts'
  BY <1>1, <1>2 DEF UdpCounts
<1>12. UdpContents'
  <2>1. /\ \A c \in Udp!Callers : \A t : Meant(c, t)' <=> Meant(c, t)
        /\ \A e : (Asks(e)' <=> Asks(e)) /\ (Tells(e)' <=> Tells(e))
    BY <1>1 DEF Meant, Asks, Tells, Line
  <2>2. \A e \in DOMAIN flight' : Asks(e)' \/ Tells(e)'
    BY <1>2, <1>4, <2>1 DEF UdpContents
  <2>3. d.to = 0 => Asks(d)
    BY <1>3, CallersAre DEF Tells
  <2>4. \A j \in DOMAIN inbox' : Asks(inbox'[j])
    BY <1>2, <1>8, <2>3 DEF UdpContents
  <2>5. \A c \in Udp!Callers : c = d.to => Meant(c, d.text)
    BY <1>3, CallersAre DEF Asks, Tells
  <2>6. \A c \in Udp!Callers : \A j \in DOMAIN mail'[c] : Meant(c, mail'[c][j])
    BY <1>2, <1>9, <2>5 DEF UdpContents
  <2>7. /\ \A j \in DOMAIN inbox' : Asks(inbox[j])'
        /\ \A c \in Udp!Callers : \A j \in DOMAIN mail'[c] : Meant(c, mail[c][j])'
    BY <1>1, <2>4, <2>6 DEF Meant, Asks, Line
  <2> QED
    BY <2>2, <2>7 DEF UdpContents
<1>13. UdpServer'
  <2>1. kind' = "plain" => at' = "first" /\ served' = 0 /\ failing' = {} /\ unsent' = {}
    <3>1. kind = "plain" => Udp!Connected = {}
      BY DEF Udp!Connected
    <3> QED
      BY <1>1, <1>2, <3>1 DEF UdpServer
  <2>2. 0 \in failing' => served \in Udp!Callers /\ user[served] \in {"gone", "error"}
    <3>1. SUFFICES ASSUME 0 \in failing', 0 \notin failing
                   PROVE  served \in Udp!Callers /\ user[served] \in {"gone", "error"}
      BY <1>2 DEF UdpServer
    <3>2. d.from = 0 /\ 0 \in Udp!Connected /\ Udp!NoSocket(d)
      BY <1>6, <3>1
    <3>3. kind # "plain" /\ served # 0
      BY <3>2, CallersAre DEF Udp!Connected
    <3>4. Tells(d) /\ d.to = served /\ served \in Udp!Callers
      BY <1>3, <3>2, <3>3, CallersAre DEF Asks, Tells, Meant
    <3> QED
      BY <3>2, <3>3, <3>4 DEF Udp!NoSocket
  <2>3. served # 0 /\ ~mixed => \A j \in DOMAIN inbox' : inbox'[j].from = served
    <3>1. d.to = 0 /\ ~Udp!NoSocket(d) /\ served # 0 => d.from = served
      BY DEF Udp!NoSocket
    <3> QED
      BY <1>2, <1>8, <3>1 DEF UdpServer
  <2> QED
    BY <1>1, <1>2, <2>1, <2>2, <2>3 DEF UdpServer
<1> QED
  BY <1>10, <1>11, <1>12, <1>13 DEF UdpSafe

\* The array, the socket and the answer of a server that read a datagram.
LEMMA ReadSafe ==
    ASSUME UdpSafe, inbox # <<>>, NEW tail \in {<<>>, <<Udp!End>>},
           NEW m, m = Udp!Read(Head(inbox).text, tail)
    PROVE  /\ m \in [1 .. 3 -> Udp!Chars] /\ Head(inbox).from \in Udp!Callers
           /\ Tail(inbox) \in Seq(Letters)
           /\ \A j \in DOMAIN Tail(inbox) : Asks(Tail(inbox)[j])
           /\ served # 0 /\ ~mixed => \A j \in DOMAIN Tail(inbox) : Tail(inbox)[j].from = served
<1>1. UdpTypes /\ UdpCounts /\ UdpContents /\ UdpServer
  BY DEF UdpSafe
<1>2. /\ Head(inbox).from \in Udp!Callers /\ Line(Head(inbox).from, Head(inbox).text)
      /\ Tail(inbox) \in Seq(Letters)
      /\ \A j \in DOMAIN Tail(inbox) : j + 1 \in DOMAIN inbox
                                       /\ Tail(inbox)[j] = inbox[j + 1]
  BY <1>1, HeadOfInbox
<1>3. m \in [1 .. 3 -> Udp!Chars]
  BY <1>1, <1>2, LineTyped
<1> QED
  BY <1>1, <1>2, <1>3 DEF UdpContents, UdpServer

LEMMA ReplySafe ==
    ASSUME UdpSafe, Udp!Reply
    PROVE  UdpSafe'
<1>1. /\ kind = "plain" /\ inbox # <<>> /\ client_addr' = Head(inbox).from
      /\ message' = Udp!Read(Head(inbox).text, <<Udp!End>>)
      /\ flight' = Udp!(+)(flight, Udp!Datagram(0, client_addr', Udp!StringIn(message')))
      /\ inbox' = Tail(inbox)
      /\ UNCHANGED <<kind, at, served, failing, user, asked, mail, heard, lost, copied, unsent,
                     mixed>>
  BY DEF Udp!Reply
<1>2. UdpTypes /\ UdpCounts /\ UdpContents /\ UdpServer
  BY DEF UdpSafe
<1> DEFINE c == Head(inbox).from
           x == Head(inbox).text
           l == Letter(0, c, x)
<1>3. /\ message' \in [1 .. 3 -> Udp!Chars] /\ c \in Udp!Callers
      /\ inbox' \in Seq(Letters) /\ \A j \in DOMAIN inbox' : Asks(inbox'[j])
      /\ served # 0 /\ ~mixed => \A j \in DOMAIN inbox' : inbox'[j].from = served
  BY <1>1, ReadSafe
<1>4. Line(c, x)
  BY <1>1, <1>2, HeadOfInbox
<1>5. x \in Seq(Udp!Chars) /\ Udp!StringIn(message') = x
  BY <1>1, <1>2, <1>3, <1>4, LineTyped
<1>6. client_addr' = c
  BY <1>1
<1> HIDE DEF c, x
<1>7. /\ IsBag(flight') /\ DOMAIN flight' \subseteq Letters
      /\ DOMAIN flight' = DOMAIN flight \cup {l}
  <2>1. flight' = Udp!(+)(flight, Udp!Datagram(0, c, x))
    BY <1>1, <1>5, <1>6
  <2>2. c \in Udp!Callers \cup {0} /\ 0 \in Udp!Callers \cup {0}
    BY <1>3
  <2> QED
    BY <1>2, <1>5, <2>1, <2>2, SendAdds
<1>8. UdpTypes'
  BY <1>1, <1>2, <1>3, <1>6, <1>7 DEF UdpTypes
<1>9. UdpCounts'
  BY <1>1, <1>2 DEF UdpCounts
<1>10. UdpContents'
  <2>1. /\ \A a \in Udp!Callers : \A t : Meant(a, t)' <=> Meant(a, t)
        /\ \A e : (Asks(e)' <=> Asks(e)) /\ (Tells(e)' <=> Tells(e))
    BY <1>1 DEF Meant, Asks, Tells, Line
  <2>2. Tells(l)
    <3>1. l.from = 0 /\ l.to = c /\ l.text = x
      BY LetterFields
    <3> HIDE DEF l
    <3> QED
      BY <1>1, <1>3, <1>4, <3>1 DEF Tells, Meant
  <2> HIDE DEF l
  <2>3. \A e \in DOMAIN flight' : Asks(e)' \/ Tells(e)'
    BY <1>2, <1>7, <2>1, <2>2 DEF UdpContents
  <2>4. \A j \in DOMAIN inbox' : Asks(inbox[j])'
    BY <1>1, <1>3 DEF Asks, Line
  <2>5. \A a \in Udp!Callers : \A j \in DOMAIN mail'[a] : Meant(a, mail[a][j])'
    BY <1>1, <1>2 DEF UdpContents, Meant, Line
  <2> QED
    BY <2>3, <2>4, <2>5 DEF UdpContents
<1>11. UdpServer'
  BY <1>1, <1>2, <1>3 DEF UdpServer
<1> QED
  BY <1>8, <1>9, <1>10, <1>11 DEF UdpSafe

LEMMA FirstReadSafe ==
    ASSUME UdpSafe, Udp!FirstRead
    PROVE  UdpSafe'
<1>1. /\ kind = "connected" /\ at = "first" /\ inbox # <<>>
      /\ client_addr' = Head(inbox).from
      /\ message' = Udp!Read(Head(inbox).text, <<Udp!End>>)
      /\ inbox' = Tail(inbox) /\ at' = "connect"
      /\ UNCHANGED <<kind, served, flight, failing, user, asked, mail, heard, lost, copied,
                     unsent, mixed>>
  BY DEF Udp!FirstRead
<1>2. UdpTypes /\ UdpCounts /\ UdpContents /\ UdpServer
  BY DEF UdpSafe
<1>3. /\ message' \in [1 .. 3 -> Udp!Chars] /\ client_addr' \in Udp!Callers
      /\ inbox' \in Seq(Letters) /\ \A j \in DOMAIN inbox' : Asks(inbox'[j])
  BY <1>1, ReadSafe
<1>4. UdpTypes'
  BY <1>1, <1>2, <1>3 DEF UdpTypes
<1>5. UdpCounts'
  BY <1>1, <1>2 DEF UdpCounts
<1>6. UdpContents'
  <2>1. /\ \A a \in Udp!Callers : \A t : Meant(a, t)' <=> Meant(a, t)
        /\ \A e : (Asks(e)' <=> Asks(e)) /\ (Tells(e)' <=> Tells(e))
    BY <1>1 DEF Meant, Asks, Tells, Line
  <2>2. \A j \in DOMAIN inbox' : Asks(inbox[j])'
    BY <1>1, <1>3 DEF Asks, Line
  <2> QED
    BY <1>1, <1>2, <2>1, <2>2 DEF UdpContents
<1>7. UdpServer'
  BY <1>1, <1>2, <1>3 DEF UdpServer
<1> QED
  BY <1>4, <1>5, <1>6, <1>7 DEF UdpSafe

LEMMA ConnectSafe ==
    ASSUME UdpSafe, Udp!ConnectSocket
    PROVE  UdpSafe'
<1>1. /\ at = "connect" /\ served' = client_addr
      /\ mixed' = \E j \in DOMAIN inbox : inbox[j].from # client_addr
      /\ at' \in {"ended", "send"}
      /\ UNCHANGED <<kind, message, client_addr, inbox, flight, failing, user, asked, mail,
                     heard, lost, copied, unsent>>
  BY DEF Udp!ConnectSocket, Udp!LoopOn
<1>2. UdpTypes /\ UdpCounts /\ UdpContents /\ UdpServer
  BY DEF UdpSafe
<1>3. client_addr \in Udp!Callers /\ served = 0 /\ kind = "connected" /\ 0 \notin failing
  BY <1>1, <1>2, CallersAre DEF UdpServer, UdpTypes
<1>4. UdpTypes'
  BY <1>1, <1>2 DEF UdpTypes
<1>5. UdpCounts'
  BY <1>1, <1>2 DEF UdpCounts
<1>6. UdpContents'
  <2>1. \A a \in Udp!Callers : asked[a] <= asked'[a]
    BY <1>1, <1>2 DEF UdpTypes
  <2>2. /\ \A a \in Udp!Callers : \A t : Meant(a, t) => Meant(a, t)'
        /\ \A d : (Asks(d) => Asks(d)') /\ (Tells(d) => Tells(d)')
    BY <1>1, <1>2, <1>3, <1>4, <2>1, MeaningKept
  <2> QED
    BY <1>1, <1>2, <2>2 DEF UdpContents
<1>7. UdpServer'
  BY <1>1, <1>2, <1>3 DEF UdpServer
<1> QED
  BY <1>4, <1>5, <1>6, <1>7 DEF UdpSafe

LEMMA SendSafe ==
    ASSUME UdpSafe, Udp!SendAnswer
    PROVE  UdpSafe'
<1>1. /\ at = "send" /\ at' = "recv" /\ failing' = failing \ {0}
      /\ flight' = IF 0 \in failing THEN flight
                   ELSE Udp!(+)(flight, Udp!Datagram(0, served, Udp!StringIn(message)))
      /\ UNCHANGED <<kind, message, client_addr, served, inbox, user, asked, mail, heard, lost,
                     copied, unsent, mixed>>
  BY DEF Udp!SendAnswer
<1>2. UdpTypes /\ UdpCounts /\ UdpContents /\ UdpServer
  BY DEF UdpSafe
<1> DEFINE x == Udp!StringIn(message)
           l == Letter(0, served, x)
<1>3. served \in Udp!Callers /\ kind = "connected" /\ x \in Seq(Udp!Chars)
  BY <1>1, <1>2, StringTyped DEF UdpServer, UdpTypes
<1> HIDE DEF x
<1>4. /\ IsBag(flight') /\ DOMAIN flight' \subseteq Letters
      /\ DOMAIN flight' \subseteq DOMAIN flight \cup {l}
  <2>1. CASE 0 \in failing
    BY <1>1, <1>2, <2>1 DEF UdpTypes
  <2>2. CASE 0 \notin failing
    <3>1. flight' = Udp!(+)(flight, Udp!Datagram(0, served, x))
      BY <1>1, <2>2 DEF x
    <3>2. served \in Udp!Callers \cup {0} /\ 0 \in Udp!Callers \cup {0}
      BY <1>3
    <3> QED
      BY <1>2, <1>3, <3>1, <3>2, SendAdds
  <2> QED
    BY <2>1, <2>2
<1>5. UdpTypes'
  BY <1>1, <1>2, <1>4 DEF UdpTypes
<1>6. UdpCounts'
  BY <1>1, <1>2 DEF UdpCounts
<1>7. UdpContents'
  <2>1. /\ \A a \in Udp!Callers : \A t : Meant(a, t)' <=> Meant(a, t)
        /\ \A e : (Asks(e)' <=> Asks(e)) /\ (Tells(e)' <=> Tells(e))
    BY <1>1 DEF Meant, Asks, Tells, Line
  <2>2. Tells(l)
    <3>1. l.from = 0 /\ l.to = served
      BY LetterFields
    <3> HIDE DEF l
    <3> QED
      BY <1>3, <3>1 DEF Tells, Meant
  <2> HIDE DEF l
  <2> QED
    BY <1>1, <1>2, <1>4, <2>1, <2>2 DEF UdpContents
<1>8. UdpServer'
  BY <1>1, <1>2, <1>3 DEF UdpServer
<1> QED
  BY <1>5, <1>6, <1>7, <1>8 DEF UdpSafe

LEMMA ReadAgainSafe ==
    ASSUME UdpSafe, Udp!ReadAgain
    PROVE  UdpSafe'
<1>1. /\ at = "recv" /\ at' \in {"ended", "send"} /\ failing' \subseteq failing
      /\ \/ UNCHANGED <<message, inbox>>
         \/ /\ inbox # <<>> /\ inbox' = Tail(inbox)
            /\ message' = Udp!Read(Head(inbox).text, <<>>)
      /\ UNCHANGED <<kind, client_addr, served, flight, user, asked, mail, heard, lost, copied,
                     unsent, mixed>>
  BY DEF Udp!ReadAgain, Udp!LoopOn
<1>2. UdpTypes /\ UdpCounts /\ UdpContents /\ UdpServer
  BY DEF UdpSafe
<1>3. /\ message' \in [1 .. 3 -> Udp!Chars]
      /\ inbox' \in Seq(Letters) /\ \A j \in DOMAIN inbox' : Asks(inbox'[j])
      /\ served # 0 /\ ~mixed => \A j \in DOMAIN inbox' : inbox'[j].from = served
  <2>1. CASE UNCHANGED <<message, inbox>>
    BY <1>2, <2>1 DEF UdpTypes, UdpContents, UdpServer
  <2>2. CASE /\ inbox # <<>> /\ inbox' = Tail(inbox)
             /\ message' = Udp!Read(Head(inbox).text, <<>>)
    BY <2>2, ReadSafe
  <2> QED
    BY <1>1, <2>1, <2>2
<1>4. UdpTypes'
  BY <1>1, <1>2, <1>3 DEF UdpTypes
<1>5. UdpCounts'
  BY <1>1, <1>2 DEF UdpCounts
<1>6. UdpContents'
  <2>1. /\ \A a \in Udp!Callers : \A t : Meant(a, t)' <=> Meant(a, t)
        /\ \A e : (Asks(e)' <=> Asks(e)) /\ (Tells(e)' <=> Tells(e))
    BY <1>1 DEF Meant, Asks, Tells, Line
  <2>2. \A j \in DOMAIN inbox' : Asks(inbox[j])'
    BY <1>1, <1>3 DEF Asks, Line
  <2> QED
    BY <1>1, <1>2, <2>1, <2>2 DEF UdpContents
<1>7. UdpServer'
  BY <1>1, <1>2, <1>3 DEF UdpServer
<1> QED
  BY <1>4, <1>5, <1>6, <1>7 DEF UdpSafe

-----------------------------------------------------------------------------
(* The turns *)

\* A step of another than c, and one by which c's message stays where it is.
Aside(c) ==
    /\ InTurn(c)' => InTurn(c)
    /\ (copied' = 0 => copied = 0) /\ (lost' = 0 => lost = 0)
    /\ (at = "ended" => at' = "ended") /\ (c \in unsent => c \in unsent')
    /\ kind' = kind /\ user'[c] = user[c] /\ asked'[c] = asked[c] /\ mail'[c] = mail[c]
    /\ (Held(c)' <=> Held(c)) /\ (Held(c) => message' = message)
    /\ Flying(c)' = Flying(c) /\ \A d \in Flying(c) : flight'[d] = flight[d]
    /\ \E s \in {0, 1} :
        /\ \A j \in Standing(c)' : j + s \in Standing(c) /\ inbox'[j] = inbox[j + s]
        /\ \A j \in Standing(c) : j - s \in Standing(c)'

LEMMA AsideKeeps ==
    ASSUME NEW c, inbox \in Seq(Letters), inbox' \in Seq(Letters),
           Traced(c), Waits(c), Aside(c)
    PROVE  Traced(c)' /\ Waits(c)'
<1>1. /\ InTurn(c)' => InTurn(c)
      /\ (copied' = 0 => copied = 0) /\ (lost' = 0 => lost = 0)
      /\ (at = "ended" => at' = "ended") /\ (c \in unsent => c \in unsent')
      /\ kind' = kind /\ user'[c] = user[c] /\ asked'[c] = asked[c] /\ mail'[c] = mail[c]
      /\ (Held(c)' <=> Held(c)) /\ (Held(c) => message' = message)
      /\ Flying(c)' = Flying(c) /\ \A d \in Flying(c) : flight'[d] = flight[d]
  BY DEF Aside
<1>2. PICK s \in {0, 1} :
        /\ \A j \in Standing(c)' : j + s \in Standing(c) /\ inbox'[j] = inbox[j + s]
        /\ \A j \in Standing(c) : j - s \in Standing(c)'
  BY DEF Aside
<1>3. Standing(c) \subseteq Nat /\ Standing(c)' \subseteq Nat
  BY DEF Standing
<1>4. Standing(c)' = {} <=> Standing(c) = {}
  BY <1>2
<1>5. Latest(c)' = Latest(c)
  BY <1>1 DEF Latest, Udp!TextOf
<1>6. \A text : Says(c, text)' <=> Says(c, text)
  BY <1>1, <1>5 DEF Says
<1>7. Somewhere(c)' <=> Somewhere(c)
  BY <1>1, <1>4 DEF Somewhere
<1>8. InOnePlace(c) => InOnePlace(c)'
  <2>1. ASSUME InOnePlace(c), NEW j \in Standing(c)'
        PROVE  Standing(c)' = {j}
    <3>1. j + s \in Standing(c) /\ \A k \in Standing(c) : k = j + s
      BY <1>2, <2>1 DEF InOnePlace
    <3>2. \A k \in Standing(c)' : k + s = j + s /\ k \in Nat
      BY <1>2, <1>3, <3>1
    <3>3. j \in Nat /\ s \in Nat
      BY <1>3
    <3>4. \A k \in Standing(c)' : k = j
      BY <3>2, <3>3
    <3> QED
      BY <2>1, <3>4
  <2> QED
    BY <1>1, <1>4, <2>1 DEF InOnePlace
<1>9. Recent(c) => Recent(c)'
  <2>1. ASSUME Recent(c), NEW d \in Flying(c)'
        PROVE  IF d.from = c THEN d.text = Latest(c)' ELSE Says(c, d.text)'
    BY <1>1, <1>5, <1>6, <2>1 DEF Recent
  <2>2. ASSUME Recent(c), NEW j \in Standing(c)'
        PROVE  inbox'[j].text = Latest(c)'
    BY <1>2, <1>5, <2>2 DEF Recent
  <2>3. ASSUME Recent(c), Held(c)'
        PROVE  StartsWith(message', Latest(c)')
    BY <1>1, <1>5, <2>3 DEF Recent
  <2>4. ASSUME Recent(c), mail'[c] # <<>>
        PROVE  Says(c, mail[c][1])'
    <3>1. Says(c, mail[c][1])
      BY <1>1, <2>4 DEF Recent
    <3> QED
      BY <1>1, <1>5, <3>1 DEF Says
  <2> QED
    BY <2>1, <2>2, <2>3, <2>4 DEF Recent, StartsWith
<1>10. Following(c) => Following(c)'
  BY <1>1, <1>7, <1>8, <1>9 DEF Following
<1> QED
  BY <1>1, <1>7, <1>10 DEF Traced, Waits

\* Datagrams of others come and go.
LEMMA FlyingBeside ==
    ASSUME NEW c, NEW l, c \notin {l.from, l.to},
           DOMAIN flight \ {l} \subseteq DOMAIN flight',
           DOMAIN flight' \subseteq DOMAIN flight \cup {l},
           \A d \in DOMAIN flight : d # l => flight'[d] = flight[d]
    PROVE  Flying(c)' = Flying(c) /\ \A d \in Flying(c) : flight'[d] = flight[d]
BY DEF Flying

LEMMA StandingBeside ==
    ASSUME NEW c, inbox \in Seq(Letters),
           \/ inbox' = inbox
           \/ \E d \in Letters : d.from # c /\ inbox' = Append(inbox, d)
           \/ inbox # <<>> /\ Head(inbox).from # c /\ inbox' = Tail(inbox)
    PROVE  \E s \in {0, 1} :
            /\ \A j \in Standing(c)' : j + s \in Standing(c) /\ inbox'[j] = inbox[j + s]
            /\ \A j \in Standing(c) : j - s \in Standing(c)'
<1>1. CASE inbox' = inbox \/ \E d \in Letters : d.from # c /\ inbox' = Append(inbox, d)
  <2>1. /\ DOMAIN inbox \subseteq DOMAIN inbox' /\ DOMAIN inbox \subseteq Nat
        /\ DOMAIN inbox' \subseteq Nat
        /\ \A j \in DOMAIN inbox : inbox'[j] = inbox[j]
        /\ \A j \in DOMAIN inbox' : j \in DOMAIN inbox \/ inbox'[j].from # c
    BY <1>1
  <2>2. /\ \A j \in Standing(c)' : j + 0 \in Standing(c) /\ inbox'[j] = inbox[j + 0]
        /\ \A j \in Standing(c) : j - 0 \in Standing(c)'
    BY <2>1 DEF Standing
  <2> QED
    BY <2>2
<1>2. CASE inbox # <<>> /\ Head(inbox).from # c /\ inbox' = Tail(inbox)
  <2>1. /\ DOMAIN inbox \subseteq Nat /\ DOMAIN inbox' \subseteq Nat
        /\ \A j \in DOMAIN inbox' : j + 1 \in DOMAIN inbox /\ inbox'[j] = inbox[j + 1]
        /\ \A j \in DOMAIN inbox : j # 1 => j - 1 \in DOMAIN inbox'
        /\ inbox[1].from # c
    BY <1>2
  <2>2. /\ \A j \in Standing(c)' : j + 1 \in Standing(c) /\ inbox'[j] = inbox[j + 1]
        /\ \A j \in Standing(c) : j - 1 \in Standing(c)'
    BY <2>1 DEF Standing
  <2> QED
    BY <2>2
<1> QED
  BY <1>1, <1>2

LEMMA AskTurns ==
    ASSUME UdpSafe, UdpSafe', UdpTurns, NEW e \in Udp!Callers, Udp!Ask(e), NEW c \in Udp!Callers
    PROVE  Traced(c)' /\ Waits(c)'
<1>1. /\ user[e] = "type" /\ asked' = [asked EXCEPT ![e] = @ + 1]
      /\ user' = [user EXCEPT ![e] = "await"]
      /\ IF e \in failing
         THEN unsent' = unsent \cup {e} /\ UNCHANGED flight
         ELSE /\ flight' = Udp!(+)(flight, Udp!Datagram(e, 0, Udp!TextOf(e, asked'[e])))
              /\ UNCHANGED unsent
      /\ UNCHANGED <<kind, at, message, client_addr, served, inbox, mail, lost, copied, mixed>>
  BY DEF Udp!Ask
<1>2. UdpTypes /\ UdpTypes' /\ UdpCounts' /\ Traced(c) /\ Waits(c)
  BY DEF UdpSafe, UdpTurns
<1>3. /\ user'[e] = "await" /\ asked'[e] \in Nat \ {0}
      /\ c # e => user'[c] = user[c] /\ asked'[c] = asked[c]
      /\ c # 0 /\ e # 0 /\ inbox \in Seq(Letters) /\ inbox' \in Seq(Letters)
  <2>1. /\ asked \in [Udp!Callers -> Nat] /\ asked[e] \in Nat
        /\ user \in [Udp!Callers -> {"type", "await", "gone", "error"}]
        /\ inbox \in Seq(Letters) /\ inbox' \in Seq(Letters)
    BY <1>2 DEF UdpTypes
  <2>2. user'[e] = "await" /\ asked'[e] = asked[e] + 1
    BY <1>1, <2>1
  <2>3. c # e => user'[c] = user[c] /\ asked'[c] = asked[c]
    BY <1>1, <2>1
  <2> QED
    BY <2>1, <2>2, <2>3, CallersAre
<1> DEFINE x == Udp!TextOf(e, asked'[e])
           l == Letter(e, 0, x)
<1>4. l.from = e /\ l.to = 0 /\ l.text = x
  BY LetterFields
<1>5. x \in Seq(Udp!Chars)
  <2>1. asked'[e] \in DOMAIN Typed[e]
    BY <1>2, <1>3, CallersAre DEF UdpCounts
  <2> QED
    BY <2>1, TextFacts
<1> HIDE DEF x, l
<1>6. e \notin failing => /\ DOMAIN flight' = DOMAIN flight \cup {l}
                          /\ \A d \in DOMAIN flight : d # l => flight'[d] = flight[d]
                          /\ l \notin DOMAIN flight => flight'[l] = 1
  <2>1. e \notin failing => flight' = Udp!(+)(flight, Udp!Datagram(e, 0, x))
    BY <1>1 DEF x
  <2>2. e \in Udp!Callers \cup {0} /\ 0 \in Udp!Callers \cup {0}
    OBVIOUS
  <2> QED
    BY <1>2, <1>5, <2>1, <2>2, SendAdds DEF l
<1>7. (Held(c)' <=> Held(c)) /\ (InTurn(c)' => InTurn(c))
  BY <1>1, <1>3 DEF Held, InTurn
<1>8. CASE c # e
  <2>1. Flying(c)' = Flying(c) /\ \A d \in Flying(c) : flight'[d] = flight[d]
    <3>1. CASE e \in failing
      BY <1>1, <3>1 DEF Flying
    <3>2. CASE e \notin failing
      BY <1>3, <1>4, <1>6, <1>8, <3>2, FlyingBeside
    <3> QED
      BY <3>1, <3>2
  <2>2. \E s \in {0, 1} :
            /\ \A j \in Standing(c)' : j + s \in Standing(c) /\ inbox'[j] = inbox[j + s]
            /\ \A j \in Standing(c) : j - s \in Standing(c)'
    BY <1>1, <1>3, StandingBeside
  <2>3. Aside(c)
    BY <1>1, <1>3, <1>7, <1>8, <2>1, <2>2 DEF Aside
  <2> QED
    BY <1>2, <1>3, <2>3, AsideKeeps
<1>9. CASE c = e
  <2>1. Standing(c)' = Standing(c) /\ mail'[c] = mail[c]
    BY <1>1 DEF Standing
  <2>2. ASSUME copied' = 0, InTurn(c)' PROVE Following(c)'
    <3>1. Flying(c) = {} /\ Standing(c)' = {} /\ ~Held(c)' /\ mail'[c] = <<>>
      BY <1>1, <1>2, <1>7, <1>9, <2>1, <2>2 DEF Traced, Following, Somewhere
    <3>2. \A d \in Flying(c)' : d = l /\ flight'[d] = 1 /\ d.from = c /\ d.text = Latest(c)'
      <4>1. \A d \in Flying(c)' : d = l /\ e \notin failing
        BY <1>1, <1>6, <3>1 DEF Flying
      <4>2. e \notin failing => flight'[l] = 1
        BY <1>4, <1>6, <1>9, <3>1 DEF Flying
      <4>3. x = Latest(c)'
        BY <1>9 DEF x, Latest, Udp!TextOf
      <4> QED
        BY <1>4, <1>9, <4>1, <4>2, <4>3
    <3>3. InOnePlace(c)'
      BY <3>1, <3>2 DEF InOnePlace
    <3>4. Recent(c)'
      BY <3>1, <3>2 DEF Recent
    <3> QED
      BY <1>3, <1>9, <3>3, <3>4 DEF Following
  <2>3. ASSUME c \notin unsent' PROVE Somewhere(c)'
    <3>1. l \in Flying(c)'
      BY <1>1, <1>4, <1>6, <1>9, <2>3 DEF Flying
    <3> QED
      BY <3>1 DEF Somewhere
  <2> QED
    BY <2>2, <2>3 DEF Traced, Waits
<1> QED
  BY <1>8, <1>9

LEMMA HearTurns ==
    ASSUME UdpSafe, UdpSafe', UdpTurns, NEW e \in Udp!Callers, Udp!Hear(e), NEW c \in Udp!Callers
    PROVE  Traced(c)' /\ Waits(c)'
<1>1. /\ user[e] = "await" /\ mail[e] # <<>> /\ mail' = [mail EXCEPT ![e] = Tail(@)]
      /\ user' = [user EXCEPT ![e] = "type"]
      /\ UNCHANGED <<kind, at, message, client_addr, served, inbox, flight, failing, asked,
                     lost, copied, unsent, mixed>>
  BY DEF Udp!Hear
<1>2. UdpTypes /\ UdpTypes' /\ Traced(c) /\ Waits(c)
  BY DEF UdpSafe, UdpTurns
<1>3. /\ user'[e] = "type" /\ mail'[e] = Tail(mail[e])
      /\ c # e => user'[c] = user[c] /\ mail'[c] = mail[c]
      /\ inbox \in Seq(Letters) /\ inbox' \in Seq(Letters)
      /\ mail[e] \in Seq(Seq(Udp!Chars))
  BY <1>1, <1>2 DEF UdpTypes
<1>4. /\ Held(c)' <=> Held(c)
      /\ Flying(c)' = Flying(c) /\ \A d \in Flying(c) : flight'[d] = flight[d]
      /\ Standing(c)' = Standing(c)
  BY <1>1 DEF Held, Flying, Standing
<1>5. InTurn(c)' => InTurn(c)
  BY <1>1, <1>3 DEF InTurn
<1>6. CASE c # e
  <2>1. \E s \in {0, 1} :
            /\ \A j \in Standing(c)' : j + s \in Standing(c) /\ inbox'[j] = inbox[j + s]
            /\ \A j \in Standing(c) : j - s \in Standing(c)'
    BY <1>1, <1>3, StandingBeside
  <2>2. Aside(c)
    BY <1>1, <1>3, <1>4, <1>5, <1>6, <2>1 DEF Aside
  <2> QED
    BY <1>2, <1>3, <2>2, AsideKeeps
<1>7. CASE c = e
  <2>1. ASSUME copied' = 0, InTurn(c)' PROVE Following(c)'
    <3>1. Following(c) /\ mail[c] # <<>>
      BY <1>1, <1>2, <1>5, <1>7, <2>1 DEF Traced
    <3>2. Flying(c) = {} /\ Standing(c) = {} /\ ~Held(c) /\ Len(mail[c]) <= 1
      BY <3>1 DEF Following, InOnePlace
    <3>3. mail'[c] = <<>>
      <4> DEFINE S == Seq(Udp!Chars)
      <4>1. mail[c] \in Seq(S) /\ mail[c] # <<>> /\ Len(mail[c]) <= 1 /\ mail'[c] = Tail(mail[c])
        BY <1>3, <1>7, <3>1, <3>2
      <4> HIDE DEF S
      <4> QED
        BY <4>1
    <3>4. Len(mail'[c]) = 0
      BY <3>3
    <3> QED
      BY <1>4, <3>2, <3>3, <3>4 DEF Following, InOnePlace, Recent, Somewhere
  <2>2. ~(user'[c] = "await")
    BY <1>3, <1>7
  <2> QED
    BY <2>1, <2>2 DEF Traced, Waits
<1> QED
  BY <1>6, <1>7

LEMMA LeaveTurns ==
    ASSUME UdpSafe, UdpSafe', UdpTurns, NEW e \in Udp!Callers, Udp!Leave(e), NEW c \in Udp!Callers
    PROVE  Traced(c)' /\ Waits(c)'
<1>1. /\ \E to \in {"gone", "error"} : user' = [user EXCEPT ![e] = to]
      /\ mail' = [mail EXCEPT ![e] = <<>>]
      /\ UNCHANGED <<kind, at, message, client_addr, served, inbox, flight, asked, heard,
                     lost, copied, unsent, mixed>>
  BY DEF Udp!Leave
<1>2. UdpTypes /\ UdpTypes' /\ Traced(c) /\ Waits(c)
  BY DEF UdpSafe, UdpTurns
<1>3. /\ user'[e] \in {"gone", "error"}
      /\ c # e => user'[c] = user[c] /\ mail'[c] = mail[c]
      /\ inbox \in Seq(Letters) /\ inbox' \in Seq(Letters)
  BY <1>1, <1>2 DEF UdpTypes
<1>4. /\ Held(c)' <=> Held(c)
      /\ Flying(c)' = Flying(c) /\ \A d \in Flying(c) : flight'[d] = flight[d]
  BY <1>1 DEF Held, Flying
<1>5. CASE c # e
  <2>1. \E s \in {0, 1} :
            /\ \A j \in Standing(c)' : j + s \in Standing(c) /\ inbox'[j] = inbox[j + s]
            /\ \A j \in Standing(c) : j - s \in Standing(c)'
    BY <1>1, <1>3, StandingBeside
  <2>2. InTurn(c)' => InTurn(c)
    BY <1>1, <1>3, <1>5 DEF InTurn
  <2>3. Aside(c)
    BY <1>1, <1>3, <1>4, <1>5, <2>1, <2>2 DEF Aside
  <2> QED
    BY <1>2, <1>3, <2>3, AsideKeeps
<1>6. CASE c = e
  <2>1. ~InTurn(c)'
    BY <1>3, <1>6 DEF InTurn
  <2> QED
    BY <2>1 DEF Traced, Waits
<1> QED
  BY <1>5, <1>6

LEMMA LoseTurns ==
    ASSUME UdpSafe, UdpSafe', UdpTurns, Udp!Lose, NEW c \in Udp!Callers
    PROVE  Traced(c)' /\ Waits(c)'
<1>1. PICK d \in DOMAIN flight : flight' = Udp!(-)(flight, Udp!SetToBag({d}))
  BY OnTheirWay DEF Udp!Lose
<1>2. /\ lost' = lost + 1
      /\ UNCHANGED <<kind, at, message, client_addr, served, inbox, failing, user, asked, mail,
                     heard, copied, unsent, mixed>>
  BY DEF Udp!Lose
<1>3. UdpTypes /\ UdpTypes' /\ Traced(c)
  BY DEF UdpSafe, UdpTurns
<1>4. /\ DOMAIN flight' \subseteq DOMAIN flight
      /\ \A e \in DOMAIN flight : e # d => flight'[e] = flight[e]
      /\ d \in DOMAIN flight' => flight[d] # 1
  BY <1>1, <1>3, TakeRemoves
<1>5. /\ Held(c)' <=> Held(c)
      /\ InTurn(c)' <=> InTurn(c)
      /\ Standing(c)' = Standing(c)
  BY <1>2 DEF Held, InTurn, Standing
<1>6. ASSUME copied' = 0, InTurn(c)' PROVE Following(c)'
  <2>1. Following(c)
    BY <1>2, <1>3, <1>5, <1>6 DEF Traced
  <2>2. Flying(c)' \subseteq Flying(c)
    BY <1>4 DEF Flying
  <2>3. \A e \in Flying(c)' : flight'[e] = 1 /\ Flying(c)' = {e}
    <3>1. \A e \in Flying(c) : flight[e] = 1 /\ Flying(c) = {e}
      BY <2>1 DEF Following, InOnePlace
    <3>2. \A e \in Flying(c)' : e \in DOMAIN flight /\ e \in DOMAIN flight'
      BY <1>4 DEF Flying
    <3> QED
      BY <1>4, <2>2, <3>1, <3>2
  <2>4. Latest(c)' = Latest(c) /\ \A text : Says(c, text)' <=> Says(c, text)
    BY <1>2 DEF Latest, Says, Udp!TextOf
  <2>5. InOnePlace(c)'
    BY <1>2, <1>5, <2>1, <2>2, <2>3 DEF Following, InOnePlace
  <2>6. Recent(c)'
    <3>1. Recent(c)
      BY <2>1 DEF Following
    <3>2. mail'[c] # <<>> => Says(c, mail[c][1])'
      <4>1. mail'[c] # <<>> => Says(c, mail[c][1])
        BY <1>2, <3>1 DEF Recent
      <4> QED
        BY <1>2, <2>4, <4>1 DEF Says
    <3> QED
      BY <1>2, <1>5, <2>2, <2>4, <3>1, <3>2 DEF Recent
  <2>7. Somewhere(c)' => Somewhere(c)
    BY <1>2, <1>5, <2>2 DEF Somewhere
  <2> QED
    BY <1>2, <2>1, <2>5, <2>6, <2>7 DEF Following
<1>7. lost' # 0
  <2>1. lost \in 0 .. MaxLost
    BY <1>3 DEF UdpTypes
  <2> QED
    BY <1>2, <2>1
<1> QED
  BY <1>6, <1>7 DEF Traced, Waits

LEMMA DeliverTurns ==
    ASSUME UdpSafe, UdpSafe', UdpTurns, Udp!Deliver, NEW c \in Udp!Callers
    PROVE  Traced(c)' /\ Waits(c)'
<1>1. PICK d \in DOMAIN flight, copies \in 0 .. 1 :
        /\ copied' = copied + copies
        /\ flight' = IF copies = 1 THEN flight ELSE Udp!(-)(flight, Udp!SetToBag({d}))
        /\ IF Udp!NoSocket(d)
           THEN UNCHANGED <<inbox, mail>>
           ELSE IF d.to = 0
           THEN inbox' = Append(inbox, d) /\ UNCHANGED mail
           ELSE mail' = [mail EXCEPT ![d.to] = Append(@, d.text)] /\ UNCHANGED inbox
        /\ UNCHANGED <<kind, at, message, client_addr, served, user, asked, heard, lost,
                       unsent, mixed>>
  BY OnTheirWay DEF Udp!Deliver
<1>2. UdpTypes /\ UdpTypes' /\ UdpContents /\ UdpServer /\ Traced(c) /\ Waits(c)
  BY DEF UdpSafe, UdpTurns
<1>3. /\ d \in Letters /\ (Asks(d) \/ Tells(d)) /\ c # 0
      /\ inbox \in Seq(Letters) /\ inbox' \in Seq(Letters)
      /\ mail \in [Udp!Callers -> Seq(Seq(Udp!Chars))] /\ d.text \in Seq(Udp!Chars)
  BY <1>2, CallersAre DEF UdpTypes, UdpContents, Letters
<1>4. copied \in Nat /\ (copied' = 0 => copied = 0 /\ copies # 1)
  <2>1. copied \in 0 .. MaxCopied
    BY <1>2 DEF UdpTypes
  <2> QED
    BY <1>1, <2>1
<1>5. /\ DOMAIN flight \ {d} \subseteq DOMAIN flight' /\ DOMAIN flight' \subseteq DOMAIN flight
      /\ \A e \in DOMAIN flight : e # d => flight'[e] = flight[e]
      /\ copies # 1 => (d \in DOMAIN flight' => flight[d] # 1)
  <2>1. CASE copies = 1
    BY <1>1, <2>1
  <2>2. CASE copies # 1
    BY <1>1, <1>2, <2>2, TakeRemoves
  <2> QED
    BY <2>1, <2>2
<1>6. (Held(c)' <=> Held(c)) /\ (InTurn(c)' <=> InTurn(c))
  BY <1>1 DEF Held, InTurn
<1>7. CASE c \notin {d.from, d.to}
  <2>1. Flying(c)' = Flying(c) /\ \A e \in Flying(c) : flight'[e] = flight[e]
    BY <1>5, <1>7, FlyingBeside
  <2>2. \E s \in {0, 1} :
            /\ \A j \in Standing(c)' : j + s \in Standing(c) /\ inbox'[j] = inbox[j + s]
            /\ \A j \in Standing(c) : j - s \in Standing(c)'
    <3>1. inbox' = inbox \/ inbox' = Append(inbox, d)
      BY <1>1
    <3> QED
      BY <1>3, <1>7, <3>1, StandingBeside
  <2>3. mail'[c] = mail[c]
    BY <1>1, <1>3, <1>7
  <2>4. Aside(c)
    BY <1>1, <1>4, <1>6, <2>1, <2>2, <2>3 DEF Aside
  <2> QED
    BY <1>2, <1>3, <2>4, AsideKeeps
<1>8. CASE c \in {d.from, d.to}
  <2>1. d \in Flying(c)
    BY <1>8 DEF Flying
  <2>2. \/ d.from = c /\ d.to = 0
        \/ d.from = 0 /\ d.to = c
    BY <1>3, <1>8, CallersAre DEF Asks, Tells
  <2>3. \/ Udp!NoSocket(d) /\ inbox' = inbox /\ mail'[c] = mail[c]
        \/ ~Udp!NoSocket(d) /\ d.from = c /\ inbox' = Append(inbox, d) /\ mail'[c] = mail[c]
        \/ ~Udp!NoSocket(d) /\ d.from = 0 /\ inbox' = inbox
           /\ mail'[c] = Append(mail[c], d.text)
    BY <1>1, <1>3, <2>2
  <2>4. inbox' = Append(inbox, d) =>
            /\ Len(inbox) + 1 \in DOMAIN inbox' /\ inbox'[Len(inbox) + 1] = d
            /\ \A j \in DOMAIN inbox' : j \in DOMAIN inbox \/ j = Len(inbox) + 1
            /\ \A j \in DOMAIN inbox : inbox'[j] = inbox[j]
    BY <1>3
  <2>5. mail'[c] = Append(mail[c], d.text) => /\ mail'[c] # <<>>
                                              /\ mail[c] = <<>> => mail'[c] = <<d.text>>
    <3> DEFINE S == Seq(Udp!Chars)
    <3>1. mail[c] \in Seq(S) /\ d.text \in S
      BY <1>3
    <3> HIDE DEF S
    <3>2. Append(mail[c], d.text) # <<>>
      BY <3>1
    <3>3. Append(<<>>, d.text) = <<d.text>>
      BY <3>1
    <3> QED
      BY <3>2, <3>3
  <2>6. ASSUME copied' = 0, InTurn(c)' PROVE Following(c)'
    <3>1. Following(c) /\ copies # 1
      BY <1>2, <1>4, <1>6, <2>6 DEF Traced
    <3>2. /\ Flying(c) = {d} /\ flight[d] = 1
          /\ Standing(c) = {} /\ ~Held(c) /\ mail[c] = <<>>
      BY <2>1, <3>1 DEF Following, InOnePlace
    <3>3. Flying(c)' = {} /\ ~Held(c)'
      BY <1>5, <1>6, <3>1, <3>2 DEF Flying
    <3>4. user'[c] # "type"
      BY <1>1, <2>1, <3>1 DEF Following, Somewhere
    <3>5. IF d.from = c THEN d.text = Latest(c) ELSE Says(c, d.text)
      BY <2>1, <3>1 DEF Following, Recent
    <3>6. Latest(c)' = Latest(c) /\ (Says(c, d.text) => Says(c, d.text)')
      BY <1>1 DEF Latest, Says, Udp!TextOf
    <3>7. CASE inbox' = inbox /\ mail'[c] = mail[c]
      <4>1. Standing(c)' = {}
        BY <3>2, <3>7 DEF Standing
      <4> QED
        BY <3>2, <3>3, <3>4, <3>7, <4>1 DEF Following, InOnePlace, Recent
    <3>8. CASE d.from = c /\ inbox' = Append(inbox, d) /\ mail'[c] = mail[c]
      <4>1. Standing(c)' = {Len(inbox) + 1}
        BY <2>4, <3>2, <3>8 DEF Standing
      <4>2. \A j \in Standing(c)' : inbox'[j].text = Latest(c)'
        BY <2>4, <3>5, <3>6, <3>8, <4>1
      <4>3. InOnePlace(c)'
        BY <3>2, <3>3, <3>8, <4>1 DEF InOnePlace
      <4> QED
        BY <3>2, <3>3, <3>4, <3>8, <4>2, <4>3 DEF Following, Recent
    <3>9. CASE d.from = 0 /\ inbox' = inbox /\ mail'[c] = Append(mail[c], d.text)
      <4>1. Standing(c)' = {}
        BY <3>2, <3>9 DEF Standing
      <4>2. mail'[c] = <<d.text>> /\ Len(mail'[c]) <= 1 /\ mail'[c][1] = d.text
        BY <2>5, <3>2, <3>9
      <4>3. Says(c, d.text)'
        BY <1>3, <3>5, <3>6, <3>9
      <4>4. Says(c, mail[c][1])'
        BY <4>2, <4>3 DEF Says
      <4> QED
        BY <3>3, <3>4, <4>1, <4>2, <4>4 DEF Following, InOnePlace, Recent
    <3> QED
      BY <2>3, <3>7, <3>8, <3>9
  <2>7. ASSUME at' # "ended", InTurn(c)' PROVE Somewhere(c)'
    <3>1. ~Udp!NoSocket(d)
      <4>1. at # "ended" /\ InTurn(c)
        BY <1>1, <1>6, <2>7
      <4>2. user[c] \notin {"gone", "error"} /\ served \in {0, c}
        BY <1>2, <4>1 DEF InTurn, UdpServer
      <4> QED
        BY <1>3, <2>2, <4>1, <4>2 DEF Udp!NoSocket
    <3>2. CASE d.from = c /\ inbox' = Append(inbox, d)
      <4>1. Len(inbox) + 1 \in Standing(c)'
        BY <2>4, <3>2 DEF Standing
      <4> QED
        BY <4>1 DEF Somewhere
    <3>3. CASE mail'[c] = Append(mail[c], d.text)
      BY <2>5, <3>3 DEF Somewhere
    <3> QED
      BY <2>3, <3>1, <3>2, <3>3
  <2> QED
    BY <2>6, <2>7 DEF Traced, Waits
<1> QED
  BY <1>7, <1>8

LEMMA ReplyTurns ==
    ASSUME UdpSafe, UdpSafe', UdpTurns, Udp!Reply, NEW c \in Udp!Callers
    PROVE  Traced(c)' /\ Waits(c)'
<1> DEFINE e == Head(inbox).from
           x == Head(inbox).text
           l == Letter(0, e, x)
<1>1. /\ kind = "plain" /\ inbox # <<>> /\ client_addr' = e
      /\ message' = Udp!Read(x, <<Udp!End>>)
      /\ flight' = Udp!(+)(flight, Udp!Datagram(0, client_addr', Udp!StringIn(message')))
      /\ inbox' = Tail(inbox)
      /\ UNCHANGED <<kind, at, served, failing, user, asked, mail, heard, lost, copied, unsent,
                     mixed>>
  BY DEF Udp!Reply
<1>2. UdpTypes /\ UdpCounts /\ UdpContents /\ UdpServer /\ UdpTypes' /\ Traced(c) /\ Waits(c)
  BY DEF UdpSafe, UdpTurns
<1>3. /\ e \in Udp!Callers /\ Line(e, x) /\ inbox[1].from = e /\ inbox[1].text = x
      /\ 1 \in DOMAIN inbox /\ inbox \in Seq(Letters) /\ inbox' \in Seq(Letters)
      /\ \A j \in DOMAIN inbox' : j + 1 \in DOMAIN inbox /\ j + 1 # 1 /\ inbox'[j] = inbox[j + 1]
  BY <1>1, <1>2, HeadOfInbox DEF UdpTypes
<1>4. x \in Seq(Udp!Chars) /\ Udp!StringIn(message') = x
  BY <1>1, <1>2, <1>3, LineTyped
<1>5. l.from = 0 /\ l.to = e /\ l.text = x /\ c # 0
  BY CallersAre, LetterFields
<1>6. inbox # <<>> => Head(inbox).from = e
  OBVIOUS
<1> HIDE DEF e, x
<1>7. /\ DOMAIN flight' = DOMAIN flight \cup {l}
      /\ \A d \in DOMAIN flight : d # l => flight'[d] = flight[d]
      /\ l \notin DOMAIN flight => flight'[l] = 1
  <2>1. flight' = Udp!(+)(flight, Udp!Datagram(0, e, x))
    BY <1>1, <1>4
  <2>2. e \in Udp!Callers \cup {0} /\ 0 \in Udp!Callers \cup {0}
    BY <1>3
  <2> QED
    BY <1>2, <1>4, <2>1, <2>2, SendAdds
<1> HIDE DEF l
<1>8. /\ InTurn(c)' <=> InTurn(c)
      /\ ~Held(c) /\ ~Held(c)'
  BY <1>1, <1>2 DEF InTurn, Held, UdpServer
<1>9. CASE c # e
  <2>1. Flying(c)' = Flying(c) /\ \A d \in Flying(c) : flight'[d] = flight[d]
    BY <1>5, <1>7, <1>9, FlyingBeside
  <2>2. \E s \in {0, 1} :
            /\ \A j \in Standing(c)' : j + s \in Standing(c) /\ inbox'[j] = inbox[j + s]
            /\ \A j \in Standing(c) : j - s \in Standing(c)'
    BY <1>1, <1>3, <1>6, <1>9, StandingBeside
  <2>3. Aside(c)
    BY <1>1, <1>8, <2>1, <2>2 DEF Aside
  <2> QED
    BY <1>2, <1>3, <2>3, AsideKeeps
<1>10. CASE c = e
  <2>1. 1 \in Standing(c)
    BY <1>3, <1>10 DEF Standing
  <2>2. ASSUME copied' = 0, InTurn(c)' PROVE Following(c)'
    <3>1. Following(c)
      BY <1>1, <1>2, <1>8, <2>2 DEF Traced
    <3>2. Standing(c) = {1} /\ Flying(c) = {} /\ mail[c] = <<>>
      BY <2>1, <3>1 DEF Following, InOnePlace
    <3>3. Standing(c)' = {}
      <4>1. \A j \in Standing(c)' : j + 1 \in Standing(c) /\ j + 1 # 1
        BY <1>3 DEF Standing
      <4> QED
        BY <3>2, <4>1
    <3>4. x = Latest(c)' /\ \A t : t = x => Says(c, t)'
      <4>1. x = Latest(c)
        BY <1>3, <2>1, <3>1 DEF Following, Recent
      <4>2. Latest(c)' = Latest(c)
        BY <1>1 DEF Latest, Udp!TextOf
      <4>3. \A t : t = Latest(c)' => Says(c, t)'
        BY <1>1 DEF Says
      <4> QED
        BY <4>1, <4>2, <4>3
    <3>5. Flying(c)' = {l} /\ flight'[l] = 1
      <4>1. Flying(c)' = {l}
        BY <1>5, <1>7, <1>10, <3>2 DEF Flying
      <4>2. l \notin DOMAIN flight
        BY <1>5, <1>10, <3>2 DEF Flying
      <4> QED
        BY <1>7, <4>1, <4>2
    <3>6. user'[c] # "type"
      BY <1>1, <2>1, <3>1 DEF Following, Somewhere
    <3>7. InOnePlace(c)'
      BY <1>1, <1>8, <3>2, <3>3, <3>5 DEF InOnePlace
    <3>8. Recent(c)'
      <4>1. \A d \in Flying(c)' : d.from # c /\ Says(c, d.text)'
        BY <1>5, <3>4, <3>5
      <4> QED
        BY <1>1, <1>8, <3>2, <3>3, <4>1 DEF Recent
    <3> QED
      BY <3>6, <3>7, <3>8 DEF Following
  <2>3. Somewhere(c)'
    BY <1>5, <1>7, <1>10 DEF Somewhere, Flying
  <2> QED
    BY <2>2, <2>3 DEF Traced, Waits
<1> QED
  BY <1>9, <1>10

LEMMA FirstReadTurns ==
    ASSUME UdpSafe, UdpSafe', UdpTurns, Udp!FirstRead, NEW c \in Udp!Callers
    PROVE  Traced(c)' /\ Waits(c)'
<1> DEFINE e == Head(inbox).from
           x == Head(inbox).text
<1>1. /\ kind = "connected" /\ at = "first" /\ inbox # <<>> /\ client_addr' = e
      /\ message' = Udp!Read(x, <<Udp!End>>)
      /\ inbox' = Tail(inbox) /\ at' = "connect"
      /\ UNCHANGED <<kind, served, flight, failing, user, asked, mail, heard, lost, copied,
                     unsent, mixed>>
  BY DEF Udp!FirstRead
<1>2. UdpTypes /\ UdpCounts /\ UdpContents /\ UdpServer /\ UdpTypes' /\ Traced(c) /\ Waits(c)
  BY DEF UdpSafe, UdpTurns
<1>3. /\ e \in Udp!Callers /\ Line(e, x) /\ inbox[1].from = e /\ inbox[1].text = x
      /\ 1 \in DOMAIN inbox /\ inbox \in Seq(Letters) /\ inbox' \in Seq(Letters)
      /\ \A j \in DOMAIN inbox' : j + 1 \in DOMAIN inbox /\ j + 1 # 1 /\ inbox'[j] = inbox[j + 1]
  BY <1>1, <1>2, HeadOfInbox DEF UdpTypes
<1>4. StartsWith(message', x)
  BY <1>1, <1>2, <1>3, LineTyped
<1>5. inbox # <<>> => Head(inbox).from = e
  OBVIOUS
<1> HIDE DEF e, x
<1>6. /\ InTurn(c)' <=> InTurn(c)
      /\ ~Held(c) /\ (Held(c)' <=> c = e)
      /\ Flying(c)' = Flying(c) /\ \A d \in Flying(c) : flight'[d] = flight[d]
  BY <1>1 DEF InTurn, Held, Flying
<1>7. CASE c # e
  <2>1. \E s \in {0, 1} :
            /\ \A j \in Standing(c)' : j + s \in Standing(c) /\ inbox'[j] = inbox[j + s]
            /\ \A j \in Standing(c) : j - s \in Standing(c)'
    BY <1>1, <1>3, <1>5, <1>7, StandingBeside
  <2>2. Aside(c)
    BY <1>1, <1>6, <1>7, <2>1 DEF Aside
  <2> QED
    BY <1>2, <1>3, <2>2, AsideKeeps
<1>8. CASE c = e
  <2>1. 1 \in Standing(c)
    BY <1>3, <1>8 DEF Standing
  <2>2. ASSUME copied' = 0, InTurn(c)' PROVE Following(c)'
    <3>1. Following(c)
      BY <1>1, <1>2, <1>6, <2>2 DEF Traced
    <3>2. Standing(c) = {1} /\ Flying(c) = {} /\ mail[c] = <<>>
      BY <2>1, <3>1 DEF Following, InOnePlace
    <3>3. Standing(c)' = {}
      <4>1. \A j \in Standing(c)' : j + 1 \in Standing(c) /\ j + 1 # 1
        BY <1>3 DEF Standing
      <4> QED
        BY <3>2, <4>1
    <3>4. x = Latest(c)'
      <4>1. x = Latest(c)
        BY <1>3, <2>1, <3>1 DEF Following, Recent
      <4>2. Latest(c)' = Latest(c)
        BY <1>1 DEF Latest, Udp!TextOf
      <4> QED
        BY <4>1, <4>2
    <3>5. user'[c] # "type"
      BY <1>1, <2>1, <3>1 DEF Following, Somewhere
    <3>6. mail'[c] = <<>> /\ Len(mail'[c]) <= 1 /\ Flying(c)' = {}
      BY <1>1, <1>6, <3>2
    <3>7. InOnePlace(c)'
      BY <3>3, <3>6 DEF InOnePlace
    <3>8. StartsWith(message', Latest(c)')
      BY <1>4, <3>4
    <3>9. Recent(c)'
      BY <3>3, <3>6, <3>8 DEF Recent, StartsWith
    <3> QED
      BY <3>5, <3>7, <3>9 DEF Following
  <2>3. Somewhere(c)'
    BY <1>6, <1>8 DEF Somewhere
  <2> QED
    BY <2>2, <2>3 DEF Traced, Waits
<1> QED
  BY <1>7, <1>8

LEMMA ConnectTurns ==
    ASSUME UdpSafe, UdpSafe', UdpTurns, Udp!ConnectSocket, NEW c \in Udp!Callers
    PROVE  Traced(c)' /\ Waits(c)'
<1>1. /\ at = "connect" /\ served' = client_addr /\ at' \in {"ended", "send"}
      /\ UNCHANGED <<kind, message, client_addr, inbox, flight, failing, user, asked, mail,
                     heard, lost, copied, unsent>>
  BY DEF Udp!ConnectSocket, Udp!LoopOn
<1>2. UdpTypes /\ UdpServer /\ Traced(c) /\ Waits(c)
  BY DEF UdpSafe, UdpTurns
<1>3. /\ client_addr # 0 /\ served = 0 /\ kind = "connected"
      /\ inbox \in Seq(Letters) /\ inbox' \in Seq(Letters)
  BY <1>1, <1>2, CallersAre DEF UdpServer, UdpTypes
<1>4. InTurn(c)' => InTurn(c) /\ Held(c) /\ (Held(c)' <=> at' = "send")
  BY <1>1, <1>3 DEF InTurn, Held
<1>5. Flying(c)' = Flying(c) /\ Standing(c)' = Standing(c) /\ Latest(c)' = Latest(c)
  BY <1>1 DEF Flying, Standing, Latest, Udp!TextOf
<1>6. ASSUME copied' = 0, InTurn(c)' PROVE Following(c)'
  <2>1. Following(c) /\ Held(c)
    BY <1>1, <1>2, <1>4, <1>6 DEF Traced
  <2>2. Flying(c)' = {} /\ Standing(c)' = {} /\ mail'[c] = <<>> /\ Len(mail'[c]) <= 1
    BY <1>1, <1>5, <2>1 DEF Following, InOnePlace
  <2>3. StartsWith(message', Latest(c)')
    BY <1>1, <1>5, <2>1 DEF Following, Recent
  <2>4. user'[c] # "type"
    BY <1>1, <2>1 DEF Following, Somewhere
  <2>5. InOnePlace(c)'
    BY <2>2 DEF InOnePlace
  <2>6. Recent(c)'
    BY <2>2, <2>3 DEF Recent, StartsWith
  <2> QED
    BY <2>4, <2>5, <2>6 DEF Following
<1>7. ASSUME at' # "ended", InTurn(c)' PROVE Somewhere(c)'
  BY <1>1, <1>4, <1>7 DEF Somewhere
<1> QED
  BY <1>6, <1>7 DEF Traced, Waits

LEMMA SendTurns ==
    ASSUME UdpSafe, UdpSafe', UdpTurns, Udp!SendAnswer, NEW c \in Udp!Callers
    PROVE  Traced(c)' /\ Waits(c)'
<1> DEFINE x == Udp!StringIn(message)
           l == Letter(0, served, x)
<1>1. /\ at = "send" /\ at' = "recv"
      /\ flight' = IF 0 \in failing THEN flight ELSE Udp!(+)(flight, Udp!Datagram(0, served, x))
      /\ UNCHANGED <<kind, message, client_addr, served, inbox, user, asked, mail, heard, lost,
                     copied, unsent, mixed>>
  BY DEF Udp!SendAnswer
<1>2. UdpTypes /\ UdpCounts /\ UdpServer /\ Traced(c) /\ Waits(c)
  BY DEF UdpSafe, UdpTurns
<1>3. /\ served \in Udp!Callers /\ kind = "connected" /\ x \in Seq(Udp!Chars) /\ served # 0
      /\ c # 0 /\ message \in [1 .. 3 -> Udp!Chars]
  BY <1>1, <1>2, StringTyped, CallersAre DEF UdpServer, UdpTypes
<1>4. l.from = 0 /\ l.to = served /\ l.text = x
  BY LetterFields
<1>5. Standing(c)' = Standing(c) /\ Latest(c)' = Latest(c) /\ ~Held(c)'
  BY <1>1 DEF Standing, Held, Latest, Udp!TextOf
<1>6. InTurn(c)' => InTurn(c) /\ c = served /\ Held(c) /\ 0 \notin failing
  BY <1>1, <1>2, <1>3 DEF InTurn, Held, UdpServer
<1>7. ASSUME StartsWith(message, Latest(c)), user[c] # "type", InTurn(c)' PROVE StartsWith(x, Latest(c))
  <2>1. asked[c] \in DOMAIN Typed[c]
    <3>1. /\ asked[c] \in Nat /\ asked[c] <= Len(Typed[c]) /\ Len(Typed[c]) \in Nat
          /\ DOMAIN Typed[c] = 1 .. Len(Typed[c])
      BY <1>2, CallersAre DEF UdpTypes, UdpCounts
    <3>2. asked[c] # 0
      <4>1. user[c] = "await" /\ asked[c] = Len(heard[c]) + 1
        BY <1>2, <1>6, <1>7 DEF InTurn, UdpCounts
      <4>2. heard[c] \in Seq(Seq(Udp!Chars))
        BY <1>2 DEF UdpTypes
      <4>3. Len(heard[c]) \in Nat
        BY <4>2, LenProperties
      <4> QED
        BY <4>1, <4>3
    <3> QED
      BY <3>1, <3>2
  <2>2. \A b \in 1 .. Len(Latest(c)) : message[b] = Latest(c)[b]
    BY <1>7 DEF StartsWith
  <2> QED
    BY <1>3, <2>1, <2>2, StringBegins DEF Latest
<1> HIDE DEF x
<1>8. 0 \notin failing => /\ DOMAIN flight' = DOMAIN flight \cup {l}
                          /\ l \notin DOMAIN flight => flight'[l] = 1
  <2>1. 0 \notin failing => flight' = Udp!(+)(flight, Udp!Datagram(0, served, x))
    BY <1>1
  <2>2. served \in Udp!Callers \cup {0} /\ 0 \in Udp!Callers \cup {0}
    BY <1>3
  <2> QED
    BY <1>2, <1>3, <2>1, <2>2, SendAdds
<1> HIDE DEF l
<1>9. ASSUME copied' = 0, InTurn(c)' PROVE Following(c)'
  <2>1. Following(c) /\ Held(c) /\ c = served /\ 0 \notin failing
    BY <1>1, <1>2, <1>6, <1>9 DEF Traced
  <2>2. Flying(c) = {} /\ Standing(c)' = {} /\ mail'[c] = <<>> /\ Len(mail'[c]) <= 1
    BY <1>1, <1>5, <2>1 DEF Following, InOnePlace
  <2>3. user'[c] # "type"
    BY <1>1, <2>1 DEF Following, Somewhere
  <2>4. StartsWith(x, Latest(c))
    BY <1>1, <1>7, <1>9, <2>1, <2>3 DEF Following, Recent
  <2>5. Flying(c)' = {l} /\ flight'[l] = 1
    <3>1. Flying(c)' = {l}
      BY <1>4, <1>8, <2>1, <2>2 DEF Flying
    <3>2. l \notin DOMAIN flight
      BY <1>4, <2>1, <2>2 DEF Flying
    <3> QED
      BY <1>8, <2>1, <3>1, <3>2
  <2>6. InOnePlace(c)'
    BY <1>5, <2>2, <2>5 DEF InOnePlace
  <2>7. \A d \in Flying(c)' : d.from # c /\ Says(c, d.text)'
    <3>1. \A t : t = x => Says(c, t)'
      BY <1>1, <1>3, <1>5, <2>4 DEF Says, StartsWith
    <3> QED
      BY <1>3, <1>4, <2>5, <3>1
  <2>8. Recent(c)'
    BY <1>5, <2>2, <2>7 DEF Recent
  <2> QED
    BY <2>3, <2>6, <2>8 DEF Following
<1>10. ASSUME InTurn(c)' PROVE Somewhere(c)'
  <2>1. l \in Flying(c)'
    BY <1>4, <1>6, <1>8, <1>10 DEF Flying
  <2> QED
    BY <2>1 DEF Somewhere
<1> QED
  BY <1>9, <1>10 DEF Traced, Waits

LEMMA ReadAgainTurns ==
    ASSUME UdpSafe, UdpSafe', UdpTurns, Udp!ReadAgain, NEW c \in Udp!Callers
    PROVE  Traced(c)' /\ Waits(c)'
<1> DEFINE e == Head(inbox).from
           x == Head(inbox).text
<1>1. /\ at = "recv" /\ at' \in {"ended", "send"}
      /\ \/ 0 \in failing
         \/ inbox # <<>> /\ inbox' = Tail(inbox) /\ message' = Udp!Read(x, <<>>)
      /\ UNCHANGED <<kind, client_addr, served, flight, user, asked, mail, heard, lost, copied,
                     unsent, mixed>>
  BY DEF Udp!ReadAgain, Udp!LoopOn
<1>2. UdpTypes /\ UdpCounts /\ UdpContents /\ UdpServer /\ Traced(c) /\ Waits(c)
  BY DEF UdpSafe, UdpTurns
<1>3. SUFFICES ASSUME InTurn(c)'
               PROVE  /\ copied' = 0 => Following(c)'
                      /\ at' # "ended" => Somewhere(c)'
  BY DEF Traced, Waits
<1>4. /\ kind = "connected" /\ served \in Udp!Callers /\ served # 0
      /\ InTurn(c) /\ c = served /\ ~mixed /\ 0 \notin failing
  <2>1. kind = "connected" /\ served \in Udp!Callers /\ served # 0
    BY <1>1, <1>2, CallersAre DEF UdpServer, UdpTypes
  <2>2. InTurn(c) /\ c = served /\ ~mixed
    BY <1>1, <1>3, <2>1 DEF InTurn
  <2>3. user[served] \notin {"gone", "error"}
    BY <2>2 DEF InTurn
  <2> QED
    BY <1>2, <2>1, <2>2, <2>3 DEF UdpServer
<1>5. inbox # <<>> /\ inbox' = Tail(inbox) /\ message' = Udp!Read(x, <<>>)
  BY <1>1, <1>4
<1>6. /\ Line(e, x) /\ inbox[1].from = e /\ inbox[1].text = x /\ 1 \in DOMAIN inbox
      /\ e \in Udp!Callers
      /\ \A j \in DOMAIN inbox' : j + 1 \in DOMAIN inbox /\ j + 1 # 1 /\ inbox'[j] = inbox[j + 1]
  BY <1>2, <1>5, HeadOfInbox
<1>7. StartsWith(message', x)
  BY <1>2, <1>5, <1>6, LineTyped
<1> HIDE DEF e, x
<1>8. e = c /\ 1 \in Standing(c)
  BY <1>2, <1>4, <1>6 DEF UdpServer, Standing
<1>9. /\ ~Held(c) /\ (Held(c)' <=> at' = "send")
      /\ Flying(c)' = Flying(c)
      /\ Latest(c)' = Latest(c)
  BY <1>1, <1>4 DEF Held, Flying, Latest, Udp!TextOf
<1>10. ASSUME copied' = 0 PROVE Following(c)'
  <2>1. Following(c)
    BY <1>1, <1>2, <1>4, <1>10 DEF Traced
  <2>2. Standing(c) = {1} /\ Flying(c)' = {} /\ mail'[c] = <<>> /\ Len(mail'[c]) <= 1
    BY <1>1, <1>8, <1>9, <2>1 DEF Following, InOnePlace
  <2>3. Standing(c)' = {}
    <3>1. \A j \in Standing(c)' : j + 1 \in Standing(c) /\ j + 1 # 1
      BY <1>6 DEF Standing
    <3> QED
      BY <2>2, <3>1
  <2>4. x = Latest(c)
    BY <1>6, <1>8, <2>1 DEF Following, Recent
  <2>5. StartsWith(message', Latest(c)')
    BY <1>7, <1>9, <2>4
  <2>6. user'[c] # "type"
    BY <1>1, <1>8, <2>1 DEF Following, Somewhere
  <2>7. InOnePlace(c)'
    BY <2>2, <2>3 DEF InOnePlace
  <2>8. Recent(c)'
    BY <2>2, <2>3, <2>5 DEF Recent, StartsWith
  <2> QED
    BY <2>6, <2>7, <2>8 DEF Following
<1>11. ASSUME at' # "ended" PROVE Somewhere(c)'
  BY <1>1, <1>9, <1>11 DEF Somewhere
<1> QED
  BY <1>10, <1>11

-----------------------------------------------------------------------------
(* The answers that are heard *)

HeardOwn(c, k, x) ==
    IF kind = "plain"
    THEN \E j \in 1 .. k : x = Udp!TextOf(c, j) /\ (copied = 0 => j = k)
    ELSE /\ c = served
         /\ ~mixed /\ copied = 0 => SubSeq(x, 1, Len(Udp!TextOf(c, k))) = Udp!TextOf(c, k)

LEMMA AnswersAre ==
    /\ Udp!AnswersOwn <=>
            \A c \in Udp!Callers : \A k \in DOMAIN heard[c] : HeardOwn(c, k, heard[c][k])
    /\ Udp!AnswersOwn' <=>
            \A c \in Udp!Callers : \A k \in DOMAIN heard'[c] : HeardOwn(c, k, heard[c][k])'
BY DEF Udp!AnswersOwn, HeardOwn

LEMMA AnswersKept ==
    ASSUME Udp!AnswersOwn, heard' = heard, kind' = kind, copied' = 0 => copied = 0,
           kind = "plain" \/ served = 0 \/ (served' = served /\ mixed' = mixed)
    PROVE  Udp!AnswersOwn'
<1>1. ASSUME NEW c \in Udp!Callers, NEW k \in DOMAIN heard[c]
      PROVE  HeardOwn(c, k, heard[c][k])'
  <2>1. HeardOwn(c, k, heard[c][k])
    BY AnswersAre
  <2>2. c # 0
    BY CallersAre
  <2> QED
    BY <2>1, <2>2 DEF HeardOwn
<1> QED
  BY <1>1, AnswersAre

LEMMA HearAnswers ==
    ASSUME UdpInv, NEW e \in Udp!Callers, Udp!Hear(e)
    PROVE  Udp!AnswersOwn'
<1>1. /\ user[e] = "await" /\ mail[e] # <<>>
      /\ heard' = [heard EXCEPT ![e] = Append(@, Head(mail[e]))]
      /\ UNCHANGED <<kind, served, copied, mixed, asked>>
  BY DEF Udp!Hear
<1>2. UdpTypes /\ UdpCounts /\ UdpContents /\ UdpServer /\ Traced(e) /\ Udp!AnswersOwn
  BY DEF UdpInv, UdpSafe, UdpTurns
<1> DEFINE x == Head(mail[e])
           k == asked[e]
           t == Udp!TextOf(e, k)
<1>3. /\ 1 \in DOMAIN mail[e] /\ x = mail[e][1] /\ x \in Seq(Udp!Chars)
      /\ heard'[e] = Append(heard[e], x)
      /\ \A c \in Udp!Callers : c # e => heard'[c] = heard[c]
      /\ \A j \in DOMAIN heard'[e] : \/ j \in DOMAIN heard[e] /\ heard'[e][j] = heard[e][j]
                                     \/ j = Len(heard[e]) + 1 /\ heard'[e][j] = x
  <2> DEFINE S == Seq(Udp!Chars)
  <2>1. /\ mail[e] \in Seq(S) /\ heard[e] \in Seq(S)
        /\ heard \in [Udp!Callers -> Seq(S)]
    BY <1>2 DEF UdpTypes
  <2> HIDE DEF S
  <2>2. 1 \in DOMAIN mail[e] /\ x = mail[e][1] /\ x \in S
    BY <1>1, <2>1
  <2>3. /\ heard'[e] = Append(heard[e], x)
        /\ \A c \in Udp!Callers : c # e => heard'[c] = heard[c]
    BY <1>1, <2>1
  <2> HIDE DEF x
  <2>4. \A j \in DOMAIN heard'[e] : \/ j \in DOMAIN heard[e] /\ heard'[e][j] = heard[e][j]
                                    \/ j = Len(heard[e]) + 1 /\ heard'[e][j] = x
    BY <2>1, <2>2, <2>3
  <2> QED
    BY <2>2, <2>3, <2>4 DEF S
<1>4. k = Len(heard[e]) + 1 /\ k \in DOMAIN Typed[e] /\ k \in 1 .. k
  <2>1. k = Len(heard[e]) + 1 /\ k <= Len(Typed[e]) /\ k \in Nat
    BY <1>1, <1>2 DEF UdpCounts, UdpTypes
  <2>2. Len(heard[e]) \in Nat
    <3>1. heard[e] \in Seq(Seq(Udp!Chars))
      BY <1>2 DEF UdpTypes
    <3> QED
      BY <3>1, LenProperties
  <2>3. Len(Typed[e]) \in Nat /\ DOMAIN Typed[e] = 1 .. Len(Typed[e])
    BY CallersAre
  <2> HIDE DEF k
  <2> QED
    BY <2>1, <2>2, <2>3
<1>5. copied = 0 /\ InTurn(e) => Says(e, x)
  <2>1. Traced(e) /\ copied = 0 /\ InTurn(e) => Recent(e)
    BY DEF Traced, Following
  <2> QED
    BY <1>1, <1>2, <1>3, <2>1 DEF Recent
<1>6. Meant(e, x)
  BY <1>2, <1>3 DEF UdpContents
<1>7. HeardOwn(e, k, x)
  <2>1. CASE kind = "plain"
    <3>1. PICK j \in 1 .. k : x = Udp!TextOf(e, j)
      BY <1>6, <2>1 DEF Meant, Line
    <3>2. copied = 0 => x = t
      BY <1>1, <1>5, <2>1 DEF InTurn, Says, Latest
    <3> QED
      BY <1>4, <2>1, <3>1, <3>2 DEF HeardOwn
  <2>2. CASE kind # "plain"
    <3>1. e = served
      BY <1>6, <2>2 DEF Meant
    <3>2. ASSUME ~mixed, copied = 0 PROVE SubSeq(x, 1, Len(t)) = t
      <4>1. StartsWith(x, t)
        BY <1>1, <1>5, <2>2, <3>1, <3>2 DEF InTurn, Says, Latest
      <4>2. t \in Seq(Udp!Chars)
        BY <1>4, TextFacts
      <4> HIDE DEF x, t
      <4>3. /\ SubSeq(x, 1, Len(t)) \in Seq(Udp!Chars)
            /\ Len(SubSeq(x, 1, Len(t))) = Len(t)
            /\ \A b \in 1 .. Len(t) : SubSeq(x, 1, Len(t))[b] = x[b]
        BY <1>3, <4>1, <4>2 DEF StartsWith
      <4>4. \A b \in 1 .. Len(t) : SubSeq(x, 1, Len(t))[b] = t[b]
        BY <4>1, <4>3 DEF StartsWith
      <4> QED
        BY <4>2, <4>3, <4>4, SeqEqual
    <3> QED
      BY <2>2, <3>1, <3>2 DEF HeardOwn
  <2> QED
    BY <2>1, <2>2
<1> HIDE DEF x
<1>8. ASSUME NEW c \in Udp!Callers, NEW m \in DOMAIN heard'[c]
      PROVE  HeardOwn(c, m, heard[c][m])'
  <2>1. HeardOwn(c, m, heard'[c][m])
    <3>1. CASE m \in DOMAIN heard[c] /\ heard'[c][m] = heard[c][m]
      BY <1>2, <3>1, AnswersAre
    <3>2. CASE c = e /\ m = k /\ heard'[c][m] = x
      BY <1>7, <3>2
    <3> QED
      BY <1>3, <1>4, <1>8, <3>1, <3>2
  <2> QED
    BY <1>1, <2>1 DEF HeardOwn
<1> QED
  BY <1>8, AnswersAre

LEMMA UdpInit == Init => UdpInv
<1> SUFFICES ASSUME Init PROVE UdpInv
  OBVIOUS
<1>1. /\ kind \in {"plain", "connected"} /\ at = "first"
      /\ \E rest \in {Udp!End, Udp!Junk} : message = <<rest, rest, rest>>
      /\ client_addr = 0 /\ served = 0 /\ inbox = <<>> /\ flight = Udp!SetToBag({})
      /\ failing = {}
      /\ user = [c \in Udp!Callers |-> "type"] /\ asked = [c \in Udp!Callers |-> 0]
      /\ mail = [c \in Udp!Callers |-> <<>>] /\ heard = [c \in Udp!Callers |-> <<>>]
      /\ lost = 0 /\ copied = 0 /\ unsent = {} /\ mixed = FALSE
  BY DEF Init, Udp!Start, Udp!EmptyBag
<1>2. DOMAIN flight = {} /\ IsBag(flight)
  <2>1. flight = [e \in {} |-> 1]
    BY <1>1 DEF Udp!SetToBag
  <2> QED
    BY <2>1 DEF IsBag
<1>3. message \in [1 .. 3 -> Udp!Chars]
  <2>1. PICK rest \in {Udp!End, Udp!Junk} : message = <<rest, rest, rest>>
    BY <1>1
  <2>2. rest \in Udp!Chars
    BY DEF Udp!End, Udp!Junk, Udp!Chars
  <2> QED
    BY <2>1, <2>2
<1>4. mail \in [Udp!Callers -> Seq(Seq(Udp!Chars))] /\ heard \in [Udp!Callers -> Seq(Seq(Udp!Chars))]
  <2> DEFINE S == Seq(Udp!Chars)
  <2>1. <<>> \in Seq(S)
    BY EmptySeq
  <2> HIDE DEF S
  <2>2. mail \in [Udp!Callers -> Seq(S)] /\ heard \in [Udp!Callers -> Seq(S)]
    BY <1>1, <2>1
  <2> QED
    BY <2>2 DEF S
<1>5. inbox \in Seq(Letters) /\ DOMAIN inbox = {}
  BY <1>1, EmptySeq
<1>6. UdpTypes
  <2>1. lost \in 0 .. MaxLost /\ copied \in 0 .. MaxCopied
    BY <1>1, ProgramsAssumption
  <2> QED
    BY <1>1, <1>2, <1>3, <1>4, <1>5, <2>1 DEF UdpTypes
<1>7. \A c \in Udp!Callers : /\ user[c] = "type" /\ asked[c] = 0
                             /\ mail[c] = <<>> /\ Len(mail[c]) = 0 /\ DOMAIN mail[c] = {}
                             /\ heard[c] = <<>> /\ Len(heard[c]) = 0 /\ DOMAIN heard[c] = {}
  BY <1>1
<1>8. UdpCounts
  BY <1>7, CallersAre DEF UdpCounts
<1>9. UdpContents
  BY <1>2, <1>5, <1>7 DEF UdpContents
<1>10. UdpServer
  BY <1>1, <1>5 DEF UdpServer
<1>11. UdpTurns
  <2> SUFFICES ASSUME NEW c \in Udp!Callers PROVE Traced(c) /\ Waits(c)
    BY DEF UdpTurns
  <2>1. Flying(c) = {} /\ Standing(c) = {} /\ ~Held(c) /\ mail[c] = <<>> /\ Len(mail[c]) <= 1
    BY <1>1, <1>2, <1>5, <1>7 DEF Flying, Standing, Held
  <2> QED
    BY <1>7, <2>1 DEF Traced, Waits, Following, InOnePlace, Recent, Somewhere
<1>12. Udp!AnswersOwn
  BY <1>7 DEF Udp!AnswersOwn
<1> QED
  BY <1>6, <1>8, <1>9, <1>10, <1>11, <1>12 DEF UdpInv, UdpSafe

LEMMA UdpSafeStep ==
    ASSUME UdpSafe, Udp!DatagramsNext
    PROVE  UdpSafe'
BY AskSafe, HearSafe, LeaveSafe, LoseSafe, DeliverSafe, ReplySafe, FirstReadSafe, ConnectSafe,
   SendSafe, ReadAgainSafe DEF Udp!DatagramsNext

LEMMA UdpTurnsStep ==
    ASSUME UdpSafe, UdpSafe', UdpTurns, Udp!DatagramsNext
    PROVE  UdpTurns'
<1> SUFFICES ASSUME NEW c \in Udp!Callers PROVE Traced(c)' /\ Waits(c)'
  BY DEF UdpTurns
<1> QED
  BY AskTurns, HearTurns, LeaveTurns, LoseTurns, DeliverTurns, ReplyTurns, FirstReadTurns,
     ConnectTurns, SendTurns, ReadAgainTurns DEF Udp!DatagramsNext

LEMMA UdpAnswersStep ==
    ASSUME UdpInv, Udp!DatagramsNext
    PROVE  Udp!AnswersOwn'
<1>1. UdpTypes /\ UdpServer /\ Udp!AnswersOwn
  BY DEF UdpInv, UdpSafe
<1>2. CASE \E e \in Udp!Callers : Udp!Hear(e)
  BY <1>2, HearAnswers
<1>3. CASE Udp!ConnectSocket
  <2>1. /\ at = "connect"
        /\ UNCHANGED <<kind, heard, copied>>
    BY <1>3 DEF Udp!ConnectSocket
  <2>2. served = 0
    BY <1>1, <2>1 DEF UdpServer
  <2> QED
    BY <1>1, <2>1, <2>2, AnswersKept
<1>4. CASE \/ \E e \in Udp!Callers : Udp!Ask(e) \/ Udp!Leave(e)
           \/ Udp!Lose \/ Udp!Reply \/ Udp!FirstRead \/ Udp!SendAnswer \/ Udp!ReadAgain
  <2>1. UNCHANGED <<kind, heard, copied, served, mixed>>
    BY <1>4 DEF Udp!Ask, Udp!Leave, Udp!Lose, Udp!Reply, Udp!FirstRead, Udp!SendAnswer,
                Udp!ReadAgain
  <2> QED
    BY <1>1, <2>1, AnswersKept
<1>5. CASE Udp!Deliver
  <2>1. PICK copies \in 0 .. 1 : copied' = copied + copies
    BY <1>5 DEF Udp!Deliver
  <2>2. copied' = 0 => copied = 0
    <3>1. copied \in 0 .. MaxCopied
      BY <1>1 DEF UdpTypes
    <3> QED
      BY <2>1, <3>1
  <2>3. UNCHANGED <<kind, heard, served, mixed>>
    BY <1>5 DEF Udp!Deliver
  <2> QED
    BY <1>1, <2>2, <2>3, AnswersKept
<1> QED
  BY <1>2, <1>3, <1>4, <1>5 DEF Udp!DatagramsNext

LEMMA UdpStep ==
    ASSUME UdpInv, Udp!DatagramsNext \/ UNCHANGED programsVars
    PROVE  UdpInv'
<1>1. CASE Udp!DatagramsNext
  BY <1>1, UdpSafeStep, UdpTurnsStep, UdpAnswersStep DEF UdpInv
<1>2. CASE UNCHANGED programsVars
  <2>1. UNCHANGED <<kind, at, message, client_addr, served, inbox, flight, failing, user, asked,
                    mail, heard, lost, copied, unsent, mixed>>
    BY <1>2 DEF programsVars
  <2>2. UdpTypes /\ UdpCounts /\ UdpContents /\ UdpServer /\ Udp!AnswersOwn
    BY DEF UdpInv, UdpSafe
  <2>3. UdpTypes' /\ UdpCounts' /\ UdpServer'
    BY <2>1, <2>2 DEF UdpTypes, UdpCounts, UdpServer
  <2>4. UdpContents'
    <3>1. /\ \A c \in Udp!Callers : \A t : Meant(c, t)' <=> Meant(c, t)
          /\ \A e : (Asks(e)' <=> Asks(e)) /\ (Tells(e)' <=> Tells(e))
      BY <2>1 DEF Meant, Asks, Tells, Line
    <3> QED
      BY <2>1, <2>2, <3>1 DEF UdpContents
  <2>5. UdpTurns'
    <3> SUFFICES ASSUME NEW c \in Udp!Callers PROVE Traced(c)' /\ Waits(c)'
      BY DEF UdpTurns
    <3>1. Traced(c) /\ Waits(c) /\ inbox \in Seq(Letters) /\ inbox' \in Seq(Letters)
      BY <2>1, <2>2 DEF UdpInv, UdpTurns, UdpTypes
    <3>2. /\ InTurn(c)' <=> InTurn(c)
          /\ Held(c)' <=> Held(c)
          /\ Flying(c)' = Flying(c) /\ \A d \in Flying(c) : flight'[d] = flight[d]
      BY <2>1 DEF InTurn, Held, Flying
    <3>3. \E s \in {0, 1} :
            /\ \A j \in Standing(c)' : j + s \in Standing(c) /\ inbox'[j] = inbox[j + s]
            /\ \A j \in Standing(c) : j - s \in Standing(c)'
      BY <2>1, <3>1, StandingBeside
    <3> QED
      BY <2>1, <3>1, <3>2, <3>3, AsideKeeps DEF Aside
  <2>6. Udp!AnswersOwn'
    BY <2>1, <2>2, AnswersKept
  <2> QED
    BY <2>3, <2>4, <2>5, <2>6 DEF UdpInv, UdpSafe
<1> QED
  BY <1>1, <1>2

LEMMA UdpWaits == UdpInv => Udp!WaitsOnlyForLost
<1> SUFFICES ASSUME UdpInv, Udp!BagToSet(flight) = {}, inbox = <<>>, at \in {"first", "recv"},
                    NEW c \in Udp!Callers, user[c] = "await", mail[c] = <<>>, lost = 0
             PROVE  kind = "connected" /\ (c # served \/ c \in unsent \/ mixed)
  <2>1. Udp!BagToSet(Udp!EmptyBag) = {}
    BY DEF Udp!BagToSet, Udp!EmptyBag, Udp!SetToBag
  <2> QED
    BY <2>1 DEF Udp!WaitsOnlyForLost
<1>1. UdpTypes /\ UdpServer /\ Waits(c)
  BY DEF UdpInv, UdpSafe, UdpTurns
<1>2. DOMAIN flight = {} /\ DOMAIN inbox = {}
  <2>1. DOMAIN flight = {}
    BY OnTheirWay
  <2>2. inbox \in Seq(Letters) /\ Len(inbox) = 0
    BY <1>1 DEF UdpTypes
  <2>3. DOMAIN inbox = 1 .. Len(inbox)
    BY <2>2, LenProperties
  <2> QED
    BY <2>1, <2>2, <2>3
<1>3. ~Somewhere(c)
  BY <1>2 DEF Somewhere, Flying, Standing, Held
<1>4. c \in unsent \/ ~InTurn(c)
  BY <1>1, <1>3 DEF Waits
<1> QED
  BY <1>1, <1>4, CallersAre DEF InTurn, UdpServer, UdpTypes

-----------------------------------------------------------------------------
(* Types of the programs of this module *)

\* Whatever became of the lines, the client wrote each for a command of its own.
HalfTypes ==
    /\ LinesInv /\ script \in Scripts /\ Len(script) \in Nat
    /\ {arrived, buffered, taken} \subseteq Nat
    /\ taken <= buffered /\ buffered <= arrived /\ arrived <= Len(script)
    /\ written <= taken /\ printed + coming + held + unread <= written

LEMMA HalfLength == \A s : Half!Len(s) = Len(s)
BY DEF Half!Len, Len

LEMMA HalfTypesInit == Init /\ program = "halfclose" => HalfTypes
<1> SUFFICES ASSUME Init, program = "halfclose" PROVE HalfTypes
  OBVIOUS
<1>1. /\ script \in Scripts /\ arrived = 0 /\ buffered = 0 /\ taken = 0
      /\ written = 0 /\ unread = 0 /\ held = 0 /\ coming = 0 /\ printed = 0
  BY DEF Init, Half!Start
<1>2. Len(script) \in Nat
  BY <1>1, ProgramsAssumption
<1> QED
  BY <1>1, <1>2, HalfInit DEF HalfTypes

LEMMA HalfTypesCommand ==
    ASSUME HalfTypes, Half!Command
    PROVE  HalfTypes'
<1>1. /\ taken < arrived
      /\ buffered' \in IF taken = buffered THEN buffered + 1 .. arrived ELSE {buffered}
      /\ taken' = taken + 1 /\ UNCHANGED <<script, arrived, held, coming, printed>>
  BY DEF Half!Command
<1>2. \/ written' = written + 1 /\ (unread' = unread + 1 \/ unread' = unread)
      \/ written' = written /\ unread' = unread
  BY DEF Half!Command
<1>3. LinesInv /\ LinesInv'
  BY HalfCommand DEF HalfTypes
<1>4. /\ {arrived, buffered, taken, written, unread, held, coming, printed} \subseteq Nat
      /\ taken <= buffered /\ buffered <= arrived /\ written <= taken
      /\ printed + coming + held + unread <= written
  BY <1>3 DEF HalfTypes, LinesInv
<1>5. taken' \in Nat /\ buffered' \in Nat /\ taken' <= buffered' /\ buffered' <= arrived
  BY <1>1, <1>4
<1>6. written' <= taken' /\ printed + coming + held + unread' <= written'
  BY <1>1, <1>2, <1>4
<1> QED
  BY <1>1, <1>3, <1>4, <1>5, <1>6 DEF HalfTypes

LEMMA HalfTypesStep ==
    ASSUME HalfTypes, Half!Next \/ UNCHANGED programsVars
    PROVE  HalfTypes'
<1>1. LinesInv /\ LinesInv'
  BY HalfStep DEF HalfTypes
<1>2. {written, unread, held, coming, printed} \subseteq Nat
  BY <1>1 DEF LinesInv
<1>3. printed + coming + held + unread <= written
  BY DEF HalfTypes
<1>4. CASE Half!ReadAnswers
  <2>1. /\ printed' = printed + coming /\ coming' = 0
        /\ UNCHANGED <<script, arrived, buffered, taken, written, unread, held>>
    BY <1>4 DEF Half!ReadAnswers
  <2>2. printed' + coming' + held + unread <= written
    BY <1>2, <1>3, <2>1
  <2> QED
    BY <1>1, <2>1, <2>2 DEF HalfTypes
<1>5. CASE Half!ServerReads
  <2>1. /\ UNCHANGED <<script, arrived, buffered, taken, written, coming, printed>>
        /\ \/ held' \in 1 .. unread /\ unread' = unread - held'
           \/ UNCHANGED <<unread, held>>
    BY <1>5 DEF Half!ServerReads
  <2>2. printed + coming + held' + unread' <= written
    BY <1>2, <1>3, <2>1
  <2> QED
    BY <1>1, <2>1, <2>2 DEF HalfTypes
<1>6. CASE Half!Answer
  <2>1. /\ held' = 0 /\ (coming' = coming \/ coming' = coming + held)
        /\ UNCHANGED <<script, arrived, buffered, taken, written, unread, printed>>
    BY <1>6 DEF Half!Answer
  <2>2. printed + coming' + held' + unread <= written
    BY <1>2, <1>3, <2>1
  <2> QED
    BY <1>1, <2>1, <2>2 DEF HalfTypes
<1>7. CASE Half!Arrive
  <2>1. /\ arrived < Len(script) /\ arrived' = arrived + 1
        /\ UNCHANGED <<script, buffered, taken, written, unread, held, coming, printed>>
    BY <1>7, HalfLength DEF Half!Arrive
  <2>2. arrived' \in Nat /\ arrived' <= Len(script) /\ buffered <= arrived'
    BY <2>1 DEF HalfTypes
  <2> QED
    BY <1>1, <2>1, <2>2 DEF HalfTypes
<1>8. CASE Half!sig_int \/ UNCHANGED programsVars
  BY <1>1, <1>8 DEF HalfTypes, Half!sig_int, programsVars
<1> QED
  BY <1>4, <1>5, <1>6, <1>7, <1>8, HalfTypesCommand DEF Half!Next

LEMMA HalfTyped == HalfTypes => Half!HalfCloseTypeOK
<1> SUFFICES ASSUME HalfTypes PROVE Half!HalfCloseTypeOK
  OBVIOUS
<1>1. /\ {arrived, buffered, taken, written, unread, held, coming, printed} \subseteq Nat
      /\ taken <= buffered /\ buffered <= arrived /\ arrived <= Len(script)
      /\ written <= taken /\ printed + coming + held + unread <= written
      /\ Len(script) \in Nat
  BY DEF HalfTypes, LinesInv
<1>2. /\ arrived \in 0 .. Len(script) /\ buffered \in 0 .. arrived /\ taken \in 0 .. buffered
      /\ {written, unread, held, coming, printed} \subseteq 0 .. taken
  BY <1>1
<1> QED
  BY <1>2, HalfLength DEF HalfTypes, LinesInv, Half!HalfCloseTypeOK

\* readn never has more than was read at all.
MessageTypes ==
    /\ StreamInv /\ lengths \in Inputs /\ ended \in BOOLEAN /\ have <= consumed

LEMMA MessageTypesInit == Init /\ program = "messages" => MessageTypes
<1> SUFFICES ASSUME Init PROVE MessageTypes
  OBVIOUS
<1>1. lengths \in Inputs /\ ended = FALSE /\ have = 0 /\ consumed = 0
  BY DEF Init, Msg!Start
<1>2. ended \in BOOLEAN
  BY <1>1
<1>3. have <= consumed
  BY <1>1
<1> QED
  BY <1>1, <1>2, <1>3, StreamInit DEF MessageTypes

LEMMA MessageTypesStep ==
    ASSUME MessageTypes, Msg!StreamNext \/ UNCHANGED programsVars
    PROVE  MessageTypes'
<1>1. StreamInv' /\ have \in Nat /\ consumed \in Nat /\ have <= consumed
  BY StreamStep DEF MessageTypes, StreamInv, StreamTypes
<1>2. lengths' = lengths /\ ended' \in {TRUE, ended}
  BY DEF Msg!StreamNext, Msg!StreamServer, Msg!readn, Msg!read_message, Msg!ReadEnd,
         Msg!SendMessage, Msg!EndClient, Msg!Deliver, programsVars
<1>3. \/ have' = have /\ consumed' = consumed
      \/ have' = 0 /\ consumed' = consumed
      \/ \E k \in 1 .. Msg!Want - have : have' = have + k /\ consumed' = consumed + k
  BY DEF Msg!StreamNext, Msg!StreamServer, Msg!readn, Msg!read_message, Msg!ReadEnd,
         Msg!SendMessage, Msg!EndClient, Msg!Deliver, programsVars
<1>4. have' <= consumed'
  <2> DEFINE left == Msg!Want - have
  <2>1. \/ have' = have /\ consumed' = consumed
        \/ have' = 0 /\ consumed' = consumed
        \/ \E k \in 1 .. left : have' = have + k /\ consumed' = consumed + k
    BY <1>3
  <2> HIDE DEF left
  <2> QED
    BY <1>1, <2>1
<1> QED
  BY <1>1, <1>2, <1>4 DEF MessageTypes

LEMMA MessageTyped == MessageTypes => Msg!MessageStreamTypeOK
<1> SUFFICES ASSUME MessageTypes PROVE Msg!MessageStreamTypeOK
  OBVIOUS
<1>1. StreamTypes /\ Msg!Total \in Nat
  BY StreamNumbers DEF MessageTypes, StreamInv
<1> HIDE DEF Msg!Total
<1>2. have \in 0 .. Msg!Total /\ 0 <= consumed
  BY <1>1 DEF StreamTypes, MessageTypes
<1>3. \A s : Msg!Len(s) = Len(s)
  BY DEF Msg!Len, Len
<1> QED
  BY <1>1, <1>2, <1>3 DEF MessageTypes, StreamTypes, Msg!MessageStreamTypeOK

LEMMA UdpTyped ==
    ASSUME UdpTypes, UdpCounts
    PROVE  Udp!DatagramsTypeOK
<1>1. \A d \in Udp!BagToSet(flight) \cup {inbox[j] : j \in DOMAIN inbox} :
        d.from \in Udp!Callers \cup {0} /\ d.text \in Seq(Udp!Chars)
  <2>1. \A d \in Letters : d.from \in Udp!Callers \cup {0} /\ d.text \in Seq(Udp!Chars)
    BY DEF Letters
  <2>2. \A j \in DOMAIN inbox : inbox[j] \in Letters
    BY ElementOfSeq, LenProperties DEF UdpTypes
  <2> QED
    BY <2>1, <2>2, OnTheirWay DEF UdpTypes
<1>2. \A c \in Udp!Callers :
        /\ mail[c] \in Seq(Seq(Udp!Chars)) /\ heard[c] \in Seq(Seq(Udp!Chars))
        /\ Len(heard[c]) <= asked[c] /\ asked[c] \in 0 .. Len(Typed[c])
  BY CallersAre DEF UdpTypes, UdpCounts
<1>3. \A s : Udp!Len(s) = Len(s)
  BY DEF Udp!Len, Len
<1> QED
  BY <1>1, <1>2, <1>3 DEF UdpTypes, Udp!DatagramsTypeOK

-----------------------------------------------------------------------------
(* Theorems *)

\* Every variable of the client and the server keeps its type.
THEOREM HeartbeatTypeCorrect == HeartbeatSpec => []HeartbeatTypeOK
<1>1. HeartbeatInv => HeartbeatTypeOK
  BY DEF HeartbeatInv
<1> QED
  BY <1>1, HeartbeatInvHolds, PTL

\* The client calls a connection dead only if the server's host went down or the server
\* sleeps as long as all probes last, however late its answers come.
THEOREM NoFalseAlarmCorrect == HeartbeatSpec => []NoFalseAlarm
<1>1. HeartbeatInv => NoFalseAlarm
  BY DEF HeartbeatInv
<1> QED
  BY <1>1, HeartbeatInvHolds, PTL

\* While its stdin is quiet the client bears no silence beyond the keep-alive time, all
\* probes and a second.
THEOREM SilenceBoundedCorrect == HeartbeatSpec => []SilenceBounded
<1>1. HeartbeatInv => SilenceBounded
  <2> SUFFICES ASSUME HeartbeatInv, client = "select", ~stdin
               PROVE  silence < SECOND * (KEEP_ALIVE_TIME + 1
                                + KEEP_ALIVE_INTERVAL * KEEP_ALIVE_PROBETIMES)
    BY DEF SilenceBounded
  <2> USE HeartbeatAssumption, Timers
  <2>1. heartbeats * Interval <= KEEP_ALIVE_PROBETIMES * Interval
    BY ProductMonotonic DEF HeartbeatInv, HeartbeatTypeOK, SilenceInv
  <2>2. heartbeats * Interval \in Nat /\ KEEP_ALIVE_PROBETIMES * Interval \in Nat
    BY ProductInNat DEF HeartbeatInv, HeartbeatTypeOK
  <2>3. silence < KeepAlive + SECOND + KEEP_ALIVE_PROBETIMES * Interval
    BY <2>1, <2>2 DEF HeartbeatInv, HeartbeatTypeOK, SilenceInv
  <2>4. KeepAlive + SECOND + KEEP_ALIVE_PROBETIMES * Interval
            = SECOND * (KEEP_ALIVE_TIME + 1 + KEEP_ALIVE_INTERVAL * KEEP_ALIVE_PROBETIMES)
    BY DEF KeepAlive, Interval
  <2> QED
    BY <2>3, <2>4
<1> QED
  BY <1>1, HeartbeatInvHolds, PTL

\* The heartbeat in Programs is the one of Heartbeat.
THEOREM HeartbeatImplemented == ProgramsSpec => HeartbeatSpec
<1>1. Init => HeartbeatInit
  BY DEF Init
<1>2. [Next]_programsVars => [HeartbeatNext]_heartbeatVars
  <2>1. CASE program # "heartbeat" /\ Next
    <3>1. \A p : Idle(p) /\ p # "heartbeat" => UNCHANGED heartbeatVars
      BY DEF Idle
    <3>2. DOMAIN EpollNumber = {"epoll1", "epoll2", "epoll3"}
      BY DEF EpollNumber
    <3>3. \E p : p # "heartbeat" /\ Runs(p)
      BY <2>1, <3>2 DEF Next, MainStep, ChildStep, Runs
    <3> QED
      BY <3>1, <3>3 DEF Runs
  <2>2. CASE program = "heartbeat" /\ Next
    <3>1. DOMAIN EpollNumber = {"epoll1", "epoll2", "epoll3"}
      BY DEF EpollNumber
    <3> QED
      BY <2>2, <3>1 DEF Next, MainStep, ChildStep, Runs
  <2>3. CASE UNCHANGED programsVars
    BY <2>3 DEF programsVars
  <2> QED
    BY <2>1, <2>2, <2>3
<1> QED
  BY <1>1, <1>2, PTL DEF ProgramsSpec, HeartbeatSpec

LEMMA StreamsInvariant ==
    ProgramsSpec => [](/\ program = "halfclose" => LinesInv
                       /\ program = "messages" => StreamInv)
<1> DEFINE StreamsInv == /\ program = "halfclose" => LinesInv
                         /\ program = "messages" => StreamInv
<1>1. Init => StreamsInv
  BY HalfInit, StreamInit
<1>2. StreamsInv /\ [Next]_programsVars => StreamsInv'
  BY OneProgram, HalfStep, StreamStep
<1> QED
  BY <1>1, <1>2, PTL DEF ProgramsSpec

\* graceclient sees the answers to all lines it wrote before its shutdown, in
\* however few reads lines and answers come together, and graceserver then ends
\* at end of file; only close makes it die of a write or a reset.
THEOREM ShutdownGetsAnswersCorrect == ProgramsSpec => []ShutdownGetsAnswers
<1>1. LinesInv => Half!ShutdownGetsAnswers
  BY DEF LinesInv, Half!ShutdownGetsAnswers
<1> QED
  BY <1>1, StreamsInvariant, PTL DEF ShutdownGetsAnswers

\* read_message stays in step with the stream, wherever the network cuts it:
\* the bytes taken for a length, a type or data are that message's, and a part
\* of a message is never returned as the whole.
THEOREM MessagesWholeCorrect == ProgramsSpec => []MessagesWhole
<1> QED
  BY StreamInStep, StreamsInvariant, PTL DEF MessagesWhole
=============================================================================
