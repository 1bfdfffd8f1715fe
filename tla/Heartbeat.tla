------------------------------ MODULE Heartbeat ------------------------------
(***************************************************************************)
(* src/chap-12: a client that probes a silent server. pingclient.cpp waits *)
(* in select with a timeout, which Linux overwrites with the time left;    *)
(* pingserver.cpp sleeps before it answers a probe. Time runs in ticks, a  *)
(* fraction of a second; steps of the processes and the network take none. *)
(* A probe fits a segment and arrives whole.                               *)
(***************************************************************************)
EXTENDS Integers

CONSTANTS
    SECOND,         \* ticks in a second
    KEEP_ALIVE_TIME, KEEP_ALIVE_INTERVAL, KEEP_ALIVE_PROBETIMES,
    Sleeps,         \* arguments the server may be started with, in seconds
    LongSilence     \* bound: a silence in ticks beyond which it is no longer counted

ASSUME HeartbeatAssumption ==
    /\ SECOND \in Nat \ {0}
    /\ KEEP_ALIVE_TIME \in Nat \ {0} /\ KEEP_ALIVE_INTERVAL \in Nat \ {0}
    /\ KEEP_ALIVE_PROBETIMES \in Nat /\ Sleeps \subseteq Nat
    /\ LongSilence \in Nat

VARIABLES
    client,         \* "select", "dead" (it reported a dead connection), "exit"
    server,         \* "read", "sleep", "exit", "down" (its host is gone, silently)
    sleepingtime,   \* the server's argument
    asleep,         \* ticks the server will still sleep
    tv, heartbeats,
    stdin,          \* something, or its end, can be read from the client's stdin
    probes, pongs,  \* messages not read yet by the server, by the client
    silence         \* history: ticks since the client last heard of the server

heartbeatVars == <<client, server, sleepingtime, asleep, tv, heartbeats, stdin,
                   probes, pongs, silence>>

HeartbeatTypeOK ==
    /\ client \in {"select", "dead", "exit"}
    /\ server \in {"read", "sleep", "exit", "down"}
    /\ sleepingtime \in Sleeps
    /\ {asleep, tv, heartbeats, probes, pongs, silence} \subseteq Nat
    /\ stdin \in BOOLEAN

HeartbeatInit ==
    /\ client = "select" /\ server = "read" /\ sleepingtime \in Sleeps /\ asleep = 0
    /\ tv = KEEP_ALIVE_TIME * SECOND /\ heartbeats = 0
    /\ stdin \in BOOLEAN
    /\ probes = 0 /\ pongs = 0 /\ silence = 0

SocketReady == pongs > 0 \/ server = "exit"

\* Mutant: the timer is set to KEEP_ALIVE_TIME after a probe too.
ProbeSlow ==
    /\ client = "select" /\ tv = 0 /\ ~SocketReady /\ ~stdin
    /\ heartbeats' = heartbeats + 1
    /\ IF heartbeats' > KEEP_ALIVE_PROBETIMES
       THEN client' = "dead" /\ UNCHANGED <<probes, tv>>
       ELSE /\ probes' = probes + 1
            /\ tv' = KEEP_ALIVE_TIME * SECOND
            /\ UNCHANGED client
    /\ UNCHANGED <<server, sleepingtime, asleep, stdin, pongs, silence>>

\* select returns 0: a probe, or the end after PROBETIMES of them. Only tv_sec is set
\* again, and tv_usec is 0 now.
Probe ==
    /\ client = "select" /\ tv = 0 /\ ~SocketReady /\ ~stdin
    /\ heartbeats' = heartbeats + 1
    /\ IF heartbeats' > KEEP_ALIVE_PROBETIMES
       THEN client' = "dead" /\ UNCHANGED <<probes, tv>>
       ELSE /\ probes' = probes + 1
            /\ tv' = KEEP_ALIVE_INTERVAL * SECOND
            /\ UNCHANGED client
    /\ UNCHANGED <<server, sleepingtime, asleep, stdin, pongs, silence>>

\* Mutant: heartbeats is not set back.
HearOnly ==
    /\ client = "select" /\ SocketReady
    /\ IF pongs > 0
       THEN /\ tv' = KEEP_ALIVE_TIME * SECOND + (tv % SECOND)
            /\ pongs' = 0 /\ silence' = 0
            /\ UNCHANGED client
       ELSE client' = "exit" /\ UNCHANGED <<tv, pongs, silence>>
    /\ UNCHANGED <<server, sleepingtime, asleep, heartbeats, stdin, probes>>

\* All that has arrived is one heartbeat. tv_usec keeps what was left of it.
Hear ==
    /\ client = "select" /\ SocketReady
    /\ IF pongs > 0
       THEN /\ heartbeats' = 0
            /\ tv' = KEEP_ALIVE_TIME * SECOND + (tv % SECOND)
            /\ pongs' = 0 /\ silence' = 0
            /\ UNCHANGED client
       ELSE client' = "exit" /\ UNCHANGED <<heartbeats, tv, pongs, silence>>
    /\ UNCHANGED <<server, sleepingtime, asleep, stdin, probes>>

ServerReads ==
    /\ server = "read"
    /\ IF probes > 0
       THEN /\ probes' = probes - 1
            /\ server' = "sleep" /\ asleep' = sleepingtime * SECOND
       ELSE client # "select" /\ server' = "exit" /\ UNCHANGED <<probes, asleep>>
    /\ UNCHANGED <<client, sleepingtime, tv, heartbeats, stdin, pongs, silence>>

Answer ==
    /\ server = "sleep" /\ asleep = 0
    /\ pongs' = pongs + 1
    /\ server' = "read"
    /\ UNCHANGED <<client, sleepingtime, asleep, tv, heartbeats, stdin, probes, silence>>

\* The server is interrupted (sig_int), or its host goes down; a line is typed to the client.
Interrupt ==
    /\ client = "select" /\ server \in {"read", "sleep"}
    /\ server' \in {"exit", "down"}
    /\ UNCHANGED <<client, sleepingtime, asleep, tv, heartbeats, stdin, probes, pongs, silence>>

Type ==
    /\ client = "select" /\ ~stdin
    /\ stdin' = TRUE
    /\ UNCHANGED <<client, server, sleepingtime, asleep, tv, heartbeats, probes, pongs, silence>>

\* Time passes when nobody has anything to do. A line on stdin, which is never read,
\* keeps the client busy for ever without a step of its own.
Less(t) == IF t > 0 THEN t - 1 ELSE 0
Tick ==
    /\ client = "select" /\ ~SocketReady /\ (tv > 0 \/ stdin)
    /\ server = "read" => probes = 0
    /\ server = "sleep" => asleep > 0
    /\ tv' = Less(tv) /\ asleep' = Less(asleep)
    /\ silence' = IF silence < LongSilence THEN silence + 1 ELSE silence
    /\ UNCHANGED <<client, server, sleepingtime, heartbeats, stdin, probes, pongs>>

HeartbeatProcesses == Probe \/ Hear \/ ServerReads \/ Answer
HeartbeatNext == HeartbeatProcesses \/ Interrupt \/ Type \/ Tick

HeartbeatSpec == HeartbeatInit /\ [][HeartbeatNext]_heartbeatVars

----------------------------------------------------------------------------

(* The client declares a connection dead only if the server's host went    *)
(* down or the server sleeps longer than all probes last: a late answer,   *)
(* the answers to probes of an earlier silence and what is left in the     *)
(* timer never add up to a false alarm.                                    *)
NoFalseAlarm ==
    client = "dead" =>
        server = "down" \/ sleepingtime >= KEEP_ALIVE_INTERVAL * KEEP_ALIVE_PROBETIMES

(* While its stdin is quiet the client bears no silence longer than the    *)
(* keep-alive time and all probes, and less than a second that the timer   *)
(* may keep from before. A line on stdin switches the probes off for good. *)
SilenceBounded ==
    client = "select" /\ ~stdin =>
        silence < SECOND * (KEEP_ALIVE_TIME + 1
                                + KEEP_ALIVE_INTERVAL * KEEP_ALIVE_PROBETIMES)
=============================================================================
