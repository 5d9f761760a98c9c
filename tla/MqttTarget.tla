---- MODULE MqttTarget ----
(***************************************************************************)
(* The mqtt-out target (src/targets/mqtt/target.rs, connection.rs): the    *)
(* bounded queue between direct_update and the event loop of the target,   *)
(* the connection's life (New, Running, Stopped) with the task that runs   *)
(* the MQTT library's event loop, commands, and publishing with a timeout. *)
(*                                                                         *)
(* tokio::select! drops the future of connection.process() whenever a      *)
(* command or a message is ready first.  While the connection is New that  *)
(* drops the receiver of the handover and the handle of a spawned task.    *)
(***************************************************************************)
EXTENDS Naturals

CONSTANTS PubCap,       \* queue_size, at least 1: messages waiting
          ReqCap,       \* queue_size: requests the MQTT client holds
          MaxMsgs,      \* bound: messages from upstream
          MaxCmds       \* bound: commands before Terminate

ASSUME MqttAssumption ==
    /\ PubCap \in Nat \ {0} /\ ReqCap \in Nat \ {0}
    /\ MaxMsgs \in Nat /\ MaxCmds \in Nat

VARIABLES mconn,      \* ConnectionState
          handover,   \* the task of a New connection: none, starting, sent
          pubq,       \* messages queued for publishing
          req,        \* requests in the client's channel
          broker,     \* whether the broker can be reached
          doing,      \* waiting for events, disconnecting, or ended
          cmdq,       \* the command at the head of the channel
          cmdsLeft,   \* commands still to come
          delay,      \* retry delay: of the configuration, of the connection
          count       \* messages by what became of them

mqttVars == <<mconn, handover, pubq, req, broker, doing, cmdq,
              cmdsLeft, delay, count>>

Fates == {"ok", "unsent", "error", "full", "closed"}
Offered == pubq + count["ok"] + count["error"] + count["full"] + count["closed"]
Count(k) == count' = [count EXCEPT ![k] = @ + 1]

MqttInit ==
    /\ mconn = "New" /\ handover = "none"
    /\ pubq = 0 /\ req = 0 /\ broker = TRUE
    /\ doing = "events" /\ cmdq = "none" /\ cmdsLeft = MaxCmds
    /\ delay = [config |-> 1, conn |-> 1]
    /\ count = [k \in Fates |-> 0]

-----------------------------------------------------------------------------
(* Around the target *)

\* direct_update: never waits; a message that finds the queue full is dropped
\* and counted.
DirectUpdate ==
    /\ Offered < MaxMsgs
    /\ \/ doing # "ended" /\ pubq < PubCap /\ pubq' = pubq + 1
          /\ UNCHANGED count
       \/ doing # "ended" /\ pubq = PubCap /\ Count("full") /\ UNCHANGED pubq
       \/ doing = "ended" /\ Count("closed") /\ UNCHANGED pubq
    /\ UNCHANGED <<mconn, handover, req, broker, doing, cmdq,
                   cmdsLeft, delay>>

Command(c) ==
    /\ cmdq = "none" /\ doing # "ended"
    /\ \/ c = "Terminate" /\ UNCHANGED cmdsLeft
       \/ c # "Terminate" /\ cmdsLeft > 0 /\ cmdsLeft' = cmdsLeft - 1
    /\ cmdq' = c
    /\ UNCHANGED <<mconn, handover, pubq, req, broker, doing, delay,
                   count>>

BrokerChanges ==
    /\ broker' = ~broker
    /\ UNCHANGED <<mconn, handover, pubq, req, doing, cmdq, cmdsLeft,
                   delay, count>>

\* The MQTT library: a connected event loop takes requests from the channel.
LoopSends ==
    /\ mconn = "Running" /\ broker /\ req > 0
    /\ req' = req - 1
    /\ UNCHANGED <<mconn, handover, pubq, broker, doing, cmdq,
                   cmdsLeft, delay, count>>

-----------------------------------------------------------------------------
(* process_events *)

\* Connection::process of a New connection spawns the task of the event loop,
\* which hands over the client.
ProcessNew ==
    /\ doing = "events" /\ mconn = "New"
    /\ \/ handover = "none" /\ handover' = "starting"
          /\ UNCHANGED <<mconn, req>>
       \/ handover = "sent" /\ handover' = "none"
          /\ mconn' = "Running" /\ req' = 0
    /\ UNCHANGED <<pubq, broker, doing, cmdq, cmdsLeft, delay, count>>
LoopStarts ==
    /\ handover = "starting" /\ handover' = "sent"
    /\ UNCHANGED <<mconn, pubq, req, broker, doing, cmdq, cmdsLeft,
                   delay, count>>

\* Another branch of the select is ready.  A task that has not handed over the
\* client finds the receiver gone and returns; one that just did polls on
\* without an owner, and nothing here hears of it again.
Elsewhere ==
    /\ doing = "events"
    /\ \/ mconn = "Running" /\ UNCHANGED handover
       \/ /\ mconn = "New" /\ handover = "starting"
          /\ handover' = "none"

\* A broken connection is retried after the delay; the timer panics for a delay
\* of zero and ends the task.  Connection::process finds that out, disconnects,
\* and do_run starts over; a request that waits for the task fails.
LoopPanics ==
    /\ mconn = "Running" /\ ~broker /\ delay.conn = 0
    /\ req' = 0
    /\ \/ /\ doing = "events" /\ mconn' = "New"
          /\ delay' = [delay EXCEPT !.conn = delay.config]
       \/ doing # "events" /\ UNCHANGED <<mconn, delay>>
    /\ UNCHANGED <<handover, pubq, broker, doing, cmdq, cmdsLeft, count>>

\* Connection::disconnect of a running connection first sends a request.
Disconnect(then) ==
    \/ /\ mconn = "Running" /\ doing' = then /\ UNCHANGED mconn
    \/ /\ mconn = "New"
       /\ mconn' = IF then = "terminating" THEN "Stopped" ELSE "New"
       /\ doing' = IF then = "terminating" THEN "ended" ELSE "events"

\* reconfigure: what the client depends on changes, or only the rest.  The
\* retry delay of the connection is set before the new configuration is stored.
MqttReconfigure ==
    /\ cmdq = "Reconfigure" /\ Elsewhere
    /\ \E reconnect \in BOOLEAN, d \in {0, 1} :
          /\ delay' = [config |-> d,
                       conn |-> IF reconnect /\ mconn = "New" THEN d
                                ELSE delay.config]
          /\ \/ reconnect /\ Disconnect("reconnecting")
             \/ ~reconnect /\ UNCHANGED <<mconn, doing>>
    /\ cmdq' = "none"
    /\ UNCHANGED <<pubq, req, broker, cmdsLeft, count>>
\* A new source that has ended refuses the link, and the unwrap ends the task.
MqttSourceGone ==
    /\ cmdq = "Reconfigure" /\ Elsewhere
    /\ doing' = "ended" /\ cmdq' = "none"
    /\ UNCHANGED <<mconn, pubq, req, broker, cmdsLeft, delay, count>>
MqttReport ==
    /\ cmdq = "ReportLinks" /\ Elsewhere
    /\ cmdq' = "none"
    /\ UNCHANGED <<mconn, pubq, req, broker, doing, cmdsLeft, delay, count>>
MqttTerminate ==
    /\ cmdq = "Terminate" /\ Elsewhere
    /\ Disconnect("terminating")
    /\ UNCHANGED <<pubq, req, broker, cmdq, cmdsLeft, delay, count>>

\* The request is sent when the client's channel has room; then the task of the
\* event loop is aborted.
DisconnectNoWait ==
    /\ doing \in {"reconnecting", "terminating"}
    /\ mconn' = IF doing = "terminating" THEN "Stopped" ELSE "New"
    /\ doing' = IF doing = "terminating" THEN "ended" ELSE "events"
    /\ delay' = [delay EXCEPT !.conn = delay.config]
    /\ req' = 0
    /\ UNCHANGED <<handover, pubq, broker, cmdq, cmdsLeft, count>>
DisconnectDrained == pubq = 0 /\ req < ReqCap /\ DisconnectNoWait
DisconnectDone == req < ReqCap /\ DisconnectNoWait

\* publish_msg: without a client there is nothing to do and all is well; else
\* the message is handed to the client in time, or not.
Publish1 ==
    /\ cmdq = "none" /\ pubq > 0 /\ Elsewhere
    /\ pubq' = pubq - 1
    /\ \/ /\ mconn = "New"
          /\ count' = [count EXCEPT !["ok"] = @ + 1, !["unsent"] = @ + 1]
          /\ UNCHANGED req
       \/ mconn = "Running" /\ req < ReqCap /\ req' = req + 1 /\ Count("ok")
       \/ mconn = "Running" /\ req = ReqCap /\ Count("error") /\ UNCHANGED req
    /\ UNCHANGED <<mconn, broker, doing, cmdq, cmdsLeft, delay>>

TargetStep ==
    \/ ProcessNew \/ MqttReconfigure \/ MqttSourceGone \/ MqttReport
    \/ MqttTerminate
    \/ DisconnectDone \/ Publish1

MqttNext ==
    \/ DirectUpdate \/ BrokerChanges \/ LoopSends \/ LoopStarts \/ LoopPanics
    \/ TargetStep
    \/ \E c \in {"Reconfigure", "ReportLinks", "Terminate"} : Command(c)

\* The target's task, the task of the event loop and a reachable broker go on.
MqttProgress == TargetStep \/ LoopStarts \/ LoopSends
MqttFairness == WF_mqttVars(MqttProgress)

MqttSpec == MqttInit /\ [][MqttNext]_mqttVars
MqttFairSpec == MqttSpec /\ MqttFairness

-----------------------------------------------------------------------------
(* Properties *)

\* Terminate ends the target if the broker can be reached from some time on:
\* neither a message being published nor the request of disconnect waits for
\* ever, in whatever state of the connection the command arrives.
MqttTerminates ==
    <>[](cmdq = "Terminate" /\ broker) => <>(doing = "ended")
====
