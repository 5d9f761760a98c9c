---- MODULE Gate ----
(***************************************************************************)
(* One unit's Gate with its clones, the Links of the components behind it  *)
(* and the GateAgent of the manager (src/comms.rs, src/common/frim.rs).    *)
(*                                                                         *)
(* A gate owns a command channel.  Links subscribe through it, clones      *)
(* attach and detach through it, the manager reconfigures or terminates    *)
(* the unit through it.  A reconfiguration replaces the channel by that of *)
(* a freshly made gate, its successor in a chain of generations; the old   *)
(* receiver and all it holds is dropped.  The slots (updates) are shared   *)
(* between a gate and its clones; a slot is known by the link and the      *)
(* generation it was subscribed in.                                        *)
(*                                                                         *)
(* No component suspends a connected link (null.rs suspends links that are *)
(* not connected, which does nothing) or sends Trigger, so the suspended   *)
(* map stays empty and neither command occurs.                             *)
(***************************************************************************)
EXTENDS Naturals, Sequences, FiniteSets

CONSTANTS Links,        \* links of downstream components
          Clones,       \* clones of the gate, one per worker
          Deaf,         \* clones that push updates but never call process()
          QueueLen,     \* COMMAND_QUEUE_LEN
          MaxReload,    \* bound: reconfigurations
          MaxReports    \* bound: ReportLinks commands

ASSUME GateAssumption ==
    /\ Deaf \subseteq Clones
    /\ QueueLen \in Nat \ {0}
    /\ MaxReload \in Nat
    /\ MaxReports \in Nat

VARIABLES root,         \* the unit: "run" or "gone"
          gen,          \* whose command receiver the gate reads
          agentGen,     \* the newest gate made by the manager
          agent,        \* the manager's GateAgent: "held" or "released"
          closed,       \* generations whose receiver is gone
          chan,         \* commands queued, by generation
          tasks,        \* commands spawned tasks still have to send
          updates,      \* slots of the gate and its clones
          link,         \* a link: generation and phase
          cst,          \* a clone: not made, running, ended, terminated
          cq,           \* commands queued for a clone
          cloneSenders, \* clones the gate passes commands to
          reports       \* ReportLinks commands sent so far

rootVars == <<root, gen>>
agentVars == <<agentGen, agent, reports>>
cloneVars == <<cst, cq, cloneSenders>>
gateVars == <<rootVars, agentVars, closed, chan, tasks, updates, link,
              cloneVars>>

Gens == 0 .. MaxReload
Slots == Links \X Gens

\* Commands of the root gate and, second, those passed on to clones.
Commands ==
    ({"Subscribe"} \X Links) \cup ({"Unsubscribe"} \X Slots)
        \cup ({"AttachClone", "DetachClone"} \X Clones)
        \cup ({"Reconfigure", "ReportLinks", "Terminate"} \X {0})
Follow ==
    ({"FollowSubscribe", "FollowUnsubscribe"} \X Slots)
        \cup ({"FollowReconfigure", "ReportLinks", "Terminate"} \X {0})

GateInit ==
    /\ root = "run" /\ gen = 0 /\ agentGen = 0 /\ closed = {}
    /\ agent = "held"
    /\ chan = [g \in Gens |-> <<>>]
    /\ tasks = {}
    /\ updates = {}
    /\ link = [l \in Links |-> [gen |-> 0, phase |-> "new"]]
    /\ cst = [c \in Clones |-> "none"]
    /\ cq = [c \in Clones |-> <<>>]
    /\ cloneSenders = {}
    /\ reports = 0

Room(g) == g \notin closed /\ Len(chan[g]) < QueueLen
Queue(g, cmd) == chan' = [chan EXCEPT ![g] = Append(@, cmd)]
Next1(op) == root = "run" /\ chan[gen] # <<>> /\ Head(chan[gen])[1] = op
Arg == Head(chan[gen])[2]
Taken == chan' = [chan EXCEPT ![gen] = Tail(@)]

\* FrimMap::insert and remove copy the map and swap it in atomically.
Insert(s) == updates' = updates \cup {s}
RemoveByLink(s) == updates' = {t \in updates : t[1] # s[1]}
Remove(s) == updates' = updates \ {s}

\* notify_clones: never waits; a full queue loses the command, a closed one
\* is forgotten.
Notify(cmd) ==
    /\ cq' = [c \in Clones |->
                IF /\ c \in cloneSenders /\ cst[c] = "run"
                   /\ Len(cq[c]) < QueueLen
                THEN Append(cq[c], cmd) ELSE cq[c]]
    /\ cloneSenders' = {c \in cloneSenders : cst[c] = "run"}

\* Dropping a receiver drops what it holds: the responses of waiting links,
\* the senders of clones that are attaching, and the gate of a pending
\* Reconfigure with its own receiver.
DroppedWith(g) ==
    {h \in Gens :
        /\ g <= h
        /\ \A k \in Gens : g <= k /\ k < h =>
              \E i \in DOMAIN chan[k] : chan[k][i][1] = "Reconfigure"}
CloseKeepsWaiting(gs) ==
    /\ closed' = closed \cup gs
    /\ chan' = [g \in Gens |-> IF g \in gs THEN <<>> ELSE chan[g]]
    /\ UNCHANGED link
Close(gs) ==
    /\ closed' = closed \cup gs
    /\ chan' = [g \in Gens |-> IF g \in gs THEN <<>> ELSE chan[g]]
    /\ link' = [l \in Links |->
                  IF link[l].phase = "asked" /\ link[l].gen \in gs
                  THEN [link[l] EXCEPT !.phase = "gone"] ELSE link[l]]

-----------------------------------------------------------------------------
(* Links *)

\* Link::connect: ask for a slot and wait for the answer.
Connect(l) ==
    /\ link[l].phase = "new"
    /\ \/ /\ Room(link[l].gen)
          /\ Queue(link[l].gen, <<"Subscribe", l>>)
          /\ link' = [link EXCEPT ![l].phase = "asked"]
       \/ /\ link[l].gen \in closed
          /\ link' = [link EXCEPT ![l].phase = "gone"]
          /\ UNCHANGED chan
    /\ UNCHANGED <<rootVars, agentVars, closed, tasks, updates, cloneVars>>

\* The owner has got its new configuration and replaces the link; dropping a
\* connected one spawns a task that unsubscribes it.
Relink(l) ==
    /\ link[l].gen < agentGen
    /\ link[l].phase # "asked"
    /\ link' = [link EXCEPT ![l] = [gen |-> agentGen, phase |-> "new"]]
    /\ tasks' = IF link[l].phase = "up"
                THEN tasks \cup {<<link[l].gen,
                                   <<"Unsubscribe", <<l, link[l].gen>>>> >>}
                ELSE tasks
    /\ UNCHANGED <<rootVars, agentVars, closed, chan, updates, cloneVars>>

-----------------------------------------------------------------------------
(* The manager *)

\* GateAgent::reconfigure, by a spawned task, with a new gate.
Reload ==
    /\ agent = "held" /\ agentGen < MaxReload
    /\ agentGen' = agentGen + 1
    /\ tasks' = tasks \cup {<<agentGen, <<"Reconfigure", 0>> >>}
    /\ UNCHANGED <<rootVars, agent, closed, chan, updates, link, cloneVars,
                   reports>>

\* GateAgent::terminate, once, and report_links, by spawned tasks.
AskTerminate ==
    /\ agent = "held" /\ agent' = "released"
    /\ tasks' = tasks \cup {<<agentGen, <<"Terminate", 0>> >>}
    /\ UNCHANGED <<rootVars, agentGen, closed, chan, updates, link, cloneVars,
                   reports>>
AskReport ==
    /\ agent = "held" /\ reports < MaxReports
    /\ reports' = reports + 1
    /\ tasks' = tasks \cup {<<agentGen, <<"ReportLinks", 0>> >>}
    /\ UNCHANGED <<rootVars, agentGen, agent, closed, chan, updates, link,
                   cloneVars>>

\* A spawned task sends its command when there is room.  If the receiver is
\* gone the command is dropped with what it carries.
TaskSends(t) ==
    /\ t \in tasks
    /\ tasks' = tasks \ {t}
    /\ \/ /\ Room(t[1])
          /\ Queue(t[1], t[2])
          /\ UNCHANGED <<closed, link>>
       \/ /\ t[1] \in closed /\ t[2][1] = "Reconfigure"
          /\ Close(DroppedWith(t[1] + 1))
       \/ /\ t[1] \in closed /\ t[2][1] # "Reconfigure"
          /\ UNCHANGED <<chan, closed, link>>
    /\ UNCHANGED <<rootVars, agentVars, updates, cloneVars>>

-----------------------------------------------------------------------------
(* Gate::process of the root gate, one command at a time *)

RootAttach ==
    /\ Next1("AttachClone") /\ Taken
    /\ cloneSenders' = cloneSenders \cup {Arg}
    /\ UNCHANGED <<rootVars, agentVars, closed, tasks, updates, link, cst, cq>>

RootDetach ==
    /\ Next1("DetachClone") /\ Taken
    /\ cloneSenders' = cloneSenders \ {Arg}
    /\ UNCHANGED <<rootVars, agentVars, closed, tasks, updates, link, cst, cq>>

\* subscribe: the slot is in place before the link learns of it.
RootSubscribe ==
    /\ Next1("Subscribe") /\ Taken
    /\ Insert(<<Arg, gen>>)
    /\ link' = [link EXCEPT ![Arg].phase = "up"]
    /\ Notify(<<"FollowSubscribe", <<Arg, gen>> >>)
    /\ UNCHANGED <<rootVars, agentVars, closed, tasks, cst>>

RootUnsubscribe ==
    /\ Next1("Unsubscribe") /\ Taken
    /\ Remove(Arg)
    /\ Notify(<<"FollowUnsubscribe", Arg>>)
    /\ UNCHANGED <<rootVars, agentVars, closed, tasks, link, cst>>

\* Reconfigure: take over receiver and slots of the new gate.  The sender
\* handed to clones stays the one of generation 0.
RootReconfigure ==
    /\ Next1("Reconfigure")
    /\ gen' = gen + 1
    /\ Close({gen})
    /\ updates' = {}
    /\ Notify(<<"FollowReconfigure", 0>>)
    /\ UNCHANGED <<root, agentVars, tasks, cst>>

RootReport ==
    /\ Next1("ReportLinks") /\ Taken
    /\ Notify(<<"ReportLinks", 0>>)
    /\ UNCHANGED <<rootVars, agentVars, closed, tasks, updates, link, cst>>

\* Terminate: the unit returns and its gate is dropped, with the senders of
\* its clones.
RootTerminate ==
    /\ Next1("Terminate")
    /\ root' = "gone"
    /\ Close(DroppedWith(gen))
    /\ cq' = [c \in Clones |->
                IF /\ c \in cloneSenders /\ cst[c] = "run"
                   /\ Len(cq[c]) < QueueLen
                THEN Append(cq[c], <<"Terminate", 0>>) ELSE cq[c]]
    /\ cloneSenders' = {}
    /\ UNCHANGED <<gen, agentVars, tasks, updates, cst>>

RootProcess ==
    \/ RootAttach \/ RootDetach \/ RootSubscribe \/ RootUnsubscribe
    \/ RootReconfigure \/ RootReport \/ RootTerminate

-----------------------------------------------------------------------------
(* Clones *)

\* Gate::clone: a task asks the gate of generation 0 to attach the clone.
MakeClone(c) ==
    /\ root = "run" /\ cst[c] = "none"
    /\ cst' = [cst EXCEPT ![c] = "run"]
    /\ tasks' = tasks \cup {<<0, <<"AttachClone", c>> >>}
    /\ UNCHANGED <<rootVars, agentVars, closed, chan, updates, link, cq,
                   cloneSenders>>

\* Drop of a clone: DetachClone is sent first, with patience for room.
Drop(c, how) ==
    /\ cst' = [cst EXCEPT ![c] = how]
    /\ \/ Room(0) /\ Queue(0, <<"DetachClone", c>>)
       \/ 0 \in closed /\ UNCHANGED chan

WorkerEnds(c) ==
    /\ cst[c] = "run" /\ Drop(c, "ended")
    /\ UNCHANGED <<rootVars, agentVars, closed, tasks, updates, link, cq,
                   cloneSenders>>

\* Gate::process of a clone.
CloneHas(c, op) ==
    /\ c \notin Deaf /\ cst[c] = "run"
    /\ cq[c] # <<>> /\ Head(cq[c])[1] = op
    /\ cq' = [cq EXCEPT ![c] = Tail(@)]

CloneFollows(c) ==
    /\ \/ CloneHas(c, "FollowSubscribe") /\ Insert(Head(cq[c])[2])
       \/ CloneHas(c, "FollowUnsubscribe") /\ Remove(Head(cq[c])[2])
       \/ CloneHas(c, "FollowReconfigure") /\ UNCHANGED updates
       \/ CloneHas(c, "ReportLinks") /\ UNCHANGED updates
    /\ UNCHANGED <<rootVars, agentVars, closed, chan, tasks, link, cst,
                   cloneSenders>>

CloneTerminates(c) ==
    /\ CloneHas(c, "Terminate")
    /\ Drop(c, "terminated")
    /\ UNCHANGED <<rootVars, agentVars, closed, tasks, updates, link,
                   cloneSenders>>

\* The only sender to a clone is in the task or command that attaches it and
\* then in the gate; without one the queue ends.
HasSender(c) ==
    \/ c \in cloneSenders
    \/ \E t \in tasks : t[2] = <<"AttachClone", c>>
    \/ \E g \in Gens : \E i \in DOMAIN chan[g] :
            chan[g][i] = <<"AttachClone", c>>

CloneQueueEndsNever(c) == FALSE
CloneQueueEnds(c) ==
    /\ c \notin Deaf /\ cst[c] = "run" /\ cq[c] = <<>> /\ ~HasSender(c)
    /\ Drop(c, "terminated")
    /\ UNCHANGED <<rootVars, agentVars, closed, tasks, updates, link, cq,
                   cloneSenders>>

CloneProcess(c) == CloneFollows(c) \/ CloneTerminates(c) \/ CloneQueueEnds(c)

GateNext ==
    \/ \E l \in Links : Connect(l) \/ Relink(l)
    \/ Reload \/ AskTerminate \/ AskReport
    \/ \E t \in tasks : TaskSends(t)
    \/ RootProcess
    \/ \E c \in Clones : MakeClone(c) \/ WorkerEnds(c) \/ CloneProcess(c)

\* The tasks of the runtime are scheduled: a unit and the clones that process
\* commands take the next one, a spawned task sends when it can.  There are
\* finitely many such steps, so it is enough that some one is taken.
GateProgress ==
    \/ RootProcess
    \/ \E t \in tasks : TaskSends(t)
    \/ \E c \in Clones : CloneProcess(c)
GateFairness == WF_gateVars(GateProgress)

GateSpec == GateInit /\ [][GateNext]_gateVars
GateFairSpec == GateSpec /\ GateFairness

-----------------------------------------------------------------------------
(* Properties *)

\* A component whose Link::connect has returned gets the updates of the unit:
\* its slot is among those update_data serves, whatever clones do with the
\* subscriptions they hear of late and whatever links are dropped.
LinkServed ==
    \A l \in Links :
        root = "run" /\ link[l].phase = "up" /\ link[l].gen = gen
            => <<l, gen>> \in updates

\* Link::connect returns, with a slot or with Gone, also if the gate is
\* reconfigured or terminated while the request is queued.
ConnectReturns ==
    \A l \in Links : link[l].phase = "asked" ~> link[l].phase # "asked"

\* comms.rs:50-52: when a gate is terminated its clones are too, as far as they
\* process commands: also those whose queue was full and those that had not
\* been attached yet.
ClonesEndWithGate ==
    \A c \in Clones \ Deaf :
        root = "gone" /\ cst[c] = "run" ~> cst[c] # "run"

\* comms.rs:369-371: process() fails if the unit should terminate.
CloneEndsOnlyWithGate ==
    \A c \in Clones : cst[c] = "terminated" => root = "gone"
====
