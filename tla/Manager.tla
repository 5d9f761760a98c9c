---- MODULE Manager ----
(***************************************************************************)
(* The manager (src/manager.rs) and the signal loop (src/main.rs): loading *)
(* a configuration, making the gates its links need, spawning,             *)
(* reconfiguring and terminating units and targets, the two barriers of    *)
(* the start-up, the link reports behind them, and the final termination.  *)
(*                                                                         *)
(* A component is an instance of a name, known by the spawn (round) that   *)
(* started it.  A configuration gives each name a type and the units it    *)
(* takes its updates from.                                                 *)
(***************************************************************************)
EXTENDS Naturals, FiniteSets

CONSTANTS Units, Targets,   \* names of units and of targets
          Types,            \* kinds of units and targets
          Fixed,            \* kinds of targets that are set up once: file-out
          Configs,          \* configuration files that may be met
          MaxSpawn,         \* bound: successful loads
          MaxLoad           \* bound: loads, successful or not

Comps == Units \cup Targets

ASSUME ManagerAssumption ==
    /\ Units \cap Targets = {}
    /\ "absent" \notin Types /\ Fixed \subseteq Types
    /\ MaxSpawn \in Nat \ {0} /\ MaxLoad \in Nat
    /\ Configs \subseteq [type : [Comps -> Types \cup {"absent"}],
                          src : [Comps -> SUBSET Units],
                          error : {"none", "parse", "roto"}]
    /\ \A cf \in Configs : \A u \in Units : cf.type[u] \notin Fixed

VARIABLES gates,      \* GATES: units a link was loaded for
          pending,    \* pending_gates
          loads,      \* files loaded so far
          round,      \* spawns so far
          running,    \* running_units and running_targets
          team,       \* the instances running after a round's spawn
          wires,      \* the links a round made: who listens to which instance
          early,      \* instances reconfigured too early (history)
          kind,       \* the type of an instance
          phase,      \* what an instance is doing
          at,         \* the round whose links it has, or is connecting
          gate,       \* the round whose gate a unit has taken over
          recon,      \* rounds whose Reconfigure is on its way to it
          term,       \* instances that were sent Terminate
          tracked,    \* components a round's coordinator tracks
          arrived,    \* those of them at its barrier
          barrier,    \* 0: no such round; 1, 2: to be passed; 3: both passed
          answered,   \* instances that answered the round's ReportLinks
          published,  \* rounds whose reports are out and HTTP restarted
          stage       \* of the signal loop

loadVars == <<gates, pending, loads>>
roundVars == <<round, running, kind, team, wires, early, tracked>>
instVars == <<phase, at, gate, recon, term>>
coordVars == <<arrived, barrier, answered, published>>
mgrVars == <<loadVars, roundVars, instVars, coordVars, stage>>

Rounds == 1 .. MaxSpawn
Insts == Comps \X Rounds
Phases == {"none", "connect", "ready", "second", "run", "relink", "ended"}

Has(cf) == {c \in Comps : cf.type[c] # "absent"}
Linked(cf) == UNION {cf.src[c] : c \in Has(cf)}
Alive(i) == phase[i] \notin {"none", "ended"}
IsRunning(c) == running[c] # 0
Current(c) == <<c, running[c]>>
Sources(i) == wires[at[i]][i[1]]
Become(i, p) == phase' = [phase EXCEPT ![i] = p]

MgrInit ==
    /\ gates = {} /\ pending = {} /\ loads = 0
    /\ round = 0 /\ early = {} /\ term = {}
    /\ running = [c \in Comps |-> 0]
    /\ kind = [i \in Insts |-> "absent"]
    /\ team = [r \in Rounds |-> {}]
    /\ wires = [r \in Rounds |-> [c \in Comps |-> {}]]
    /\ phase = [i \in Insts |-> "none"]
    /\ at = [i \in Insts |-> i[2]]
    /\ gate = [i \in Insts |-> i[2]]
    /\ recon = [i \in Insts |-> {}]
    /\ tracked = [r \in Rounds |-> {}]
    /\ arrived = [r \in Rounds |-> {}]
    /\ barrier = [r \in Rounds |-> 0]
    /\ answered = [r \in Rounds |-> {}]
    /\ published = {}
    /\ stage = "signals"

-----------------------------------------------------------------------------
(* Loading: Config::from_config_file, Manager::load and prepare *)

\* load_link makes an entry of GATES for every unit a link names.  A file that
\* is refused while it is deserialized has loaded some of its links by then.
LoadFails(cf) ==
    /\ cf.error = "parse"
    /\ \E s \in SUBSET Linked(cf) : gates' = gates \cup s
    /\ UNCHANGED pending

\* prepare compiles the Roto script before it drains GATES.
PrepareFails(cf) ==
    /\ cf.error = "roto"
    /\ gates' = gates \cup Linked(cf)
    /\ UNCHANGED pending

\* A gate for a unit that is not configured: GATES is drained, gates that were
\* looked at before it are pending.  The gate may stem from an earlier load.
Unresolved(cf) ==
    /\ cf.error = "none"
    /\ ~((gates \cup Linked(cf)) \subseteq Has(cf))
    /\ \E s \in SUBSET ((gates \cup Linked(cf)) \cap Has(cf)) :
            pending' = pending \cup s
    /\ gates' = {}

\* Everything resolved; spawn removes the pending gates of configured units.
Prepared(cf) ==
    /\ cf.error = "none"
    /\ (gates \cup Linked(cf)) \subseteq Has(cf)
    /\ gates' = {}
    /\ pending' = (pending \cup gates \cup Linked(cf)) \ Has(cf)

Refused(cf) ==
    /\ LoadFails(cf) \/ PrepareFails(cf) \/ Unresolved(cf)
    /\ UNCHANGED <<roundVars, instVars, coordVars>>

-----------------------------------------------------------------------------
(* spawn_internal *)

\* Units with a gate are used, the others are stopped or not started.
Wanted(cf) ==
    {c \in Has(cf) : c \in Targets \cup pending \cup gates \cup Linked(cf)}
Kept(cf) ==
    {c \in Wanted(cf) : IsRunning(c) /\ kind[Current(c)] = cf.type[c]}
StoppedButLeftovers(cf) ==
    {c \in Has(cf) : IsRunning(c) /\ c \notin Kept(cf)}
Stopped(cf) == {c \in Comps : IsRunning(c) /\ c \notin Kept(cf)}

Started(cf) == Wanted(cf) \ Kept(cf)

\* Components are run by spawned tasks; commands are sent by such tasks.
Launch(is) ==
    phase' = [i \in Insts |-> IF i \in is THEN "connect" ELSE phase[i]]
SendReconfigure(is, r) ==
    recon' = [i \in Insts |-> IF i \in is THEN recon[i] \cup {r} ELSE recon[i]]
SendTerminate(is) == term' = term \cup is

\* A Reconfigure that a unit will meet in process_until, which drops it, or
\* that may reach a target before an earlier one: each is sent by a task.
Overtaken(i) ==
    \/ i[1] \in Units /\ phase[i] \in {"connect", "ready"}
    \/ i[1] \in Targets /\ recon[i] # {}

Spawn(cf) ==
    LET r == round + 1
        new == Started(cf)
        inst(c) == IF c \in new THEN <<c, r>> ELSE Current(c)
        kept == {Current(c) : c \in Kept(cf)}
    IN  /\ round < MaxSpawn
        /\ Prepared(cf)
        /\ round' = r
        /\ running' = [c \in Comps |->
                         IF c \in Wanted(cf) THEN inst(c)[2] ELSE 0]
        /\ kind' = [i \in Insts |->
                      IF i \in new \X {r} THEN cf.type[i[1]] ELSE kind[i]]
        /\ team' = [team EXCEPT ![r] = {inst(c) : c \in Wanted(cf)}]
        /\ wires' = [wires EXCEPT ![r] =
                        [c \in Comps |-> IF c \in Wanted(cf)
                                         THEN {inst(u) : u \in cf.src[c]}
                                         ELSE {}]]
        /\ early' = early \cup {i \in kept : Overtaken(i)}
        /\ Launch(new \X {r})
        /\ SendReconfigure(kept, r)
        /\ SendTerminate({Current(c) : c \in Stopped(cf)})
        /\ tracked' = [tracked EXCEPT ![r] = new]
        /\ barrier' = [barrier EXCEPT ![r] = 1]
        /\ UNCHANGED <<at, gate, arrived, answered, published>>

\* The first load on start-up, a SIGHUP afterwards; a first load that fails
\* ends the program.
Hup(cf) ==
    /\ stage = "signals" /\ loads < MaxLoad
    /\ loads' = loads + 1
    /\ \/ Spawn(cf) /\ UNCHANGED stage
       \/ /\ Refused(cf)
          /\ stage' = IF round = 0 THEN "stopped" ELSE stage

-----------------------------------------------------------------------------
(* Instances *)

\* A gate answers the links made for it while its unit waits for the first
\* barrier or runs; it is gone when the unit ended or took over a later one.
Serves(v, r) == phase[v] \in {"ready", "run"} /\ gate[v] = r
Gone(v, r) == phase[v] = "ended" \/ gate[v] > r

\* All links connected: wait for the first barrier; a unit processes commands
\* while it waits.
Arrive(i) ==
    /\ phase[i] = "connect"
    /\ \A v \in Sources(i) : Serves(v, at[i])
    /\ Become(i, "ready")
    /\ arrived' = [arrived EXCEPT ![i[2]] = @ \cup {i[1]}]
    /\ UNCHANGED <<at, gate, recon, term, barrier, answered, published>>

\* connect(...).await.unwrap() on a gate that is gone.
Panic(i) ==
    /\ phase[i] \in {"connect", "relink"}
    /\ \E v \in Sources(i) : Gone(v, at[i])
    /\ Become(i, "ended")
    /\ UNCHANGED <<at, gate, recon, term, coordVars>>

\* file-out cannot create its file: it ends before it reaches the barrier.
SetupFails(i) ==
    /\ phase[i] = "connect" /\ kind[i] \in Fixed
    /\ Become(i, "ended")
    /\ UNCHANGED <<loadVars, roundVars, at, gate, recon, term, coordVars, stage>>

SecondOnlyUnits(i) ==
    /\ phase[i] = "ready" /\ barrier[i[2]] = 2
    /\ Become(i, "second")
    /\ arrived' = [arrived EXCEPT ![i[2]] = @ \cup ({i[1]} \cap Units)]
    /\ UNCHANGED <<at, gate, recon, term, barrier, answered, published>>

\* Past the first barrier: out of process_until, on to the second.
Second(i) ==
    /\ phase[i] = "ready" /\ barrier[i[2]] = 2
    /\ Become(i, "second")
    /\ arrived' = [arrived EXCEPT ![i[2]] = @ \cup {i[1]}]
    /\ UNCHANGED <<at, gate, recon, term, barrier, answered, published>>
Start(i) ==
    /\ phase[i] = "second" /\ barrier[i[2]] = 3
    /\ Become(i, "run")
    /\ UNCHANGED <<at, gate, recon, term, coordVars>>

\* The next Reconfigure a unit finds is the one in the gate it reads.
NextRound(i, r) ==
    /\ r \in recon[i]
    /\ i[1] \in Units => \A q \in recon[i] : r <= q
    /\ recon' = [recon EXCEPT ![i] = @ \ {r}]
    /\ gate' = [gate EXCEPT ![i] = r]

\* A running component takes its new configuration and connects its links.
Reconfigure(i, r) ==
    /\ phase[i] = "run" /\ kind[i] \notin Fixed
    /\ NextRound(i, r)
    /\ at' = [at EXCEPT ![i] = r]
    /\ Become(i, "relink")
    /\ UNCHANGED <<term, coordVars>>
Relinked(i) ==
    /\ phase[i] = "relink"
    /\ \A v \in Sources(i) : Serves(v, at[i])
    /\ Become(i, "run")
    /\ UNCHANGED <<at, gate, recon, term, coordVars>>

\* process_until takes over the new gate but drops the new configuration, and
\* file-out only warns.
Disregard(i, r) ==
    /\ \/ phase[i] = "ready" /\ i[1] \in Units
       \/ phase[i] = "run" /\ kind[i] \in Fixed
    /\ NextRound(i, r)
    /\ UNCHANGED <<phase, at, term, coordVars>>

\* file-out ends when the gate it queries is gone.
QueryGone(i) ==
    /\ phase[i] = "run" /\ kind[i] \in Fixed
    /\ \E v \in Sources(i) : Gone(v, at[i])
    /\ Become(i, "ended")
    /\ UNCHANGED <<at, gate, recon, term, coordVars>>

EndInstanceOldAgent(i) ==
    /\ i \in term /\ gate[i] = i[2]
    /\ phase[i] = "run" \/ (phase[i] = "ready" /\ i[1] \in Units)
    /\ Become(i, "ended")
    /\ UNCHANGED <<at, gate, recon, term, coordVars>>

\* Terminate; for a unit it is in the channel of its newest gate.
EndInstance(i) ==
    /\ i \in term
    /\ phase[i] = "run" \/ (phase[i] = "ready" /\ i[1] \in Units)
    /\ i[1] \in Units => recon[i] = {}
    /\ Become(i, "ended")
    /\ UNCHANGED <<at, gate, recon, term, coordVars>>

InstanceStep(i) ==
    /\ \/ Arrive(i) \/ Panic(i) \/ Second(i) \/ Start(i)
       \/ \E r \in Rounds : Reconfigure(i, r) \/ Disregard(i, r)
       \/ Relinked(i) \/ QueryGone(i) \/ EndInstance(i)
    /\ UNCHANGED <<loadVars, roundVars, stage>>

-----------------------------------------------------------------------------
(* The coordinator of a round and the reports behind its barriers *)

OpenEarly(r) ==
    /\ barrier[r] \in {1, 2}
    /\ Cardinality(arrived[r]) + 1 >= Cardinality(tracked[r])
    /\ barrier' = [barrier EXCEPT ![r] = @ + 1]
    /\ arrived' = [arrived EXCEPT ![r] = {}]
    /\ UNCHANGED <<answered, published>>

\* The barrier opens when all tracked components are there; the coordinator
\* waits in the place of those that are not tracked.
Open(r) ==
    /\ barrier[r] \in {1, 2}
    /\ arrived[r] = tracked[r]
    /\ barrier' = [barrier EXCEPT ![r] = @ + 1]
    /\ arrived' = [arrived EXCEPT ![r] = {}]
    /\ UNCHANGED <<answered, published>>

\* ReportLinks goes to the gate a unit had in that round.
Answer(r, i) ==
    /\ barrier[r] = 3 /\ i \in team[r] \ answered[r]
    /\ phase[i] = "run"
    /\ i[1] \in Units => gate[i] = r
    /\ answered' = [answered EXCEPT ![r] = @ \cup {i}]
    /\ UNCHANGED <<arrived, barrier, published>>
Publish(r) ==
    /\ barrier[r] = 3 /\ r \notin published
    /\ team[r] \subseteq answered[r]
    /\ published' = published \cup {r}
    /\ UNCHANGED <<arrived, barrier, answered>>

Coordinate(r) ==
    /\ Open(r) \/ Publish(r) \/ \E i \in Insts : Answer(r, i)
    /\ UNCHANGED <<loadVars, roundVars, instVars, stage>>

-----------------------------------------------------------------------------
(* Manager::terminate, on ctrl-c: units first, one at a time *)

CtrlC ==
    /\ stage = "signals" /\ round > 0
    /\ stage' = "stopping"
    /\ UNCHANGED <<loadVars, roundVars, instVars, coordVars>>

StopOne(c) ==
    /\ stage = "stopping" /\ IsRunning(c)
    /\ c \in Targets => \A u \in Units : ~IsRunning(u)
    /\ \A d \in Comps : IsRunning(d) => Current(d) \notin term
    /\ SendTerminate({Current(c)})
    /\ UNCHANGED <<loadVars, roundVars, phase, at, gate, recon, coordVars,
                   stage>>
StopNext(c) ==
    /\ stage = "stopping" /\ IsRunning(c)
    /\ Current(c) \in term /\ phase[Current(c)] = "ended"
    /\ running' = [running EXCEPT ![c] = 0]
    /\ UNCHANGED <<loadVars, round, kind, team, wires, early, tracked, instVars,
                   coordVars, stage>>
Stop ==
    /\ stage = "stopping" /\ \A c \in Comps : ~IsRunning(c)
    /\ stage' = "stopped"
    /\ UNCHANGED <<loadVars, roundVars, instVars, coordVars>>
Terminate == Stop \/ \E c \in Comps : StopOne(c) \/ StopNext(c)

MgrNext ==
    \/ \E cf \in Configs : Hup(cf)
    \/ \E i \in Insts : InstanceStep(i) \/ SetupFails(i)
    \/ \E r \in Rounds : Coordinate(r)
    \/ CtrlC \/ Terminate

\* Components, the coordinators' tasks and the terminating main thread are
\* scheduled; nothing forces a signal or a failing set-up.  There are finitely
\* many such steps, so it is enough that one of them is taken while any can be.
MgrProgress ==
    \/ \E i \in Insts : InstanceStep(i)
    \/ \E r \in Rounds : Coordinate(r)
    \/ Terminate
MgrFairness == WF_mgrVars(MgrProgress)

MgrSpec == MgrInit /\ [][MgrNext]_mgrVars
MgrFairSpec == MgrSpec /\ MgrFairness

-----------------------------------------------------------------------------
(* Properties *)

\* rib_unit/unit.rs:570-573: units and targets start together, so that nothing
\* is passed to a component that cannot accept it yet: no component spawned in
\* a round runs before the links of all of them are connected.
StartTogether ==
    \A r \in Rounds : \A c, d \in tracked[r] :
        phase[<<c, r>>] \in {"run", "relink"} => phase[<<d, r>>] # "connect"

Settled ==
    /\ stage = "signals" /\ round > 0
    /\ \A r \in Rounds : r <= round => barrier[r] = 3
    /\ \A i \in Insts : Alive(i) =>
          phase[i] = "run" /\ recon[i] = {} /\ i \notin term

\* manager.rs:668-688 and 807-810: once the commands of spawn are carried out,
\* what the configuration no longer has is gone, and every component that
\* lives takes its updates from the present gates of its sources.  Excepted are
\* a Reconfigure that meets a unit in its start-up, which process_until drops,
\* two that reach a target in the wrong order, and file-out, which is about to
\* end.
ConfigFollowed ==
    Settled /\ early = {} =>
        /\ \A i \in Insts : Alive(i) => i = Current(i[1])
        /\ \A c \in {d \in Comps : /\ IsRunning(d) /\ Alive(Current(d))
                                 /\ kind[Current(d)] \notin Fixed} :
              /\ at[Current(c)] = round
              /\ \A v \in wires[round][c] : Alive(v) /\ gate[v] = round

\* manager.rs:993-1096: the start-up that a spawn begins comes to its end, the
\* link reports are in and HTTP is restarted, unless a component ends, a signal
\* intervenes, or an earlier start-up had not come to its end.
StartupCompletes ==
    \A r \in Rounds :
        barrier[r] = 1 ~> \/ r \in published
                          \/ round > r \/ stage # "signals"
                          \/ \E q \in Rounds : q < r /\ barrier[q] # 3
                          \/ \E i \in team[r] : phase[i] = "ended"

\* manager.rs:1102-1118: once the start-up is over, termination returns, also
\* in the middle of a reconfiguration.
TerminateReturns ==
    stage = "stopping" /\ (\A r \in Rounds : r <= round => barrier[r] = 3)
        ~> stage = "stopped"
====
