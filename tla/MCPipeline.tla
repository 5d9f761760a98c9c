---- MODULE MCPipeline ----
(***************************************************************************)
(* The parts that connect and drive units and targets, checked side by     *)
(* side: they share no state, so a behaviour is one of one part.           *)
(***************************************************************************)
EXTENDS Gate, Manager, MqttTarget, FileTarget, MrtIn, BgpConfig, TLC

VARIABLE part

Parts == {"gate", "manager", "mqtt", "file", "mrt", "bgp"}
pipelineVars == <<part, gateVars, mgrVars, mqttVars, fileVars, mrtVars,
                  configVars>>

\* Configurations: a rib unit between an input and mqtt-out; the rib unit
\* removed and file-out in the target's place; one with an unresolved link, one
\* that cannot be parsed, one whose Roto script does not compile.
Kinds == {"in", "rib", "mqtt", "file"}
ConfigFile(u2, t, srcs, e) ==
    [type |-> ("u1" :> "in" @@ "u2" :> u2 @@ "t1" :> t),
     src |-> ("u1" :> {} @@ "u2" :> {"u1"} @@ "t1" :> srcs), error |-> e]
MCConfigs ==
    {ConfigFile("rib", "mqtt", {"u2"}, "none"),
     ConfigFile("absent", "file", {"u1"}, "none"),
     ConfigFile("absent", "mqtt", {"u2"}, "none"),
     ConfigFile("absent", "mqtt", {"u1"}, "parse"),
     ConfigFile("rib", "mqtt", {"u2"}, "roto")}

\* A dump with two peers, updates for a known and for an unknown peer with a
\* state change, a dump that cannot be parsed to its end, and one with an entry
\* for a peer its table does not have.
RibRec(p, x) == [is |-> "rib", peer |-> p, prefix |-> x, active |-> TRUE]
PeerRec(p) == [is |-> "peers", peer |-> p, prefix |-> "-", active |-> FALSE]
UpdRec(p, x, a) == [is |-> "update", peer |-> p, prefix |-> x, active |-> a]
OtherRec(k, p) == [is |-> k, peer |-> p, prefix |-> "-", active |-> FALSE]
MCFiles == <<"dump", "broken", "absent", "updates", "stray", "dump">>
MCContent ==
    "dump" :> <<PeerRec("p"), PeerRec("q"), RibRec("p", "x"), RibRec("q", "x")>>
    @@ "updates" :> <<UpdRec("p", "x", FALSE), UpdRec("r", "y", TRUE),
                      OtherRec("idle", "q")>>
    @@ "broken" :> <<PeerRec("p"), RibRec("p", "y"), OtherRec("bad", "p"),
                     RibRec("p", "x")>>
    @@ "absent" :> <<>>
    @@ "stray" :> <<PeerRec("p"), RibRec("q", "x"), RibRec("p", "y")>>

\* bgp-tcp-in: an address and a prefix around it; the address without an entry
\* of its own; the address alone and with another AS; another port, and a key
\* for the prefix.
PeerCfg(asns, key) == [asns |-> asns, hold |-> 1, md5 |-> key, rest |-> 0]
UnitCfg(port, p, q) == [listen |-> port, main |-> 1, peers |-> <<p, q>>]
MCRemotes == <<{1}, {1, 2}>>
MCUnitConfigs ==
    {UnitCfg(1, PeerCfg({1}, ""), PeerCfg({}, "")),
     UnitCfg(1, NoCfg, PeerCfg({}, "")),
     UnitCfg(1, PeerCfg({2}, ""), NoCfg),
     UnitCfg(2, PeerCfg({1}, ""), PeerCfg({}, "secret"))}

PipelineInit ==
    /\ part \in Parts
    /\ GateInit /\ MgrInit /\ MqttInit /\ FileInit /\ MrtInit /\ ConfigInit
    /\ part # "bgp" => bgp.peers[1] = NoCfg

PipelineNext ==
    /\ UNCHANGED part
    /\ \/ /\ part = "gate" /\ GateNext
          /\ UNCHANGED <<mgrVars, mqttVars, fileVars, mrtVars, configVars>>
       \/ /\ part = "manager" /\ MgrNext
          /\ UNCHANGED <<gateVars, mqttVars, fileVars, mrtVars, configVars>>
       \/ /\ part = "mqtt" /\ MqttNext
          /\ UNCHANGED <<gateVars, mgrVars, fileVars, mrtVars, configVars>>
       \/ /\ part = "file" /\ FileNext
          /\ UNCHANGED <<gateVars, mgrVars, mqttVars, mrtVars, configVars>>
       \/ /\ part = "mrt" /\ MrtNext
          /\ UNCHANGED <<gateVars, mgrVars, mqttVars, fileVars, configVars>>
       \/ /\ part = "bgp" /\ ConfigNext
          /\ UNCHANGED <<gateVars, mgrVars, mqttVars, fileVars, mrtVars>>

\* The fairness of each part, in its behaviours.
PipelineFairness ==
    /\ WF_gateVars(part = "gate" /\ GateProgress)
    /\ WF_mgrVars(part = "manager" /\ MgrProgress)
    /\ WF_mqttVars(part = "mqtt" /\ MqttProgress)
    /\ WF_fileVars(part = "file" /\ FileStep)
    /\ WF_fileVars(part = "file" /\ SecondPasses)
    /\ WF_mrtVars(part = "mrt" /\ MrtProgress)
    /\ WF_configVars(part = "bgp" /\ ConfigProgress)

PipelineSpec ==
    PipelineInit /\ [][PipelineNext]_pipelineVars /\ PipelineFairness

-----------------------------------------------------------------------------
(* The liveness properties of the parts, each in the behaviours of its part *)

\* comms.rs:1196: a link that asks its gate to be connected gets an answer,
\* also while the gate is reconfigured or goes away.
GateConnectReturns == part = "gate" => ConnectReturns

\* comms.rs:50-52: the clones of a gate that is terminated end as well.
GateClonesEnd == part = "gate" => ClonesEndWithGate

\* manager.rs:993-1096: the start-up that a spawn begins comes to its end.
ManagerStartupCompletes == part = "manager" => StartupCompletes

\* manager.rs:1102-1118: termination returns.
ManagerTerminateReturns == part = "manager" => TerminateReturns

\* targets/mqtt/target.rs:488: mqtt-out, told to terminate, ends.
MqttTargetTerminates == part = "mqtt" => MqttTerminates

\* targets/file/target.rs:87-92, 211 and 283: what file-out has buffered is
\* written once the file can be, and only a failing file loses records.
FileRecordsWritten ==
    /\ LostOnlyByFault
    /\ part = "file" => RecordsReachFile

\* units/mrt_file_in/unit.rs:469-505: every file that is queued is replayed or fails.
MrtFilesReplayed == part = "mrt" => FilesReplayed

\* units/bgp_tcp_in/unit.rs:496: the task of a peer that is dropped ends.
BgpDroppedPeersLeave == part = "bgp" => DroppedPeersLeave
====
