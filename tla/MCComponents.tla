---------------------------- MODULE MCComponents ----------------------------
(***************************************************************************)
(* The components around the tunnel in one instance for TLC.  They do not  *)
(* interact, so that a state would only pair unrelated states of them: the *)
(* first state picks a topic, and only the components of the topic move or *)
(* vary.  DeletePrefix runs against a tunnel in one topic and against the  *)
(* doctor in another.                                                      *)
(***************************************************************************)
EXTENDS Aggregator, Polling, Cleanup, Policy, Keys, Codec, Settings

VARIABLE topic

Topics == {"aggregation", "polling", "cleanup", "doctor", "policy", "keys",
           "slots", "envelope", "settings", "chunks", "presets"}

vars == <<topic, aggVars, pollVars, cleanupVars, policyVars, lookup,
          codec, stored, reader, changed, header, given, peer, where>>

\* Rules with every form of host part and port, one of them malformed.
MCRawRules ==
    LET Rule(form, net, name, port) ==
          [form |-> form, net |-> net, name |-> name, port |-> port]
    IN {Rule("*", {}, << >>, 443), Rule("*", {}, << >>, NoPort),
        Rule("net", {"public", "private"}, << >>, EmptyPort),
        Rule("suffix", {}, <<"corp">>, NoPort), Rule("name", {}, <<"db", "corp">>, 443),
        Rule("name", {}, <<"web">>, 65536)}

\* Two names and a private literal, with and without the port of the rules.
MCTargets ==
    [literal : {{}}, name : {<<"db", "corp">>, <<"web">>}, port : {80, 443}]
    \cup [literal : {{"private"}}, name : {<< >>}, port : {0, 443}]

\* Both sides of every boundary.
MCChunkSizes == {-1, 0, 1, 1023, 1024, 65536, 16777216, 16777217}
MCDurations == {-1, 0, 60, 3000}
MCCounts == {-1, 0, 3}

Plainest ==
    [chunk |-> 65536, flush |-> 0, pollMin |-> 60, pollMax |-> 60, active |-> 60,
     window |-> 3, misses |-> 3, idle |-> 60]

\* Init: the components of the topic start anywhere, the others in one state.
Still ==
    /\ topic # "policy" =>
         cfg = [allowPrivate |-> FALSE, unrestricted |-> FALSE, require |-> FALSE,
                allow |-> {}, deny |-> {}]
    /\ topic # "keys" =>
         lookup = [prefix |-> << >>, object |-> CHOOSE o \in Objects : o.kind = "open"]
    /\ topic # "slots" =>
         codec = "psk" /\ stored = OpenPut("s1") /\ reader = OpenGet("s1") /\ changed = "nothing"
    /\ topic # "envelope" =>
         header = [len |-> 40, magic |-> TRUE, version |-> 1, algorithm |-> 1,
                   nonceLen |-> 12, ctLen |-> 16, half |-> 512]
    /\ topic \notin {"settings", "chunks"} => given = Plainest
    /\ topic = "chunks" => given \in {[Plainest EXCEPT !.chunk = n] : n \in ChunkSizes}
    /\ topic # "chunks" => peer = 65536
    /\ topic # "presets" =>
         where = [provider |-> "", region |-> "", endpoint |-> "",
                  pathStyle |-> FALSE, dotted |-> FALSE]

Init ==
    /\ topic \in Topics
    /\ Still
    /\ AggInit /\ (topic # "aggregation" => agg.flush)
    /\ PollInit
    /\ CleanupInit /\ (topic # "doctor" => doc.cleanup)
    /\ PolicyInit
    /\ topic # "policy" => dial.target = [literal |-> {}, name |-> <<"web">>, port |-> 443]
    /\ KeysInit
    /\ CodecInit
    /\ SettingsInit

Decisions == <<topic, lookup, codec, stored, reader, changed, header, given, peer, where>>

WithTunnel == CleanStart \/ CleanupStep \/ ServiceStep \/ TunnelStep
WithDoctor == CleanStart \/ CleanupStep \/ ServiceStep \/ DoctorStep

Next ==
    /\ UNCHANGED Decisions
    /\ \/ topic = "aggregation" /\ AggNext /\ UNCHANGED <<pollVars, cleanupVars, policyVars>>
       \/ topic = "polling" /\ PollNext /\ UNCHANGED <<aggVars, cleanupVars, policyVars>>
       \/ topic = "cleanup" /\ WithTunnel /\ UNCHANGED <<aggVars, pollVars, policyVars>>
       \/ topic = "doctor" /\ WithDoctor /\ UNCHANGED <<aggVars, pollVars, policyVars>>
       \/ topic = "policy" /\ PolicyNext /\ UNCHANGED <<aggVars, pollVars, cleanupVars>>

Spec == Init /\ [][Next]_vars /\ AggFairness /\ CleanupFairness
=============================================================================
