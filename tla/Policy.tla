------------------------------- MODULE Policy -------------------------------
(***************************************************************************)
(* The egress policy (internal/policy/policy.go) and the dial that uses it *)
(* (dialTarget in internal/tunnel/tunnel.go).  The engine is built once    *)
(* from the configured rules; for each session it resolves the target,     *)
(* decides about the addresses of that answer, and the server dials those  *)
(* addresses one after the other.  The resolver is external and may answer *)
(* differently every time it is asked.                                     *)
(*                                                                         *)
(* A host name is the sequence of its labels, a network the set of its     *)
(* addresses.                                                              *)
(***************************************************************************)
EXTENDS Integers, FiniteSets, Sequences, SequencesExt

CONSTANTS
    IP,        \* addresses, those with isUnsafe among them
    Unsafe,    \* private, loopback, link-local, multicast, metadata addresses
    RawRules,  \* rules as they are written: form, net or name, port
    Targets    \* requested targets: host name or literal address, and port

NoPort == -2     \* "host"
EmptyPort == -1  \* "host:"

ASSUME PolicyAssumption ==
    /\ Unsafe \subseteq IP
    /\ RawRules \subseteq [form : {"*", "net", "suffix", "name"}, net : SUBSET IP,
                           name : Seq(STRING), port : Int]
    /\ Targets \subseteq [literal : SUBSET IP, name : Seq(STRING), port : Nat]

VARIABLES
    cfg,   \* policy.Config
    eng,   \* the Engine, or none when New has failed
    dial   \* dialTarget: where it is, the target, the resolved addresses, those tried

policyVars == <<cfg, eng, dial>>

AtMostOne(S) == {{}} \cup {{x} : x \in S}

PolicyInit ==
    /\ cfg \in [allowPrivate : BOOLEAN, unrestricted : BOOLEAN, require : BOOLEAN,
                allow : AtMostOne(RawRules), deny : AtMostOne(RawRules)]
    /\ eng = [ok |-> FALSE, allow |-> {}, deny |-> {}]
    /\ dial \in [pc : {"new"}, target : Targets, ips : {{}}, tried : {{}}]
-----------------------------------------------------------------------------
ValidPorts == {NoPort, EmptyPort} \cup 1 .. 65535

(* A written rule that New refuses: its port is no port number.            *)
Malformed(raw) == raw.port \notin ValidPorts

(* parseRule: no port, and an empty one, mean every port.                  *)
parseRule(raw) ==
    [any |-> raw.form = "*",
     host |-> IF raw.form = "name" THEN raw.name ELSE << >>,
     suffix |-> IF raw.form = "suffix" THEN raw.name ELSE << >>,
     cidr |-> IF raw.form = "net" THEN raw.net ELSE {},
     hasPort |-> raw.port > 0,
     port |-> IF raw.port > 0 THEN raw.port ELSE 0]

(* New: without an engine the server does not start.                       *)
New ==
    /\ dial.pc = "new"
    /\ LET bad == \/ cfg.require /\ ~cfg.unrestricted /\ cfg.allow = {}
                  \/ \E raw \in cfg.allow \cup cfg.deny : Malformed(raw)
       IN
       /\ eng' = IF bad THEN eng
                 ELSE [ok |-> TRUE, allow |-> {parseRule(raw) : raw \in cfg.allow},
                       deny |-> {parseRule(raw) : raw \in cfg.deny}]
       /\ dial' = [dial EXCEPT !.pc = IF bad THEN "refused" ELSE "resolve"]
    /\ UNCHANGED cfg

(* resolveTarget: a literal is its own answer; a name has an answer with   *)
(* some addresses.                                                         *)
Resolve ==
    /\ dial.pc = "resolve"
    /\ dial.target.port # 0
    /\ \E answer \in (SUBSET IP) \ {{}} :
         /\ dial.target.literal # {} => answer = dial.target.literal
         /\ dial' = [dial EXCEPT !.pc = "decide", !.ips = answer]
    /\ UNCHANGED <<cfg, eng>>

(* Port 0 is refused, the lookup fails or has no answer.                   *)
ResolveFails ==
    /\ dial.pc = "resolve"
    /\ dial.target.port = 0 \/ dial.target.literal = {}
    /\ dial' = [dial EXCEPT !.pc = "refused"]
    /\ UNCHANGED <<cfg, eng>>

(* rule.matches, with the set of addresses that stands for *netip.Addr:    *)
(* a literal target's own address when none is given.                      *)
matches(r, t, ip) ==
    /\ r.hasPort => r.port = t.port
    /\ \/ r.any
       \/ r.host # << >> /\ t.name = r.host
       \/ r.suffix # << >> /\ IsSuffix(r.suffix, t.name)
       \/ \E addr \in IF ip = {} THEN t.literal ELSE ip : addr \in r.cidr

matchesAny(rules, t, ips) ==
    \/ \E r \in rules : matches(r, t, t.literal)
    \/ \E r \in rules, ip \in ips : matches(r, t, {ip})

(* allowedIPs on a resolved target: one address that may not be used       *)
(* refuses them all.                                                       *)
Allowed(e, t, ips) ==
    /\ ~matchesAny(e.deny, t, ips)
    /\ cfg.unrestricted \/ e.allow = {} \/ matchesAny(e.allow, t, ips)
    /\ cfg.allowPrivate \/ ips \cap Unsafe = {}

Decide ==
    /\ dial.pc = "decide"
    /\ dial' = [dial EXCEPT !.pc = IF Allowed(eng, dial.target, dial.ips)
                                   THEN "dial" ELSE "refused"]
    /\ UNCHANGED <<cfg, eng>>

(* Mutant: the dialer is given the name and resolves it again.             *)
DialTargetAgain(ip) ==
    /\ dial.pc = "dial"
    /\ dial.target.literal = {} \/ ip \in dial.target.literal
    /\ dial' = [dial EXCEPT !.tried = @ \cup {ip}, !.pc = "connected"]
    /\ UNCHANGED <<cfg, eng>>

(* dialTarget tries the addresses of the answer until one connects.        *)
DialTarget(ip) ==
    /\ dial.pc = "dial"
    /\ ip \in dial.ips \ dial.tried
    /\ \E pc \in {"connected", IF dial.tried \cup {ip} = dial.ips THEN "refused" ELSE "dial"} :
         dial' = [dial EXCEPT !.tried = @ \cup {ip}, !.pc = pc]
    /\ UNCHANGED <<cfg, eng>>

PolicyNext ==
    \/ New
    \/ Resolve
    \/ ResolveFails
    \/ Decide
    \/ \E ip \in IP : DialTarget(ip)

PolicySpec == PolicyInit /\ [][PolicyNext]_policyVars
-----------------------------------------------------------------------------
(* What a written rule is meant to cover; one without a host, such as      *)
(* ":443", covers nothing.                                                 *)
Covers(raw, t, ip) ==
    /\ raw.port \in {NoPort, EmptyPort, t.port}
    /\ \/ raw.form = "*"
       \/ raw.form = "net" /\ ip \in raw.net
       \/ raw.form = "name" /\ raw.name # << >> /\ t.name = raw.name
       \/ raw.form = "suffix" /\ raw.name # << >> /\ IsSuffix(raw.name, t.name)

(* Every address that the server connects to, or tries to, is permitted by *)
(* the rules as they were written, whatever the resolver answers before    *)
(* and after the decision: none of the target's addresses is covered by a  *)
(* deny rule, the address is public unless private ones are allowed, and,  *)
(* if there is an allowlist or one is required, it covers the target by    *)
(* its name or by an address it resolves to, unless egress is unrestricted *)
(* (docs/SECURITY.md, AllowedIPs and dialTarget).                          *)
DialledIsPermitted ==
    \A ip \in dial.tried :
        /\ ~ \E raw \in cfg.deny, a \in dial.ips \cup {ip} : Covers(raw, dial.target, a)
        /\ ip \in Unsafe => cfg.allowPrivate
        /\ \/ cfg.unrestricted
           \/ cfg.allow = {} /\ ~cfg.require
           \/ \E raw \in cfg.allow, a \in dial.ips : Covers(raw, dial.target, a)
=============================================================================
