--------------------------- MODULE AndroidService ---------------------------
(***************************************************************************)
(* One life of the Android foreground service                              *)
(* (S3S5ForegroundService.kt) and its listener (Socks5Server.kt).  The     *)
(* main thread handles the user's taps and the system's onDestroy; start   *)
(* and stop do their work in coroutines on other threads.                  *)
(***************************************************************************)
EXTENDS Integers

CONSTANTS MaxTaps  \* bound: taps on Start, and taps on Stop

VARIABLES
    server,    \* the field server: the start that recorded its listener, 0 for null
    bound,     \* the starts whose server socket is open
    starts,    \* where the coroutine of each startServiceWork is
    stops,     \* where the coroutine of each stopServiceWork is, and the listener it stops
    status,    \* ServiceStatusBus.state
    life       \* "alive", "ending" after stopSelf, "destroying", "destroyed"

androidVars == <<server, bound, starts, stops, status, life>>

Starts == 1 .. MaxTaps
Stops == 1 .. MaxTaps + 1  \* onDestroy calls stopServiceWork, too

AndroidInit ==
    /\ server = 0
    /\ bound = {}
    /\ starts = [i \in Starts |-> "none"]
    /\ stops = [j \in Stops |-> [pc |-> "none", of |-> 0]]
    /\ status = "stopped"
    /\ life = "alive"

stopSelf == life' = IF life = "alive" THEN "ending" ELSE life
-----------------------------------------------------------------------------
(* startServiceWork: ignored while a listener is recorded.                 *)
TapStart(i) ==
    /\ life \in {"alive", "ending"}
    /\ starts[i] = "none" /\ \A k \in 1 .. i - 1 : starts[k] # "none"
    /\ starts' = [starts EXCEPT ![i] = IF server = 0 THEN "launched" ELSE "done"]
    /\ status' = IF server = 0 THEN "starting" ELSE status
    /\ UNCHANGED <<server, bound, stops, life>>

(* The configuration is read and Socks5Server.start binds the port, which  *)
(* one socket can have at a time.                                          *)
StartBinds(i) ==
    /\ starts[i] = "launched"
    /\ life # "destroyed"
    /\ bound = {}
    /\ bound' = {i}
    /\ starts' = [starts EXCEPT ![i] = "bound"]
    /\ UNCHANGED <<server, stops, status, life>>

(* The start fails: the configuration is invalid, the port is taken, or    *)
(* the coroutine is cancelled after it has bound the port.                 *)
StartFails(i) ==
    /\ \/ starts[i] = "launched"
       \/ starts[i] = "bound" /\ life = "destroyed"
    /\ starts' = [starts EXCEPT ![i] = "done"]
    /\ status' = "error"
    /\ stopSelf
    /\ UNCHANGED <<server, bound, stops>>

(* Only now is the listener recorded.                                      *)
StartRecords(i) ==
    /\ starts[i] = "bound"
    /\ starts' = [starts EXCEPT ![i] = "done"]
    /\ server' = i
    /\ status' = "running"
    /\ UNCHANGED <<bound, stops, life>>
-----------------------------------------------------------------------------
(* stopServiceWork *)
Launch(j) ==
    /\ stops[j].pc = "none" /\ \A k \in 1 .. j - 1 : stops[k].pc # "none"
    /\ stops' = [stops EXCEPT ![j].pc = "launched"]
    /\ status' = "stopping"

TapStop(j) ==
    /\ life \in {"alive", "ending"}
    /\ j <= MaxTaps
    /\ Launch(j)
    /\ UNCHANGED <<server, bound, starts, life>>

(* server?.stop() closes the socket and waits for the accept loop.         *)
StopRuns(j) ==
    /\ stops[j].pc = "launched"
    /\ life # "destroyed"
    /\ bound' = bound \ {server}
    /\ stops' = [stops EXCEPT ![j] = [pc |-> "stopped", of |-> server]]
    /\ UNCHANGED <<server, starts, status, life>>

StopEnds(j) ==
    /\ stops[j].pc = "stopped"
    /\ stops' = [stops EXCEPT ![j].pc = "done"]
    /\ server' = 0
    /\ status' = "stopped"
    /\ stopSelf
    /\ UNCHANGED <<bound, starts>>

(* A coroutine that waits for the accept loop is cancelled.                *)
StopCancelled(j) ==
    /\ stops[j].pc = "stopped" /\ stops[j].of # 0
    /\ life = "destroyed"
    /\ stops' = [stops EXCEPT ![j].pc = "done"]
    /\ UNCHANGED <<server, bound, starts, status, life>>

(* onDestroy launches a last stop, then cancels the scope: a coroutine     *)
(* that has not begun by then never does.                                  *)
Destroy ==
    /\ life = "ending"
    /\ \E j \in Stops : Launch(j)
    /\ life' = "destroying"
    /\ UNCHANGED <<server, bound, starts>>

ScopeCancelled ==
    /\ life = "destroying"
    /\ life' = "destroyed"
    /\ starts' = [i \in Starts |-> IF starts[i] = "launched" THEN "done" ELSE starts[i]]
    /\ stops' = [j \in Stops |->
                   [stops[j] EXCEPT !.pc = IF @ = "launched" THEN "done" ELSE @]]
    /\ UNCHANGED <<server, bound, status>>

AndroidNext ==
    \/ \E i \in Starts : TapStart(i) \/ StartBinds(i) \/ StartFails(i) \/ StartRecords(i)
    \/ \E j \in Stops :
         TapStop(j) \/ StopRuns(j) \/ StopEnds(j) \/ StopCancelled(j)
    \/ Destroy
    \/ ScopeCancelled

AndroidSpec == AndroidInit /\ [][AndroidNext]_androidVars
-----------------------------------------------------------------------------
Quiet ==
    /\ life = "destroyed"
    /\ \A i \in Starts : starts[i] \in {"none", "done"}
    /\ \A j \in Stops : stops[j].pc \in {"none", "done"}

(* "Cleanly close server sockets, active sessions, S3 clients, and         *)
(* coroutines on stop" (ANDROID_PLAN.md:362): when the service is gone and *)
(* none of its coroutines is left, the port is free again, so that the     *)
(* next start can bind it.                                                 *)
PortReleased == Quiet => bound = {}
=============================================================================
