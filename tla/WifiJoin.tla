------------------------------ MODULE WifiJoin ------------------------------
(***************************************************************************)
(* How a Duta with the ESP-IDF WiFi backend gets onto a network            *)
(* (platforms/espressif/src/duta_wifi_idf.h): the state that CFG_GET 0x12  *)
(* reports, the driver's event handler, the loop of bridge_task that turns *)
(* wifi_state, and CFG_SET, which usb_rx_task or bridge_task runs.  The    *)
(* three tasks share wifi_state and wifi_got_ip without a lock, so         *)
(* wifi_join, portal_start and "forget" are two steps each: what they ask  *)
(* of the driver, and what they write afterwards.  A turn of the loop is   *)
(* two as well: what it sees, and what it writes, whatever the others have *)
(* written since.                                                          *)
(*                                                                         *)
(* The network is "home"; with the password "good" it can be joined while  *)
(* it is on the air.                                                       *)
(***************************************************************************)
EXTENDS Naturals, Sequences

CONSTANTS
  MaxCfg,      \* bound: CFG_SET commands
  MaxOutages,  \* bound: times the network goes off the air
  MaxBoots     \* bound: restarts

ASSUME JoinAssumption == MaxCfg \in Nat /\ MaxOutages \in Nat /\ MaxBoots \in Nat

VARIABLES
  state,     \* wifi_state
  gotIp,     \* wifi_got_ip
  creds,     \* wifi_ssid and wifi_pass
  saved,     \* the same in NVS
  wifiMode,  \* the mode the driver runs in
  sta,       \* the station: "idle", "trying" or "up"
  conf,      \* the credentials in the driver's configuration
  queue,     \* events posted and not yet handled
  doing,     \* for each task, the operation it is in the middle of
  http,      \* portal_http: none, listening, or a socket whose listen() failed
  air,       \* the network is on the air
  cfgs, outages, boots,
  portals,   \* history: portals raised since the boot
  overlap,   \* history: a task asked the driver for something while the other
             \* was between such a request and the state it writes
  crossed    \* history: a CFG_SET began in a turn of the loop that is about to
             \* write wifi_state, or such a turn began in a CFG_SET

memVars    == <<creds, saved>>
driverVars == <<wifiMode, sta, conf>>
histVars   == <<portals, overlap, crossed>>
bounds     == <<cfgs, outages, boots>>
joinVars   == <<state, gotIp, memVars, driverVars, queue, doing, http, air, bounds,
                histVars>>

Tasks  == {"usb", "bridge"}
Ssids  == {"none", "home"}
Keys   == {"good", "bad"}
Creds  == [ssid : Ssids, key : Keys]
States == {"off", "connecting", "connected", "portal", "failed"}
Events == {"start", "disc", "ip"}
Doings == {"idle", "join", "forget", "portal", "joined", "late", "dropped", "ws",
           "page"}

-----------------------------------------------------------------------------
(* The WiFi driver                                                         *)

\* esp_wifi_stop, or esp_wifi_disconnect: a station that was up is reported as
\* disconnected, one that was trying perhaps.
StaLeave(q) == \/ sta # "idle" /\ q = Append(queue, "disc")
               \/ sta # "up" /\ q = queue

\* esp_wifi_connect
StaConnect == sta' = IF wifiMode \in {"sta", "apsta"} /\ sta = "idle" THEN "trying" ELSE sta

Unshared == UNCHANGED <<state, gotIp, memVars, doing, http, bounds, histVars>>

\* An attempt ends, or the network is lost.
Associate ==
  /\ sta = "trying" /\ air /\ conf = [ssid |-> "home", key |-> "good"]
  /\ sta' = "up" /\ queue' = Append(queue, "ip")
  /\ UNCHANGED <<wifiMode, conf, air>> /\ Unshared

Fail ==
  /\ \/ sta = "trying" /\ ~(air /\ conf = [ssid |-> "home", key |-> "good"])
     \/ sta = "up" /\ ~air
  /\ sta' = "idle" /\ queue' = Append(queue, "disc")
  /\ UNCHANGED <<wifiMode, conf, air>> /\ Unshared

Outage ==
  /\ air /\ outages < MaxOutages
  /\ air' = FALSE /\ outages' = outages + 1
  /\ UNCHANGED <<state, gotIp, memVars, driverVars, queue, doing, http, cfgs, boots,
                 histVars>>

Back == ~air /\ air' = TRUE /\ UNCHANGED <<driverVars, queue>> /\ Unshared

-----------------------------------------------------------------------------
(* wifi_evt, in the task of the event loop                                 *)

Event(e) == queue # <<>> /\ Head(queue) = e /\ queue' = Tail(queue)

OnStart == /\ Event("start") /\ StaConnect
           /\ UNCHANGED <<wifiMode, conf, air>> /\ Unshared

\* Mutant: the flag is not cleared.
OnDiscKeeps ==
  /\ Event("disc")
  /\ IF state = "connected" THEN StaConnect ELSE UNCHANGED sta
  /\ UNCHANGED <<wifiMode, conf, air>> /\ Unshared

\* A disconnect is followed by a new attempt only when the state is connected.
OnDisc ==
  /\ Event("disc")
  /\ gotIp' = FALSE
  /\ IF state = "connected" THEN StaConnect ELSE UNCHANGED sta
  /\ UNCHANGED <<state, memVars, wifiMode, conf, doing, http, air, bounds, histVars>>

OnIp ==
  /\ Event("ip")
  /\ gotIp' = TRUE
  /\ UNCHANGED <<state, memVars, driverVars, doing, http, air, bounds, histVars>>

-----------------------------------------------------------------------------
(* wifi_join, portal_start, and the start of the program                   *)

Doing(t, step) == doing' = [doing EXCEPT ![t] = step]

\* Commands reach bridge_task inside ws_pump, and it goes back there.
Between(t) == IF t = "bridge" THEN "ws" ELSE "idle"

\* What makes a turn of the loop write the state.
Seen == {"joined", "late", "dropped"}

\* The task has asked the driver for a change, or is about to write the state.
Requested(t) == doing[t] \in {"join", "forget", "portal"}
Changing(t)  == Requested(t) \/ doing[t] \in Seen

\* The driver is stopped, configured with the credentials c and started.
JoinDriver(c) ==
  /\ \E q \in {queue, Append(queue, "disc")} :
       StaLeave(q) /\ queue' = Append(q, "start")
  /\ wifiMode' = "sta" /\ sta' = "idle" /\ conf' = c

JoinState(t) ==
  /\ doing[t] = "join" /\ Doing(t, Between(t))
  /\ gotIp' = FALSE /\ state' = "connecting"
  /\ UNCHANGED <<memVars, driverVars, queue, http, air, bounds, histVars>>

\* Mutant: the access point has no page.
PortalUpOnly ==
  /\ doing["bridge"] = "portal" /\ Doing("bridge", "idle")
  /\ state' = "portal"
  /\ UNCHANGED <<gotIp, memVars, driverVars, queue, http, air, bounds, histVars>>

\* The page's socket: portal_start never closes the one of a portal before, whose
\* port is then taken.
Listen == http' = IF http = "none" THEN "listening" ELSE "failed"

PortalUp ==
  /\ doing["bridge"] = "portal" /\ Doing("bridge", "idle")
  /\ Listen /\ state' = "portal"
  /\ UNCHANGED <<gotIp, memVars, driverVars, queue, air, bounds, histVars>>

\* duta_wifi_init with the stored credentials c, before the tasks run.
Booted(c) ==
  IF c.ssid = "none"
  THEN /\ state' = "portal" /\ wifiMode' = "ap" /\ http' = "listening" /\ queue' = <<>>
       /\ portals' = 1
  ELSE /\ state' = "connecting" /\ wifiMode' = "sta" /\ http' = "none"
       /\ queue' = <<"start">> /\ portals' = 0

JoinInit ==
  /\ creds \in Creds /\ saved = creds
  /\ gotIp = FALSE /\ sta = "idle" /\ conf = creds
  /\ doing = [t \in Tasks |-> "idle"] /\ air = TRUE
  /\ cfgs = 0 /\ outages = 0 /\ boots = 0 /\ overlap = FALSE /\ crossed = FALSE
  /\ IF creds.ssid = "none"
     THEN /\ state = "portal" /\ wifiMode = "ap" /\ http = "listening"
          /\ queue = <<>> /\ portals = 1
     ELSE /\ state = "connecting" /\ wifiMode = "sta" /\ http = "none"
          /\ queue = <<"start">> /\ portals = 0

\* A restart: what is in RAM is lost, the credentials are those in NVS.
Restart(c) ==
  /\ boots < MaxBoots /\ boots' = boots + 1
  /\ Booted(c) /\ creds' = c
  /\ gotIp' = FALSE /\ sta' = "idle" /\ conf' = c
  /\ doing' = [t \in Tasks |-> "idle"] /\ overlap' = FALSE /\ crossed' = FALSE
  /\ UNCHANGED <<air, cfgs, outages>>

PowerLoss == Restart(saved) /\ UNCHANGED saved

-----------------------------------------------------------------------------
(* duta_wifi_loop, in bridge_task                                          *)

\* A turn begins: what it sees in the state st decides what it will do.
Turn(st, seen) ==
  /\ doing["bridge"] = "idle" /\ state = st
  /\ Doing("bridge", seen)
  /\ crossed' = (crossed \/ (seen \in Seen /\ Changing("usb")))
  /\ UNCHANGED <<state, gotIp, memVars, driverVars, queue, http, air, bounds, portals,
                 overlap>>

SeesAddress   == gotIp /\ Turn("connecting", "joined")
SeesTimeout   == ~gotIp /\ Turn("connecting", "late")
SeesLoss      == ~gotIp /\ Turn("connected", "dropped")
ServesSession == gotIp /\ Turn("connected", "ws")
ServesPage    == Turn("portal", "page")

\* It ends with what it saw, without another look at the state.
Ends(seen) == doing["bridge"] = seen /\ Doing("bridge", "idle")

LoopServed ==
  /\ Ends("ws") \/ Ends("page")
  /\ UNCHANGED <<state, gotIp, memVars, driverVars, queue, http, air, bounds, histVars>>

LoopJoined ==
  /\ Ends("joined")
  /\ state' = "connected"
  /\ UNCHANGED <<gotIp, memVars, driverVars, queue, http, air, bounds, histVars>>

\* Mutant: the failure is reported, and that is all.
LoopTimeoutOnly ==
  /\ Ends("late")
  /\ state' = "failed"
  /\ UNCHANGED <<gotIp, memVars, driverVars, queue, http, air, bounds, histVars>>

\* 20 s without an address: the first half of portal_start.
LoopTimeout ==
  /\ doing["bridge"] = "late" /\ Doing("bridge", "portal")
  /\ state' = "failed"
  /\ StaLeave(queue') /\ wifiMode' = "ap" /\ sta' = "idle"
  /\ portals' = portals + 1
  /\ overlap' = (overlap \/ Requested("usb"))
  /\ UNCHANGED <<gotIp, memVars, conf, http, air, bounds, crossed>>

\* The network is gone: the session is dropped and the 20 s start again.
LoopDropped ==
  /\ Ends("dropped")
  /\ state' = "connecting"
  /\ UNCHANGED <<gotIp, memVars, driverVars, queue, http, air, bounds, histVars>>

\* portal_pump: somebody saves credentials on the page, and the device restarts.
PortalSave(c) ==
  /\ doing["bridge"] = "page" /\ http = "listening" /\ wifiMode \in {"ap", "apsta"}
  /\ saved' \in {c, saved}
  /\ Restart(saved')

-----------------------------------------------------------------------------
(* CFG_SET                                                                 *)

\* usb_rx_task runs commands at any time, bridge_task those of a WebSocket
\* session, in a turn that saw the state connected.
MayRun(t) == /\ cfgs < MaxCfg /\ cfgs' = cfgs + 1
             /\ doing[t] = Between(t)
             /\ overlap' = (overlap \/ \E u \in Tasks : Requested(u))
             /\ crossed' = (crossed \/ \E u \in Tasks : Changing(u))
             /\ UNCHANGED <<state, gotIp, http, air, outages, boots, portals>>

\* wifi_save_creds: a failure of NVS is not looked at.
Save(c) == saved' \in {c, saved}

Join(t, c) == JoinDriver(c) /\ Doing(t, "join")

SetSsid(t, s) ==
  /\ MayRun(t)
  /\ creds' = [creds EXCEPT !.ssid = s] /\ Save(creds')
  /\ \/ s # "none" /\ Join(t, creds')
     \/ s = "none" /\ StaLeave(queue') /\ sta' = "idle" /\ Doing(t, "forget")
        /\ UNCHANGED <<wifiMode, conf>>

Forget(t) ==
  /\ doing[t] = "forget" /\ Doing(t, Between(t))
  /\ state' = "off"
  /\ UNCHANGED <<gotIp, memVars, driverVars, queue, http, air, bounds, histVars>>

SetKey(t, k) ==
  /\ MayRun(t)
  /\ creds' = [creds EXCEPT !.key = k] /\ Save(creds')
  /\ IF creds.ssid # "none" THEN Join(t, creds')
                            ELSE UNCHANGED <<doing, queue, driverVars>>

\* A scan needs the station: an access point becomes both.
Scan(t) ==
  /\ MayRun(t)
  /\ IF wifiMode = "ap" THEN wifiMode' = "apsta" /\ queue' = Append(queue, "start")
                    ELSE UNCHANGED <<wifiMode, queue>>
  /\ UNCHANGED <<memVars, sta, conf, doing>>

Driver == Associate \/ Fail
Handle == OnStart \/ OnDisc \/ OnIp
Sees   == SeesAddress \/ SeesTimeout \/ SeesLoss \/ ServesSession \/ ServesPage
Bridge == Sees \/ LoopServed \/ LoopJoined \/ LoopTimeout \/ LoopDropped \/ PortalUp
Finish(t) == JoinState(t) \/ Forget(t)
Config(t) == \/ \E s \in Ssids : SetSsid(t, s)
             \/ \E k \in Keys : SetKey(t, k)
             \/ Scan(t)

JoinNext == \/ Driver \/ Outage \/ Back \/ Handle \/ Bridge \/ PowerLoss
            \/ \E k \in Keys : PortalSave([ssid |-> "home", key |-> k])
            \/ \E t \in Tasks : Config(t) \/ Finish(t)

JoinSpec == JoinInit /\ [][JoinNext]_joinVars

\* Every task gets to run, and the driver ends what it began.
JoinLiveSpec == /\ JoinSpec /\ WF_joinVars(Driver) /\ WF_joinVars(Handle) /\ WF_joinVars(Bridge)
                /\ \A t \in Tasks : WF_joinVars(Finish(t))

-----------------------------------------------------------------------------
(* Properties                                                              *)

JoinTypeOK ==
  /\ state \in States /\ gotIp \in BOOLEAN
  /\ creds \in Creds /\ saved \in Creds /\ conf \in Creds
  /\ wifiMode \in {"sta", "ap", "apsta"} /\ sta \in {"idle", "trying", "up"}
  /\ queue \in Seq(Events)
  /\ doing \in [Tasks -> Doings]
  /\ http \in {"none", "listening", "failed"} /\ air \in BOOLEAN
  /\ portals \in Nat /\ overlap \in BOOLEAN /\ crossed \in BOOLEAN

\* Nothing is half done and no event waits.
Quiet == queue = <<>> /\ \A t \in Tasks : ~Changing(t)

\* CFG_GET 0x12 "connected" is true: whatever order events, the loop and
\* commands take, once they are through the station is up, or its loss is about
\* to be noticed, on the network that was configured last.  (A turn of the loop and
\* a CFG_SET that cut each other can leave a state that says otherwise: the loop
\* writes what it saw over what the command wrote.)
ConnectedIsReal == (Quiet /\ state = "connected" /\ gotIp /\ ~crossed) =>
                      sta = "up" /\ conf = creds

\* PROTOCOL.md: "While the portal is up, CFG_GET 0x12 reports state 3".  State 3
\* in turn means a portal that can be used: the access point is on and somebody
\* reads the page's socket.  That is so for the first portal after a boot that no
\* CFG_SET gets in the way of.
Served == wifiMode \in {"ap", "apsta"} /\ http = "listening"
PortalAlive == (Quiet /\ state = "portal" /\ portals = 1 /\ ~crossed) => Served

\* What CFG_GET 0x12 reports is so.
StateIsReal == JoinTypeOK /\ ConnectedIsReal /\ PortalAlive

\* PROTOCOL.md: "Setting an empty SSID forgets the network", and with CFG_SET 0x10
\* that is done a device at rest is on no network.  The code does not keep this:
\* the event of its own esp_wifi_disconnect makes wifi_evt connect again when it
\* comes before the state is OFF.
Forgotten == (Quiet /\ creds.ssid = "none") => sta # "up"

\* The device comes back into reach by itself, on its network or by its portal,
\* after every command, outage and restart: it is not left trying, or failed,
\* for ever, whatever a turn of the loop overwrites.
InReach == (state = "connected" /\ sta = "up") \/ (state = "portal" /\ Served)
Reachable == (state # "off") ~> (InReach \/ state = "off" \/ portals > 1 \/ overlap)

=============================================================================
