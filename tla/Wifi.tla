-------------------------------- MODULE Wifi --------------------------------
(***************************************************************************)
(* The Wi-Fi station: the boot task starts it and waits a bounded time,    *)
(* the event task handles what the driver reports and asks it to connect   *)
(* again.  Where the host firmware owns the station (adopt mode), the      *)
(* agent only observes it.                                                 *)
(*                                                                         *)
(* External: the driver tries to join when it is asked to, and reports     *)
(* what happens through a queue of events.  In adopt mode the host asks.   *)
(***************************************************************************)
EXTENDS Naturals, Sequences

CONSTANTS
  MaxAttempts,  \* kMaxAttempts
  MaxEvents     \* bound of the model: events not yet handled

ASSUME WifiAssumption == MaxAttempts \in Nat /\ MaxEvents \in Nat \ {0}

VARIABLES
  adopt,      \* CONFIG_MICROFI_WIFI_ADOPT_EXISTING
  station,    \* where wifi_start_and_wait is
  bits,       \* s_wifi_events
  attempts,   \* s_attempts, while no address was ever received
  connected,  \* s_connected
  ever,       \* s_ever_connected
  link,       \* what the driver is doing
  events,     \* what it has reported
  ap          \* whether the access point answers

driverVars == <<link, events>>
flagVars   == <<bits, attempts, connected, ever>>
wifiVars   == <<adopt, station, flagVars, driverVars, ap>>

WifiInit ==
  /\ adopt \in BOOLEAN
  /\ station = "start" /\ bits = {} /\ attempts = 0
  /\ connected = FALSE /\ ever = FALSE
  /\ link = "off" /\ events = <<>> /\ ap = TRUE

----------------------------------------------------------------------------
(* The boot task, in wifi_start_and_wait.                                  *)

StartStation ==
  /\ station = "start" /\ ~adopt /\ Len(events) < MaxEvents
  /\ events' = Append(events, "start")
  /\ station' = "wait"
  /\ UNCHANGED <<adopt, flagVars, link, ap>>

(* The handlers are registered, then the address is read ...               *)
AdoptStation ==
  /\ station = "start" /\ adopt
  /\ station' = IF link = "up" THEN "found" ELSE "wait"
  /\ UNCHANGED <<adopt, flagVars, driverVars, ap>>

(* ... and, an event later perhaps, the flags are set.                     *)
AdoptFound ==
  /\ station = "found"
  /\ connected' = TRUE /\ ever' = TRUE
  /\ station' = "ok"
  /\ UNCHANGED <<adopt, bits, attempts, driverVars, ap>>

(* The wait ends with an address, after the last attempt, or in time.      *)
WaitEnds ==
  /\ station = "wait"
  /\ \/ "ip" \in bits /\ station' = "ok"
     \/ "ip" \notin bits /\ station' = "error"
  /\ UNCHANGED <<adopt, flagVars, driverVars, ap>>

----------------------------------------------------------------------------
(* The driver.                                                             *)

Reports(e) == Len(events) < MaxEvents /\ events' = Append(events, e)

Joins ==
  /\ link = "trying" /\ ap
  /\ link' = "joined"
  /\ UNCHANGED <<adopt, station, flagVars, events, ap>>

JoinFails ==
  /\ link = "trying"
  /\ Reports("disconnected") /\ link' = "off"
  /\ UNCHANGED <<adopt, station, flagVars, ap>>

GetsAddress ==
  /\ link = "joined"
  /\ Reports("ip") /\ link' = "up"
  /\ UNCHANGED <<adopt, station, flagVars, ap>>

LinkLost ==
  /\ link \in {"joined", "up"}
  /\ Reports("disconnected") /\ link' = "off"
  /\ UNCHANGED <<adopt, station, flagVars, ap>>

HostConnects ==
  /\ adopt /\ link = "off"
  /\ link' = "trying"
  /\ UNCHANGED <<adopt, station, flagVars, events, ap>>

(* The access point goes, or comes back.                                   *)
ApChanges == ap' = ~ap /\ UNCHANGED <<adopt, station, flagVars, driverVars>>

----------------------------------------------------------------------------
(* The event task, in on_event and on_adopt_event.                         *)

Handles(e) == events # <<>> /\ Head(events) = e /\ events' = Tail(events)

(* esp_wifi_connect, which does nothing while the station is connecting.   *)
AskToConnect == link' = IF link = "off" THEN "trying" ELSE link

HandleStart ==
  /\ Handles("start") /\ AskToConnect
  /\ UNCHANGED <<adopt, station, flagVars, ap>>

(* Mutant: the flag stays as it is.                                        *)
HandleDisconnectedKeepsFlag ==
  /\ ~adopt /\ Handles("disconnected")
  /\ UNCHANGED connected
  /\ \/ ever /\ AskToConnect /\ UNCHANGED <<bits, attempts>>
     \/ ~ever /\ attempts < MaxAttempts /\ attempts' = attempts + 1
        /\ AskToConnect /\ UNCHANGED bits
     \/ ~ever /\ attempts >= MaxAttempts /\ bits' = bits \union {"fail"}
        /\ UNCHANGED <<attempts, link>>
  /\ UNCHANGED <<adopt, station, ever, ap>>

(* Mutant: attempts are limited after the first address too.               *)
HandleDisconnectedCapped ==
  /\ ~adopt /\ Handles("disconnected")
  /\ connected' = FALSE
  /\ \/ attempts < MaxAttempts /\ attempts' = attempts + 1
        /\ AskToConnect /\ UNCHANGED bits
     \/ attempts >= MaxAttempts /\ bits' = bits \union {"fail"}
        /\ UNCHANGED <<attempts, link>>
  /\ UNCHANGED <<adopt, station, ever, ap>>

(* Before the first address a limited number of attempts is made, after it *)
(* there is no limit.                                                      *)
HandleDisconnected ==
  /\ ~adopt /\ Handles("disconnected")
  /\ connected' = FALSE
  /\ \/ ever /\ AskToConnect /\ UNCHANGED <<bits, attempts>>
     \/ ~ever /\ attempts < MaxAttempts /\ attempts' = attempts + 1
        /\ AskToConnect /\ UNCHANGED bits
     \/ ~ever /\ attempts >= MaxAttempts /\ bits' = bits \union {"fail"}
        /\ UNCHANGED <<attempts, link>>
  /\ UNCHANGED <<adopt, station, ever, ap>>

HandleAdoptedDisconnected ==
  /\ adopt /\ Handles("disconnected")
  /\ connected' = FALSE
  /\ UNCHANGED <<adopt, station, bits, attempts, ever, link, ap>>

(* Events before the agent has registered its handlers are the host's.     *)
HandleAddress ==
  /\ Handles("ip")
  /\ IF adopt /\ station = "start" THEN UNCHANGED flagVars
     ELSE /\ attempts' = 0 /\ connected' = TRUE /\ ever' = TRUE
          /\ bits' = bits \union {"ip"}
  /\ UNCHANGED <<adopt, station, link, ap>>

EventTask ==
  \/ HandleStart \/ HandleDisconnected \/ HandleAdoptedDisconnected
  \/ HandleAddress

StationBoots == StartStation \/ AdoptStation \/ AdoptFound \/ WaitEnds

WifiNext ==
  \/ StationBoots \/ EventTask
  \/ Joins \/ JoinFails \/ GetsAddress \/ LinkLost \/ HostConnects \/ ApChanges

WifiSpec == WifiInit /\ [][WifiNext]_wifiVars

----------------------------------------------------------------------------
WifiTypeOK ==
  /\ {adopt, connected, ever, ap} \subseteq BOOLEAN
  /\ station \in {"start", "found", "wait", "ok", "error"}
  /\ bits \subseteq {"ip", "fail"}
  /\ attempts \in 0 .. MaxAttempts
  /\ link \in {"off", "trying", "joined", "up"}
  /\ events \in Seq({"start", "disconnected", "ip"})
  /\ Len(events) <= MaxEvents

(* wifi_connected, once every event is handled, tells the state of the     *)
(* link, through losses in any phase of a connection.  In adopt mode that  *)
(* is not so: the boot task sets the flag after a read that the event task *)
(* may have overtaken.                                                     *)
ConnectedIsTrue ==
  ~adopt /\ events = <<>> => (connected <=> link = "up")

(* Once the station has had an address and while the access point answers, *)
(* a link that was lost comes back: no loss, however many, is the last one *)
(* the handler reacts to.                                                  *)
LinkComesBack == <>[]ap => [](ever => <>connected)
=============================================================================
