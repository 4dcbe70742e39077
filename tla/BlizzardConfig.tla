--------------------------- MODULE BlizzardConfig ---------------------------
(***************************************************************************)
(* The settings of the device and the way it gets onto a WiFi network:     *)
(* blizzard_nvs.c, blizzard_connection_manager.c, blizzard_wifi_manager.cpp *)
(* and the handlers of Blynk and Art-Net that change settings.  At boot    *)
(* every key is read from flash, or written with its default, and stored   *)
(* through its setter; then the portal runs or the network is joined.  The *)
(* power may fail between any two steps.                                   *)
(*                                                                         *)
(* A call is the list of the statements it still has to execute: a write   *)
(* to memory, to flash, a commit, a change of the interface, a restart.    *)
(* Keys that the code treats alike are one key here: MODE is INPUT_MODE    *)
(* and OUTPUT_MODE, IP is OWN_IP_ADDRESS and OWN_NETMASK, SLOTS stands for *)
(* the 16-bit values.                                                      *)
(***************************************************************************)
EXTENDS Integers, Sequences

CONSTANTS
  Clients,             \* tasks that change settings: Blynk, TCP/IP thread
  Entries,             \* what the portal's user enters: the name of a network with
                       \* its password ("right"), with a wrong one ("wrong"), with
                       \* one too long for PASS ("long"), an unknown name ("nowhere")
  Reasons,             \* reasons the WiFi stack gives for a refused password
  MaxCuts              \* bound: power failures

Keys  == {"DHCP", "NAME", "SSID", "PASS", "MODE", "IP", "SLOTS", "WIFI", "MAC", "GATEWAY"}

\* The order of populate_all_dmx_nvs_values.
LoadOrder == <<"DHCP", "NAME", "SSID", "PASS", "MODE", "IP", "SLOTS", "WIFI", "MAC", "GATEWAY">>

Tasks == {"main", "event"} \cup Clients

Absent == "absent"     \* the key is not in flash
Zero   == "zero"       \* memory that nothing was written to
Values == Entries \cup {Absent, Zero, "factory", "on", "off", "chosen", "lease"}

ASSUME ConfigAssumption ==
  /\ Entries \subseteq {"right", "wrong", "long", "nowhere"}
  /\ Clients \cap {"main", "event"} = {}
  /\ Reasons \subseteq {"AUTH_EXPIRE", "AUTH_FAIL"} /\ MaxCuts \in Nat

VARIABLES
  flash, durable,      \* what NVS returns, and what of it survives a power failure
  nvsUp,               \* nvs_flash_init and nvs_open succeeded
  ram,                 \* the settings in memory
  at,                  \* the loader's place
  phase,               \* of app_main and start_connection_manager
  todo,                \* per task: statements left of its call
  initDone,            \* INIT_DONE
  bit,                 \* CONNECTED_BIT
  link, event,         \* the station, and the event it has posted
  adapter,             \* address of the interface
  cuts                 \* power failures so far

bootVars == <<nvsUp, at, phase, initDone>>
netVars  == <<bit, link, event, adapter>>
vars     == <<flash, durable, ram, todo, bootVars, netVars, cuts>>

Statement == [do : {"ram", "set", "commit", "adapter", "restart"},
              key : Keys, val : Values]

TypeOK ==
  /\ {flash, durable} \subseteq [Keys -> Values \ {Zero, "lease"}]
  /\ ram \in [Keys -> Values \ {Absent}]
  /\ {nvsUp, initDone, bit} \subseteq BOOLEAN
  /\ adapter \in Values
  /\ at \in 1 .. Len(LoadOrder) + 1
  /\ phase \in {"load", "portal", "joining", "apply", "running"}
  /\ todo \in [Tasks -> Seq(Statement)]
  /\ link \in {"idle", "trying", "up"}
  /\ event \in {"none", "GOT_IP", "NO_AP_FOUND", "OTHER", "AUTH_EXPIRE", "AUTH_FAIL"}
  /\ cuts \in 0 .. MaxCuts

-----------------------------------------------------------------------------
(* Flash and setters.                                                      *)

Default(k) == IF k \in {"DHCP", "WIFI"} THEN "on" ELSE "factory"

St(do, k, v) == <<[do |-> do, key |-> k, val |-> v]>>
Restart      == St("restart", "WIFI", Zero)

\* update_u8_nvs_val, update_str_nvs_val, update_blob_nvs_val.
Update(k, v) == St("set", k, v) \o St("commit", k, v)

\* Fault: the setter of the DHCP flag does not store it.
Saved_some == {"NAME", "SSID", "PASS", "MODE", "WIFI"}

\* Keys whose setter writes memory and then flash.
Saved == {"DHCP", "NAME", "SSID", "PASS", "MODE", "WIFI"}

\* Names are short enough here; setSSID and setName refuse others, see SettingLengths.
Setter(k, v) ==
  CASE k \in Saved              -> St("ram", k, v) \o Update(k, v)
    [] k = "MAC"                -> Update(k, v) \o St("ram", k, v)
    [] k \in {"IP", "GATEWAY"} /\ initDone
                                -> St("adapter", k, v) \o Update(k, v) \o St("ram", k, v)
    [] OTHER                    -> St("ram", k, v)

Does(t, do) == todo[t] # << >> /\ Head(todo[t]).do = do
Rest(t)     == [todo EXCEPT ![t] = Tail(@)]
Now(t)      == Head(todo[t])

WriteRam(t) ==
  /\ Does(t, "ram")
  /\ ram' = [ram EXCEPT ![Now(t).key] = Now(t).val]
  /\ todo' = Rest(t)
  /\ UNCHANGED <<flash, durable, bootVars, netVars, cuts>>

\* Without a handle nvs_set returns an error, which is logged.
nvs_set(t) ==
  /\ Does(t, "set")
  /\ flash' = IF nvsUp THEN [flash EXCEPT ![Now(t).key] = Now(t).val] ELSE flash
  /\ todo' = Rest(t)
  /\ UNCHANGED <<durable, ram, bootVars, netVars, cuts>>

nvs_commit(t) ==
  /\ Does(t, "commit")
  /\ durable' = flash
  /\ todo' = Rest(t)
  /\ UNCHANGED <<flash, ram, bootVars, netVars, cuts>>

\* tcpip_adapter_set_ip_info, after dhcpc_stop.
SetAdapter(t) ==
  /\ Does(t, "adapter")
  /\ adapter' = Now(t).val
  /\ todo' = Rest(t)
  /\ UNCHANGED <<flash, durable, ram, bootVars, bit, link, event, cuts>>

\* Everything but flash is lost; main.c writes the default MAC, then loads.
Boot ==
  /\ ram' = [k \in Keys |-> Zero]
  /\ nvsUp' \in BOOLEAN
  /\ todo' = [t \in Tasks |-> IF t = "main" THEN Update("MAC", "factory") ELSE << >>]
  /\ at' = 1 /\ phase' = "load" /\ initDone' = FALSE
  /\ bit' = FALSE /\ link' = "idle" /\ event' = "none" /\ adapter' = Zero

esp_restart(t) ==
  /\ Does(t, "restart")
  /\ Boot
  /\ UNCHANGED <<flash, durable, cuts>>

\* What was set and not committed may be lost or not.
PowerFails ==
  /\ cuts < MaxCuts /\ cuts' = cuts + 1
  /\ \E S \in SUBSET {k \in Keys : flash[k] # durable[k]} :
       flash' = [k \in Keys |-> IF k \in S THEN flash[k] ELSE durable[k]]
  /\ durable' = flash'
  /\ Boot

Exec(t) == WriteRam(t) \/ nvs_set(t) \/ nvs_commit(t) \/ SetAdapter(t) \/ esp_restart(t)

\* A new device.
Init ==
  /\ flash = [k \in Keys |-> Absent] /\ durable = flash
  /\ ram = [k \in Keys |-> Zero] /\ nvsUp \in BOOLEAN
  /\ todo = [t \in Tasks |-> IF t = "main" THEN Update("MAC", "factory") ELSE << >>]
  /\ at = 1 /\ phase = "load" /\ initDone = FALSE
  /\ bit = FALSE /\ link = "idle" /\ event = "none" /\ adapter = Zero /\ cuts = 0

-----------------------------------------------------------------------------
(* Boot: populate_all_dmx_nvs_values and start_connection_manager.         *)

\* The gateway is stored with setMac.
Target(k) == IF k = "GATEWAY" THEN "MAC" ELSE k

Main(from, to) == phase = from /\ todo["main"] = << >> /\ phase' = to
Calls(t, ss)   == todo' = [todo EXCEPT ![t] = ss]

\* Fault: a key that is not there is not given its default.
NotFound_ignored(got) == FALSE

NotFound(got) == got = Absent

\* What a failed read leaves in the scratch buffers: buf8 still holds the default
\* MAC that main.c had written, buf16 nothing.
Scratch(k) == IF k = "SLOTS" THEN Zero ELSE "factory"

\* A key that is not found gets its default and is read again; after any other
\* error the setter gets what the buffer holds.  The length of a string is then
\* uninitialized, and the setter may refuse it.
Load ==
  /\ Main("load", "load") /\ at <= Len(LoadOrder)
  /\ LET k       == LoadOrder[at]
         got     == IF nvsUp THEN flash[k] ELSE Scratch(k)
         refused == ~nvsUp /\ k \in {"NAME", "SSID", "PASS"}
     IN  IF NotFound(got)
           THEN Calls("main", Update(k, Default(k))) /\ UNCHANGED at
           ELSE /\ \/ Calls("main", Setter(Target(k), got))
                   \/ refused /\ Calls("main", << >>)
                /\ at' = at + 1
  /\ UNCHANGED <<flash, durable, ram, nvsUp, initDone, netVars, cuts>>

\* start_wifi_manager, or start_blizzard_wifi up to its wait.
start_connection_manager ==
  /\ at > Len(LoadOrder)
  /\ IF ram["WIFI"] = "on"
       THEN Main("load", "portal") /\ UNCHANGED link
       ELSE Main("load", "joining") /\ link' = "trying"
  /\ UNCHANGED <<flash, durable, ram, todo, nvsUp, at, initDone, bit, event, adapter, cuts>>

setPass(e) == IF e = "long" THEN << >> ELSE Setter("PASS", e)

\* Fault: the portal is switched off before the credentials are stored.
PortalDone_early(e) == Setter("WIFI", "off") \o Setter("SSID", e) \o setPass(e) \o Restart

PortalDone(e) == Setter("SSID", e) \o setPass(e) \o Setter("WIFI", "off") \o Restart

start_wifi_manager ==
  /\ Main("portal", "portal")
  /\ Calls("main", Restart) \/ \E e \in Entries : Calls("main", PortalDone(e))
  /\ UNCHANGED <<flash, durable, ram, nvsUp, at, initDone, netVars, cuts>>

\* The wait for CONNECTED_BIT is over: the static address is set.
start_blizzard_wifi ==
  /\ Main("joining", "apply") /\ bit
  /\ Calls("main", IF ram["DHCP"] = "off"
                     THEN Setter("IP", ram["IP"]) \o Setter("GATEWAY", ram["GATEWAY"])
                     ELSE << >>)
  /\ UNCHANGED <<flash, durable, ram, nvsUp, at, initDone, netVars, cuts>>

init_done ==
  /\ Main("apply", "running")
  /\ initDone' = TRUE
  /\ UNCHANGED <<flash, durable, ram, todo, nvsUp, at, netVars, cuts>>

MainStep == \/ Load \/ start_connection_manager \/ start_wifi_manager
            \/ start_blizzard_wifi \/ init_done

-----------------------------------------------------------------------------
(* The WiFi stack, and blizzard_event_handler.                             *)

Known    == ram["SSID"] \in {"right", "wrong", "long"}
Accepted == Known /\ ram["SSID"] # "long" /\ ram["PASS"] = "right"

Post(e, l) == event = "none" /\ event' = e /\ link' = l
              /\ UNCHANGED <<flash, durable, ram, todo, bootVars, bit, cuts>>

\* The DHCP client gives the interface its address, unless it was stopped.
Joined  == /\ link = "trying" /\ Accepted /\ Post("GOT_IP", "up")
           /\ adapter' = IF adapter = Zero THEN "lease" ELSE adapter
Refused == /\ link = "trying" /\ ~Accepted
           /\ \E r \in (IF Known THEN Reasons ELSE {"NO_AP_FOUND"}) : Post(r, "idle")
           /\ UNCHANGED adapter
Dropped == /\ link # "idle"
           /\ \E r \in {"OTHER", "NO_AP_FOUND"} : Post(r, "idle")
           /\ UNCHANGED adapter

Handler(e) == event = e /\ todo["event"] = << >> /\ event' = "none"

on_got_ip ==
  /\ Handler("GOT_IP")
  /\ bit' = TRUE
  /\ UNCHANGED <<flash, durable, ram, todo, bootVars, link, adapter, cuts>>

\* Fault: the flag that opens the portal is not set.
GiveUp_unflagged(e) == Restart

\* After AUTH_FAIL nothing is done.
GiveUp(e) == IF e = "AUTH_FAIL" THEN << >> ELSE Setter("WIFI", "on") \o Restart

on_give_up ==
  /\ \E e \in {"AUTH_EXPIRE", "AUTH_FAIL", "NO_AP_FOUND"} :
       Handler(e) /\ Calls("event", GiveUp(e))
  /\ UNCHANGED <<flash, durable, ram, bootVars, bit, link, adapter, cuts>>

on_disconnected ==
  /\ Handler("OTHER")
  /\ link' = "trying" /\ bit' = FALSE
  /\ UNCHANGED <<flash, durable, ram, todo, bootVars, adapter, cuts>>

EventStep == on_got_ip \/ on_give_up \/ on_disconnected

-----------------------------------------------------------------------------
(* Settings changed by the Blynk panel and by Art-Net.                     *)

\* V17; V24 and "setdhcp"; V9 and V10; "setip", ArtIpProg; ArtAddress; "setname",
\* which changes flash only.
Change ==
  {Setter("WIFI", "on"), Setter("DHCP", "on"), Setter("DHCP", "off"),
   Setter("IP", "chosen") \o Setter("DHCP", "off"), Setter("NAME", "chosen"),
   Update("NAME", "chosen")} \cup {Setter("MODE", v) : v \in {"factory", "chosen"}}

client_call(c) ==
  /\ phase = "running" /\ todo[c] = << >>
  /\ \E ss \in Change : Calls(c, ss)
  /\ UNCHANGED <<flash, durable, ram, bootVars, netVars, cuts>>

\* An Art-Net reply asks getIP, which keeps the address of the interface.
getIP(c) ==
  /\ phase = "running" /\ todo[c] = << >>
  /\ ram["DHCP"] # "off" /\ ram' = [ram EXCEPT !["IP"] = adapter]
  /\ UNCHANGED <<flash, durable, todo, bootVars, netVars, cuts>>

Next == \/ MainStep \/ EventStep \/ Joined \/ Refused \/ Dropped \/ PowerFails
        \/ \E t \in Tasks : Exec(t)
        \/ \E c \in Clients : client_call(c) \/ getIP(c)

Spec == Init /\ [][Next]_vars

\* Tasks run, events are handled, and an attempt that is repeated again and again
\* is at last accepted or refused for what was entered.
Fairness == /\ WF_vars(MainStep) /\ WF_vars(EventStep)
            /\ SF_vars(Joined) /\ SF_vars(Refused)
            /\ \A t \in Tasks : WF_vars(Exec(t))

FairSpec == Spec /\ Fairness

-----------------------------------------------------------------------------
(* Properties.                                                             *)

\* Whenever the power fails, a device that will not open its portal has a name
\* and a password that were entered together.
PairedCredentials == durable["WIFI"] = "off" => durable["SSID"] = durable["PASS"]

Quiet == phase = "running" /\ nvsUp /\ \A t \in Tasks : todo[t] = << >>

\* With one task that changes settings, a call that has returned is remembered:
\* memory, flash and what survives a power failure agree.
Remembered ==
  Quiet => \A k \in {"DHCP", "SSID", "PASS", "MODE", "WIFI"} :
             ram[k] = flash[k] /\ flash[k] = durable[k]

\* After AUTH_FAIL nothing is done: the flag stays, the station is idle, and
\* app_main waits for CONNECTED_BIT.
Abandoned == phase = "joining" /\ link = "idle" /\ event = "none"
             /\ todo["event"] = << >> /\ ~bit

\* The device is on the network or offers its portal, again and again, whatever
\* was entered there and whenever the power failed ("password is bad - wifi
\* manager", "ssid wrong - wifi manager"), but for a refusal with AUTH_FAIL.
Settles == []<>(phase = "portal" \/ link = "up" \/ ~nvsUp \/ Abandoned)

=============================================================================
