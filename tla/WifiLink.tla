------------------------------ MODULE WifiLink ------------------------------
(***************************************************************************)
(* How a device gets onto its network and back onto it (Net/Wifi): the     *)
(* association at boot, the setup portal, a change of network or address   *)
(* from the web page with the backups that undo it, outages and offline    *)
(* builds.                                                                 *)
(*                                                                         *)
(* A credential is one network with one password, an address is DHCP or a  *)
(* static one, and Reaches says with which addresses a network carries     *)
(* traffic: association alone does not.  Time is in minutes.  Associating  *)
(* takes less than one, unless it fails.                                   *)
(*                                                                         *)
(* What is kept is written one store at a time, and the power may go       *)
(* between any two: a handler that makes several leaves in writes those it *)
(* still has to make, and nothing else of the loop task runs meanwhile.    *)
(***************************************************************************)
EXTENDS Sequences, Integers

CONSTANTS
  Creds,         \* what the user may enter
  None,          \* no credentials, or no backup
  Torn,          \* a backup that was opened and not yet written
  Addresses, Dhcp,
  Networks,      \* the credentials of networks that exist, which come and go
  Reaches,       \* <<network, address>> that carry traffic
  Uses,          \* the builds and what their users enter, see UseRecord
  StableAfter,   \* 300000 ms
  PortalRetry,   \* PORTAL_RETRY_MS
  DownMax,       \* WIFI_DOWN_MAX_S
  Late           \* bound: the minutes that end while a restart is pending

\* one build with one user: APP_OFFLINE_OK, what is saved on /network, with
\* the name left blank or not, and the credentials entered in the setup
\* portal and sent by the installer
Forms == [blank : BOOLEAN, cred : Creds \cup {None}, address : Addresses]
UseRecord == [offline_ok : BOOLEAN, forms : SUBSET Forms,
              portal : SUBSET Creds, improv : SUBSET Creds]

\* what the constants are: of credentials and addresses, and of minutes
LinkAssumption ==
  /\ {None, Torn} \cap (Creds \cup Addresses) = {} /\ None # Torn /\ Dhcp \in Addresses
  /\ Networks \subseteq Creds /\ Reaches \subseteq Networks \X Addresses
  /\ Uses \subseteq UseRecord
TimeAssumption ==
  /\ StableAfter \in Nat /\ PortalRetry \in Nat /\ DownMax \in Nat /\ Late \in Nat
  /\ StableAfter < DownMax

VARIABLES
  sdk,           \* the credentials the SDK keeps
  wifi_backup,   \* /wifi_backup
  net,           \* the net group of the preferences
  net_backup,    \* /net_backup
  writes,        \* the stores the handler that runs still has to make
  use,           \* the build and its user
  air,           \* the networks in range
  pc,            \* what the loop task is doing
  link,          \* the network the device is associated with
  address,       \* the address of this boot
  disabled, offline_forced,
  up, down, idle,  \* minutes up, minutes without the link, and of the portal
  grace_done,    \* backup_grace_done
  held,          \* s_creds
  save_creds, erase_creds, factory_reset,  \* the pending flags of WebPortal
  restart        \* minutes a pending restart may still take

disk == <<sdk, wifi_backup, net, net_backup, writes>>
clocks == <<up, down, idle>>
flags == <<save_creds, erase_creds, factory_reset>>
mode == <<disabled, offline_forced, grace_done>>
ram == <<address, mode, clocks, held, flags, restart>>
vars == <<disk, use, air, pc, link, ram>>

NoRestart == -1
Connected == link # None
LongUp == DownMax + 1

\* a minute later, as far as the code tells
Later(minutes) == IF minutes < LongUp THEN minutes + 1 ELSE minutes

\* RAM of a chip that was reset
Cold ==
  /\ link' = None /\ address' = Dhcp
  /\ disabled' = FALSE /\ offline_forced' = FALSE /\ grace_done' = FALSE
  /\ up' = 0 /\ down' = 0 /\ idle' = 0
  /\ held' = None /\ save_creds' = FALSE /\ erase_creds' = FALSE
  /\ factory_reset' = FALSE /\ restart' = NoRestart

SafeRestart == pc' = "off" /\ Cold

----------------------------------------------------------------------------
(* Stores *)

Stored(file, value) ==
  /\ sdk' = IF file = "sdk" THEN value ELSE sdk
  /\ wifi_backup' = IF file = "wifi_backup" THEN value ELSE wifi_backup
  /\ net' = IF file = "net" THEN value ELSE net
  /\ net_backup' = IF file = "net_backup" THEN value ELSE net_backup

\* where the loop task goes on after the last store of a handler
AfterWrites == [writing |-> "run", holding |-> "held", leaving |-> "off"]

\* The first store of those a handler makes: what a power cut before it finds
\* is what it would have found before the handler.
Stores(stores, how) ==
  /\ LET store == Head(stores) IN Stored(store[1], store[2])
  /\ writes' = Tail(stores)
  /\ pc' = IF Len(stores) = 1 THEN AfterWrites[how] ELSE how

\* and the others
Write ==
  /\ pc \in DOMAIN AfterWrites
  /\ Stores(writes, pc)
  /\ UNCHANGED <<use, air, link, ram>>

\* the last stores before a reset
StoresLast(stores) == Stores(stores, "leaving") /\ Cold

\* open_w and close: in between the file is empty
Saved(file, value) == <<<<file, Torn>>, <<file, value>>>>

----------------------------------------------------------------------------
(* Boot association: connectOrPortal *)

Boot ==
  /\ pc = "off"
  /\ pc' = IF sdk = None THEN "portal" ELSE "join"
  /\ address' = IF sdk = None THEN Dhcp ELSE net
  /\ grace_done' = (wifi_backup = None /\ net_backup = None)
  /\ UNCHANGED <<disk, use, air, link, disabled, offline_forced, clocks,
                 held, flags, restart>>

\* the button is held at power on
BootOffline ==
  /\ pc = "off" /\ pc' = "run"
  /\ disabled' = TRUE /\ offline_forced' = TRUE
  /\ grace_done' = (wifi_backup = None /\ net_backup = None)
  /\ UNCHANGED <<disk, use, air, link, address, clocks, held, flags, restart>>

\* clearSavedCreds
CredsCleared == <<<<"sdk", None>>, <<"wifi_backup", None>>, <<"net_backup", None>>>>

FactoryReset == <<<<"net", Dhcp>>>> \o CredsCleared

BootReset ==
  /\ pc = "off"
  /\ StoresLast(FactoryReset)
  /\ UNCHANGED <<use, air>>

\* A static address that is new is probed; a network that is up may still
\* fail the probe.  restoreNetBackup takes the fields of an empty file to be
\* empty, which no boot accepts as a static address.
Join ==
  /\ pc = "join" /\ sdk \in air
  /\ \/ /\ address = Dhcp \/ net_backup = None \/ <<sdk, address>> \in Reaches
        /\ pc' = "run" /\ link' = sdk
        /\ UNCHANGED <<disk, ram>>
     \/ /\ address # Dhcp /\ net_backup # None
        /\ StoresLast(<<<<"net", IF net_backup = Torn THEN Dhcp ELSE net_backup>>,
                        <<"net_backup", None>>>>)
  /\ UNCHANGED <<use, air>>

\* tryRestoreBackup: a backup without a name is removed, the SDK keeps the one
\* it is told to begin with
JoinFails ==
  /\ pc = "join" /\ sdk \notin air
  /\ pc' = "restore" /\ up' = Later(up)
  /\ sdk' = IF wifi_backup \in Creds THEN wifi_backup ELSE sdk
  /\ wifi_backup' = IF wifi_backup = Torn THEN None ELSE wifi_backup
  /\ UNCHANGED <<net, net_backup, writes, use, air, link, address, mode, down,
                 idle, held, flags, restart>>

Restore ==
  /\ pc = "restore" /\ wifi_backup \in air
  /\ wifi_backup' = None
  /\ pc' = "run" /\ link' = wifi_backup
  /\ UNCHANGED <<sdk, net, net_backup, writes, use, air, ram>>

\* a build that may be offline runs on, the others open the portal
RestoreFails ==
  /\ pc = "restore" /\ wifi_backup \notin air
  /\ pc' = IF use.offline_ok THEN "run" ELSE "portal"
  /\ disabled' = use.offline_ok
  /\ UNCHANGED <<disk, use, air, link, address, offline_forced, grace_done,
                 clocks, held, flags, restart>>

\* mutant: the portal is never left
PortalMinuteStays(someone) ==
  /\ pc = "portal" /\ sdk # None
  /\ idle' = Later(idle) /\ up' = Later(up)
  /\ UNCHANGED <<disk, use, air, pc, link, address, mode, down, held,
                 flags, restart>>

\* the portal waits for ever for the first credentials; else it is left when
\* nobody is on it, and after DownMax anyway
PortalMinute(someone) ==
  /\ pc = "portal" /\ sdk # None
  /\ LET i == IF someone THEN 0 ELSE Later(idle)
     IN  IF i >= PortalRetry \/ Later(up) >= DownMax
         THEN SafeRestart
         ELSE /\ idle' = i /\ up' = Later(up)
              /\ UNCHANGED <<pc, link, address, mode, down, held, flags, restart>>
  /\ UNCHANGED <<disk, use, air>>

PortalSave(c) ==
  /\ pc = "portal"
  /\ held' = c /\ pc' = "held"
  /\ UNCHANGED <<disk, use, air, link, address, mode, clocks, flags, restart>>

PortalReset ==
  /\ pc = "portal"
  /\ StoresLast(FactoryReset)
  /\ UNCHANGED <<use, air>>

\* beginHeld, then half a minute
JoinHeld ==
  /\ pc = "held"
  /\ sdk' = held
  /\ IF held \in air
     THEN /\ pc' = "run" /\ link' = held /\ held' = None /\ address' = net
          /\ UNCHANGED <<mode, clocks, flags, restart>>
     ELSE IF use.offline_ok
     THEN /\ pc' = "run" /\ disabled' = TRUE /\ held' = None /\ address' = net
          /\ UNCHANGED <<link, offline_forced, grace_done, clocks, flags, restart>>
     ELSE SafeRestart
  /\ UNCHANGED <<wifi_backup, net, net_backup, writes, use, air>>

----------------------------------------------------------------------------
(* Web page, serial line and installer *)

\* the page is there for who can reach the device
Served == pc = "run" /\ ~disabled /\ <<link, address>> \in Reaches

\* saveNetBackup keeps the last good one
NetSaved == IF net_backup = None THEN Saved("net_backup", net) ELSE <<>>

\* mutant: the address is committed before the one it replaces is backed up
SaveNetworkFirst(form) ==
  LET named == ~form.blank /\ form.cred # None
  IN  /\ Served
      /\ Stores(<<<<"net", form.address>>>> \o NetSaved
                  \o (IF named THEN Saved("wifi_backup", sdk) ELSE <<>>), "writing")
      /\ held' = IF named THEN form.cred ELSE held
      /\ save_creds' = (named \/ save_creds)
      /\ restart' = Late
      /\ UNCHANGED <<use, air, link, address, mode, clocks, erase_creds, factory_reset>>

\* hWifiSave
SaveNetwork(form) ==
  LET named == ~form.blank /\ form.cred # None
  IN  /\ Served
      /\ Stores(NetSaved \o <<<<"net", form.address>>>>
                  \o (IF named THEN Saved("wifi_backup", sdk) ELSE <<>>), "writing")
      /\ held' = IF named THEN form.cred ELSE held
      /\ save_creds' = (named \/ save_creds)
      /\ restart' = Late
      /\ UNCHANGED <<use, air, link, address, mode, clocks, erase_creds, factory_reset>>

\* hEraseWifi
EraseWifi ==
  /\ Served
  /\ net' = Dhcp /\ erase_creds' = TRUE
  /\ restart' = Late
  /\ UNCHANGED <<sdk, wifi_backup, net_backup, writes, use, air, pc, link, address,
                 mode, clocks, held, save_creds, factory_reset>>

\* hReset
WebReset ==
  /\ Served
  /\ factory_reset' = TRUE
  /\ restart' = Late
  /\ UNCHANGED <<disk, use, air, pc, link, address, mode, clocks, held,
                 save_creds, erase_creds>>

\* reset_net, reset_wifi
SerialResetNet ==
  /\ pc = "run"
  /\ StoresLast(<<<<"net", Dhcp>>, <<"net_backup", None>>>>)
  /\ UNCHANGED <<use, air>>

SerialResetWifi ==
  /\ pc = "run"
  /\ StoresLast(CredsCleared)
  /\ UNCHANGED <<use, air>>

\* handle_wifi_settings.  What comes of the association is left to Associate
\* and JoinHeld; after one that fails the ESP8266 disconnects and clears the
\* credentials of the SDK.
ImprovWifi(c) ==
  LET backup == IF sdk = None THEN <<>> ELSE Saved("wifi_backup", sdk)
  IN  /\ pc \in {"run", "portal"} /\ ~offline_forced
      /\ \E kept \in IF c \in air THEN {c} ELSE {c, None} :
           Stores(Append(backup, <<"sdk", kept>>), IF pc = "portal" THEN "holding" ELSE "writing")
      /\ held' = IF pc = "portal" THEN c ELSE held
      /\ link' = None
      /\ UNCHANGED <<use, air, address, mode, clocks, flags, restart>>

\* WebPortal::tick once the restart is due
Restart ==
  LET stores == (IF save_creds /\ held # None THEN <<<<"sdk", held>>>> ELSE <<>>)
                \o (IF erase_creds THEN CredsCleared ELSE <<>>)
                \o (IF factory_reset THEN FactoryReset ELSE <<>>)
  IN  /\ pc = "run" /\ restart # NoRestart
      /\ IF stores = <<>> THEN SafeRestart /\ UNCHANGED disk ELSE StoresLast(stores)
      /\ UNCHANGED <<use, air>>

PowerCut ==
  /\ pc # "off"
  /\ writes' = <<>> /\ SafeRestart
  /\ UNCHANGED <<sdk, wifi_backup, net, net_backup, use, air>>

----------------------------------------------------------------------------
(* The minutes of a device that is up *)

\* a restart already asked for is put off, as request_restart does
Asked(condition) == restart' = IF condition THEN Late ELSE restart

\* Wifi::tick
Minute ==
  /\ pc = "run" /\ restart # 0
  /\ up' = Later(up)
  /\ down' = IF disabled \/ Connected THEN 0 ELSE Later(down)
  /\ IF restart # NoRestart THEN restart' = restart - 1
     ELSE Asked(\/ ~disabled /\ down' > DownMax
                \/ disabled /\ ~offline_forced /\ (Connected \/ up' > DownMax))
  /\ IF ~grace_done /\ Connected /\ up' > StableAfter
     THEN /\ grace_done' = TRUE
          /\ Stores(<<<<"wifi_backup", None>>, <<"net_backup", None>>>>, "writing")
     ELSE UNCHANGED <<grace_done, disk, pc>>
  /\ UNCHANGED <<use, air, link, address, disabled, offline_forced, idle, held, flags>>

\* reconnect, begin and the SDK's own retries
Associate ==
  /\ pc = "run" /\ ~Connected /\ ~offline_forced /\ sdk \in air
  /\ link' = sdk
  /\ UNCHANGED <<disk, use, air, pc, ram>>

\* networks come and go
AirChange ==
  /\ air' \in SUBSET Networks /\ air' # air
  /\ link' = IF link \in air' THEN link ELSE None
  /\ UNCHANGED <<disk, use, pc, ram>>

Fresh ==
  /\ use \in Uses /\ air \in SUBSET Networks
  /\ pc = "off" /\ link = None /\ address = Dhcp
  /\ disabled = FALSE /\ offline_forced = FALSE /\ grace_done = FALSE
  /\ up = 0 /\ down = 0 /\ idle = 0
  /\ held = None /\ save_creds = FALSE /\ erase_creds = FALSE
  /\ factory_reset = FALSE /\ restart = NoRestart /\ writes = <<>>

\* a device that is set up
Init ==
  /\ Fresh
  /\ sdk \in Networks /\ wifi_backup = None
  /\ net \in Addresses /\ <<sdk, net>> \in Reaches /\ net_backup = None

\* somebody at the device or on its pages, or its plug
UserActs ==
  \/ BootOffline \/ BootReset \/ PortalReset
  \/ PortalMinute(TRUE) \/ (\E c \in use.portal : PortalSave(c))
  \/ (\E form \in use.forms : SaveNetwork(form)) \/ EraseWifi \/ WebReset
  \/ SerialResetNet \/ SerialResetWifi
  \/ (\E c \in use.improv : ImprovWifi(c))
  \/ PowerCut

Next ==
  \/ Boot \/ Join \/ JoinFails \/ Restore \/ RestoreFails
  \/ PortalMinute(FALSE) \/ JoinHeld
  \/ Write \/ Restart \/ Minute \/ Associate \/ AirChange
  \/ UserActs

Spec == Init /\ [][Next]_vars

\* The loop task goes on and time passes; that an association comes back by
\* itself is up to the SDK and the air, and is not assumed.
Fairness ==
  /\ WF_vars(Boot)
  /\ WF_vars(Join \/ JoinFails)
  /\ WF_vars(Restore \/ RestoreFails)
  /\ WF_vars(PortalMinute(FALSE)) /\ WF_vars(JoinHeld)
  /\ WF_vars(Write) /\ WF_vars(Restart) /\ WF_vars(Minute)

FairSpec == Spec /\ Fairness

----------------------------------------------------------------------------
(* Properties *)

TypeOK ==
  /\ LinkAssumption /\ TimeAssumption
  /\ sdk \in Creds \cup {None} /\ wifi_backup \in Creds \cup {None, Torn}
  /\ net \in Addresses /\ net_backup \in Addresses \cup {None, Torn}
  /\ (writes = <<>>) = (pc \notin DOMAIN AfterWrites)
  /\ use \in Uses /\ air \subseteq Networks
  /\ pc \in {"off", "join", "restore", "portal", "held", "run"} \cup DOMAIN AfterWrites
  /\ link \in Networks \cup {None} /\ address \in Addresses
  /\ disabled \in BOOLEAN /\ offline_forced \in BOOLEAN /\ grace_done \in BOOLEAN
  /\ up \in 0..LongUp /\ down \in 0..LongUp /\ idle \in 0..LongUp
  /\ held \in Creds \cup {None}
  /\ save_creds \in BOOLEAN /\ erase_creds \in BOOLEAN /\ factory_reset \in BOOLEAN
  /\ restart \in {NoRestart} \cup 0..Late

(* A device that runs on its network with an address that carries no        *)
(* traffic still has a backup of the address on file, so that a reboot      *)
(* undoes the change, wherever the power was cut while it was saved: "If    *)
(* the new network is unreachable, the previous one is restored             *)
(* automatically" (webportal.md).  (A backup that the power cut short is    *)
(* undone to DHCP.)  For a device that is set up from its page and does not *)
(* run offline: portal and installer change the network under an address    *)
(* without a backup of it.                                                  *)
WebOnly == use.portal = {} /\ use.improv = {} /\ ~use.offline_ok

NotStranded ==
  WebOnly /\ pc = "run" /\ ~disabled /\ Connected /\ <<link, address>> \notin Reaches
    => net_backup # None

(* However often credentials of no network are saved, and between whichever *)
(* of the stores of a save, a restart or a return to the backup the power   *)
(* is cut, a device that was once on a network knows one that exists: in    *)
(* the SDK or in the backup.  Only an erase or a reset forgets it.          *)
NetworkIsKnown == sdk # None => {sdk, wifi_backup} \cap Networks # {}

(* The backup of the credentials goes only once the device has been up with *)
(* a link for a while, or back on the backup, or when all credentials are   *)
(* erased: a boot that cannot join, or is cut short, leaves it.  (One that  *)
(* is overwritten by the credentials in use does not go.)                   *)
BackupOutlivesTheTrial ==
  [][(wifi_backup \in Creds /\ wifi_backup' = None)
       => \/ sdk' = None
          \/ link' = wifi_backup
          \/ Connected /\ link = sdk /\ up' > StableAfter]_vars

(* Nothing stays without its network for good, whatever was saved, undone   *)
(* and cut short before: if the network the SDK keeps is there to stay and  *)
(* the user leaves the device alone, not told to be offline, it is again    *)
(* and again on it, even when the SDK never reassociates by itself.         *)
ComesBack ==
  (<>[](sdk \in air) /\ <>[][~UserActs]_vars) => []<>(Connected \/ offline_forced)
=============================================================================
