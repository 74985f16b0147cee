------------------------------- MODULE MCBoot -------------------------------
(* For TLC: how a device comes up and stays up, three parts that share       *)
(* nothing here, each checked by itself in one run; part says which, and the *)
(* others rest.                                                              *)
(* The boot guard, with two builds and the limits of the code, the           *)
(* saturation of its counters brought down to just above where anything      *)
(* depends on them.  The Wi-Fi link, with two networks, credentials of none, *)
(* DHCP on both and a static address that one of them carries.  The high     *)
(* voltage, whose pulses may be restarted once.                              *)
EXTENDS BootGuard, HighVoltage

CONSTANTS home, away, wrong, none, torn, dhcp, fixed, bad

VARIABLES
  part,
  sdk, wifi_backup, net, net_backup, writes, use, air, pc, link, address,
  disabled, offline_forced, minutes, down, idle, grace_done, join_held,
  save_creds, erase_creds, factory_reset, restart

Form(c, a) == [blank |-> c = none, cred |-> c, address |-> a]
FromPage(f) == [offline_ok |-> FALSE, forms |-> f, portal |-> {}, improv |-> {}]

\* only the address is changed, or only the network, the latter with the
\* portal and the installer, on both kinds of builds
AddressForms == {Form(none, a) : a \in {dhcp, fixed, bad}}
NetworkForms == {Form(c, dhcp) : c \in {home, away, wrong}}
MCUses ==
  {FromPage(AddressForms)}
  \cup [offline_ok : BOOLEAN, forms : {NetworkForms},
        portal : {{home, away}}, improv : {{home, away}}]

W == INSTANCE WifiLink WITH
       Creds <- {home, away, wrong}, None <- none, Torn <- torn,
       Addresses <- {dhcp, fixed, bad}, Dhcp <- dhcp,
       Networks <- {home, away},
       Reaches <- ({home, away} \X {dhcp}) \cup {<<home, fixed>>},  \* fixed is one of home
       Uses <- MCUses, StableAfter <- 1, PortalRetry <- 1, DownMax <- 2, Late <- 0,
       up <- minutes, held <- join_held

guard == <<rtc, dump, flash, reason, stage, up, restart_at, retry, crashRun, guarded, asked, waited>>
wifi == <<sdk, wifi_backup, net, net_backup, writes, use, air, pc, link, address, disabled, offline_forced,
          minutes, down, idle, grace_done, join_held, save_creds, erase_creds, factory_reset, restart>>

BootInit ==
  /\ part \in {"guard", "wifi", "hv"}
  /\ Init /\ W!Init /\ HvInit
  /\ part # "hv" => freq = 1 /\ duty = 1
  /\ part # "wifi" => use = FromPage(AddressForms) /\ sdk = home /\ net = dhcp /\ air = {}
  /\ part # "guard" => flash = rtc.fw /\ flash = CHOOSE f \in Firmwares : TRUE

GuardNext == part = "guard" /\ UNCHANGED <<part, wifi, hvAll>> /\ Next
WifiNext == part = "wifi" /\ UNCHANGED <<part, guard, hvAll>> /\ W!Next
VoltageNext == part = "hv" /\ UNCHANGED <<part, guard, wifi>> /\ HvNext

BootNext == GuardNext \/ WifiNext \/ VoltageNext

\* The fairness of each module, while it is the one that runs.
GuardFair ==
  /\ WF_guard(part = "guard" /\ OnBoot)
  /\ WF_guard(part = "guard" /\ (SetupDone \/ SetupRestart))
  /\ WF_guard(part = "guard" /\ Tick) /\ WF_guard(part = "guard" /\ Restart)
WifiFair ==
  /\ WF_wifi(part = "wifi" /\ W!Boot)
  /\ WF_wifi(part = "wifi" /\ (W!Join \/ W!JoinFails))
  /\ WF_wifi(part = "wifi" /\ (W!Restore \/ W!RestoreFails))
  /\ WF_wifi(part = "wifi" /\ W!PortalMinute(FALSE)) /\ WF_wifi(part = "wifi" /\ W!JoinHeld)
  /\ WF_wifi(part = "wifi" /\ W!Write)
  /\ WF_wifi(part = "wifi" /\ W!Restart) /\ WF_wifi(part = "wifi" /\ W!Minute)
HvFair ==
  /\ WF_hvAll(part = "hv" /\ Store) /\ WF_hvAll(part = "hv" /\ Nmi)
  /\ WF_hvAll(part = "hv" /\ Pass) /\ WF_hvAll(part = "hv" /\ OtaFailed)
  /\ WF_hvAll(part = "hv" /\ Reboot)

BootSpec ==
  /\ BootInit /\ [][BootNext]_<<part, guard, wifi, hvAll>>
  /\ GuardFair /\ WifiFair /\ HvFair

------------------------------------------------------------------------
\* The types of the parts.
TypesOK ==
  CASE part = "guard" -> TypeOK
    [] part = "wifi" -> W!TypeOK
    [] part = "hv" -> HvTypeOK

\* Wi-Fi: a device that was on a network knows one that exists, a bad address leaves
\* the one before it on file, and a backup goes only once what replaced it is good.
NetworkIsKept == [](W!NetworkIsKnown /\ W!NotStranded) /\ W!BackupOutlivesTheTrial

\* Boot guard: safe mode ends.  Wi-Fi: a network that is there to stay is found again,
\* and again.  HV: after a stall, an update or new settings the pin comes low and the
\* pulses are as asked.
ComesBack == SafeModeEnds /\ W!ComesBack /\ ComesLow /\ RunsAsAsked
=============================================================================
