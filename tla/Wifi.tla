-------------------------------- MODULE Wifi --------------------------------
(***************************************************************************)
(* esp-daplink-target/src/main.rs: the two tasks that bring the probe on   *)
(* the network and keep it there, connection() and main(), with the radio  *)
(* driver, the access point and net_task's DHCP client as the externals    *)
(* they wait for.  The driver is taken at its word: its wait for a         *)
(* disconnect returns once the station is not associated.                  *)
(***************************************************************************)
EXTENDS Naturals

CONSTANTS
  MaxOutages, \* bound: times the access point goes away or drops the station
  MaxFaults   \* bound: errors of the driver that the radio does not explain

ASSUME WifiAssumption == MaxOutages \in Nat /\ MaxFaults \in Nat

VARIABLES
  cpc,        \* where connection() is
  mpc,        \* where main() is
  associated, \* the station is associated (external)
  inRange,    \* the access point answers (external)
  address,    \* Stack::config_v4() is Some (external)
  outages,
  faults

vars == <<cpc, mpc, associated, inRange, address, outages, faults>>

CPCs == {"connect", "wait", "pause"}
MPCs == {"poll", "pause", "serve"}

Init ==
  /\ cpc = "connect" /\ mpc = "poll"
  /\ associated = FALSE /\ inRange \in BOOLEAN /\ address = FALSE
  /\ outages = 0 /\ faults = 0

-----------------------------------------------------------------------------
\* connect_async() returns.  It may fail for no reason the radio gives.
ConnectOk ==
  /\ cpc = "connect" /\ inRange
  /\ associated' = TRUE
  /\ cpc' = "wait"
  /\ UNCHANGED <<mpc, inRange, address, outages, faults>>

\* Mutant of ConnectErr: connection() gives up.
ConnectErrReturns ==
  /\ cpc = "connect"
  /\ \/ ~inRange /\ UNCHANGED faults
     \/ faults < MaxFaults /\ faults' = faults + 1
  /\ cpc' = "returned"
  /\ UNCHANGED <<mpc, associated, inRange, address, outages>>

ConnectErr ==
  /\ cpc = "connect"
  /\ \/ ~inRange /\ UNCHANGED faults
     \/ faults < MaxFaults /\ faults' = faults + 1
  /\ cpc' = "pause"
  /\ UNCHANGED <<mpc, associated, inRange, address, outages>>

\* Five seconds have passed.
RetryTimer ==
  /\ cpc = "pause"
  /\ cpc' = "connect"
  /\ UNCHANGED <<mpc, associated, inRange, address, outages, faults>>

\* The wait for a disconnect ends the inner loop.
WaitDisconnected ==
  /\ cpc = "wait" /\ ~associated
  /\ cpc' = "connect"
  /\ UNCHANGED <<mpc, associated, inRange, address, outages, faults>>

\* Mutant of WaitErr: an error is taken for a disconnect.
WaitErrBreaks ==
  /\ cpc = "wait" /\ faults < MaxFaults
  /\ faults' = faults + 1
  /\ cpc' = "connect"
  /\ UNCHANGED <<mpc, associated, inRange, address, outages>>

\* Either wait returns an error: it is dropped, and both waits begin again.
WaitErr ==
  /\ cpc = "wait" /\ faults < MaxFaults
  /\ faults' = faults + 1
  /\ UNCHANGED <<cpc, mpc, associated, inRange, address, outages>>

Connection == ConnectOk \/ ConnectErr \/ RetryTimer \/ WaitDisconnected \/ WaitErr

-----------------------------------------------------------------------------
\* main() looks for an address; with one it starts dap_tcp_task, for good.
PollAddress ==
  /\ mpc = "poll"
  /\ mpc' = IF address THEN "serve" ELSE "pause"
  /\ UNCHANGED <<cpc, associated, inRange, address, outages, faults>>

PollTimer ==
  /\ mpc = "pause"
  /\ mpc' = "poll"
  /\ UNCHANGED <<cpc, associated, inRange, address, outages, faults>>

\* Hourly timer: nothing else is left to main().
MainSleeps == mpc = "serve" /\ UNCHANGED vars

Main == PollAddress \/ PollTimer

-----------------------------------------------------------------------------
\* net_task: an address comes while the link is up and goes with it.
Lease ==
  /\ associated # address
  /\ address' = associated
  /\ UNCHANGED <<cpc, mpc, associated, inRange, outages, faults>>

AccessPointLost ==
  /\ outages < MaxOutages /\ inRange
  /\ outages' = outages + 1
  /\ inRange' = FALSE
  /\ UNCHANGED <<cpc, mpc, associated, address, faults>>

AccessPointBack ==
  /\ ~inRange
  /\ inRange' = TRUE
  /\ UNCHANGED <<cpc, mpc, associated, address, outages, faults>>

\* The driver notices that the access point is gone, or is told to leave.
Dissociated ==
  /\ associated
  /\ \/ ~inRange /\ UNCHANGED outages
     \/ outages < MaxOutages /\ outages' = outages + 1
  /\ associated' = FALSE
  /\ UNCHANGED <<cpc, mpc, inRange, address, faults>>

Radio == Lease \/ AccessPointLost \/ AccessPointBack \/ Dissociated

Next == Connection \/ Main \/ MainSleeps \/ Radio

\* Timers fire, the driver answers, and the access point comes back.
Fairness ==
  /\ WF_vars(Connection) /\ WF_vars(Main)
  /\ WF_vars(Lease) /\ WF_vars(AccessPointBack)

Spec == Init /\ [][Next]_vars /\ Fairness
-----------------------------------------------------------------------------
(***************************************************************************)
(* A working association is never disturbed: connection() asks for a new   *)
(* one only when the old one is gone, whatever errors its two waits return *)
(* (the errors that main.rs drops in the inner loop).                      *)
(***************************************************************************)
AssociationKept == cpc \in {"connect", "pause"} => ~associated

(***************************************************************************)
(* The probe comes back: however often the access point goes away, and     *)
(* whatever the driver fails to do in between, the station is associated   *)
(* and addressed again once it stays, and commands are served in the end,  *)
(* though the address may come and go between two looks of main()          *)
(* (connection's two loops, main's poll loop).                             *)
(***************************************************************************)
ComesBack == []<>(associated /\ address) /\ <>[](mpc = "serve")
=============================================================================
