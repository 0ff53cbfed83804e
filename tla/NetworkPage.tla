------------------------------ MODULE NetworkPage -----------------------------
(* The network step (ui/src/pages/Network.jsx with useNetworkInterfaces and
   useNetworkStatus): the interfaces the daemon lists, the connection status it
   reports, the network the user describes and applies.

   `net` is what is in flight and on the screen: whether the page is shown, is
   still asking for the interfaces, which ones it lists, how many status checks
   have not been answered, and whether the network is being applied.  A status
   check is answered to the wizard even when the page has been left. *)
EXTENDS WizardPage, Integers, SequencesExt

CONSTANTS Listings,   \* what the daemon may list: sequences of interfaces
          Typed,      \* what the user may type in a field
          MaxChecks   \* bound: checks in flight, an apply counted as one

VARIABLE net

networkVars == <<draft, ui, net>>

UnmountedNetwork ==
    [mounted |-> FALSE, booting |-> FALSE, names |-> <<>>, checks |-> 0, applying |-> FALSE]

RoomForCheck == net.checks + (IF net.applying THEN 1 ELSE 0) < MaxChecks

EntersNetwork == [net EXCEPT !.mounted = TRUE, !.booting = TRUE, !.names = <<>>]
LeavesNetwork == [net EXCEPT !.mounted = FALSE, !.booting = FALSE, !.names = <<>>]

(* The bootstrap: the interface kept in the draft is replaced when it is not
   listed (nothing is, after an error), and the status is asked for. *)
InterfacesArrive ==
    /\ net.mounted /\ net.booting /\ RoomForCheck
    /\ \E list \in Listings :
         /\ Change([mgmtInterface |->
                      IF draft.mgmtInterface \in ToSet(list) THEN draft.mgmtInterface
                      ELSE IF list = <<>> THEN NoIface ELSE Head(list)])
         /\ net' = [net EXCEPT !.booting = FALSE, !.names = list, !.checks = @ + 1]

(* The refresh button lists again and touches nothing else. *)
RefreshInterfaces ==
    /\ net.mounted /\ ~net.booting
    /\ \E list \in Listings \ {net.names} : net' = [net EXCEPT !.names = list]
    /\ UNCHANGED <<draft, ui>>

(* checkConnectionStatus: connected with an address of use, or not; a check
   that fails says nothing. *)
StatusArrives ==
    /\ net.checks > 0
    /\ net' = [net EXCEPT !.checks = @ - 1]
    /\ \/ Change([netConnected |-> TRUE, netOffline |-> FALSE, serverIp |-> "valid"])
       \/ Change([netConnected |-> FALSE])
       \/ UNCHANGED <<draft, ui>>

(* The panel of the wireless interfaces: one of those listed, a network it sees, a
   password. *)
WifiOffered == net.mounted /\ net.names # <<>>

ConnectWifi ==
    /\ WifiOffered /\ RoomForCheck
    /\ net' = [net EXCEPT !.checks = @ + 1]
    /\ UNCHANGED <<draft, ui>>

ContinueOffline ==
    /\ net.mounted /\ ~ui.netConnected
    /\ Change([netOffline |-> TRUE, netConnected |-> FALSE])
    /\ UNCHANGED net

-----------------------------------------------------------------------------
(* handleApplyNetwork. *)

ApplyNetwork ==
    /\ net.mounted /\ ~ui.netApplyBusy /\ ui.lanIdentified /\ RoomForCheck
    /\ draft.mgmtInterface # NoIface
    /\ draft.mgmtMode = "static" => "" \notin {draft.serverIp, draft.mgmtGateway}
    /\ Change([netApplyBusy |-> TRUE])
    /\ net' = [net EXCEPT !.applying = TRUE]

(* The name servers that are asked for: the default ones when none was typed. *)
RequestedDns == IF draft.mgmtDns = "" THEN "valid" ELSE draft.mgmtDns

(* Applied: over DHCP the address is the daemon's, the gateway may be none, and
   the name servers are those the interface got or, when it lists none, stay as
   they were. What was typed is applied only when it is an address. *)
NetworkApplied ==
    /\ net.applying /\ RequestedDns # "invalid"
    /\ \E gateway \in {"", "valid"}, dns \in {draft.mgmtDns, "valid"} :
         /\ draft.mgmtMode = "static" =>
              /\ {draft.serverIp, draft.mgmtGateway, gateway} = {"valid"}
              /\ dns = RequestedDns
         /\ Change([netApplyBusy |-> FALSE, serverIp |-> "valid",
                    mgmtGateway |-> gateway, mgmtDns |-> dns])
    /\ net' = [net EXCEPT !.applying = FALSE, !.checks = @ + 1]

(* Answered, but not applied: the status is asked for all the same. *)
NetworkNotApplied ==
    /\ net.applying
    /\ Change([netApplyBusy |-> FALSE])
    /\ net' = [net EXCEPT !.applying = FALSE, !.checks = @ + 1]

(* Mutant: a refusal leaves the wizard waiting. *)
ApplyFails_KeepsBusy ==
    /\ net.applying
    /\ net' = [net EXCEPT !.applying = FALSE]
    /\ UNCHANGED <<draft, ui>>

(* Refused, or the connection dropped with the network it went over. *)
ApplyFails ==
    /\ net.applying
    /\ Change([netApplyBusy |-> FALSE])
    /\ net' = [net EXCEPT !.applying = FALSE]

-----------------------------------------------------------------------------
(* The form, greyed out while the network is being applied. *)

Editing == net.mounted /\ ~ui.netApplyBusy

ChooseInterface(i) ==
    /\ Editing /\ i \in ToSet(net.names) \cup {NoIface} /\ i # draft.mgmtInterface
    /\ Change([mgmtInterface |-> i, lanIdentified |-> FALSE])
    /\ UNCHANGED net

IdentifyLan ==
    /\ Editing
    /\ Change([lanIdentified |-> ~ui.lanIdentified])
    /\ UNCHANGED net

ChooseMode(mode) ==
    /\ Editing /\ mode # draft.mgmtMode
    /\ Change([mgmtMode |-> mode])
    /\ UNCHANGED net

(* handleWanInterfaceChange: no interface, no uplink. *)
ChooseUplink(i) ==
    /\ Editing /\ i \in ToSet(net.names) \cup {NoIface}
    /\ i \notin {draft.wanInterface, draft.mgmtInterface}
    /\ Change(IF i # NoIface THEN [wanInterface |-> i]
              ELSE [wanInterface |-> NoIface, wanMode |-> "dhcp", wanAddress |-> "",
                    wanGateway |-> "", wanDns |-> "", pppoeUser |-> "", pppoePassword |-> ""])
    /\ UNCHANGED net

ChooseUplinkMode(mode) ==
    /\ Editing /\ draft.wanInterface # NoIface /\ mode # draft.wanMode
    /\ Change([wanMode |-> mode])
    /\ UNCHANGED net

(* The fields that the cards show for the modes chosen. *)
LanFields ==
    {"hostName", "httpPort"}
        \cup (IF draft.mgmtMode = "static" THEN {"serverIp", "mgmtGateway", "mgmtDns"} ELSE {})

UplinkFields ==
    IF draft.wanInterface = NoIface THEN {}
    ELSE CASE draft.wanMode = "static" -> {"wanAddress", "wanGateway", "wanDns"}
           [] draft.wanMode = "pppoe"  -> {"pppoeUser", "pppoePassword"}
           [] OTHER -> {}

ShownFields == LanFields \cup UplinkFields

(* The two fields of a PPPoE uplink are not greyed out. *)
EditField(field, value) ==
    /\ net.mounted /\ field \in ShownFields /\ value # draft[field]
    /\ ~ui.netApplyBusy \/ field \in {"pppoeUser", "pppoePassword"}
    /\ Change([f \in {field} |-> value])
    /\ UNCHANGED net
=============================================================================
