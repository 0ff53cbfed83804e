------------------------------ MODULE MCWizard --------------------------------
EXTENDS Wizard

Disk(p, verdict) ==
    [path |-> p, device |-> "disk", removable |-> FALSE, readOnly |-> FALSE,
     size |-> [kind |-> "label", bytes |-> 0], verdict |-> verdict]

(* Two disks, then one of them unplugged. *)
MCPayloads == { <<Disk(1, "eligible"), Disk(2, "eligible")>>, <<Disk(2, "eligible")>> }

MCRepositories == {1, 2}
MCInsecure == {2}
MCListings == {<<>>, <<2, 1>>}
MCTyped == {"", "valid"}
MCToggled == {"virtualization.libvirt", "mcp.ollama"}
(* Clicks beyond the date line and on the land. *)
MCPoints == {<<77900, 18000>>, <<45000, 10000>>}
MCProfiles == {"server-ai"}
MCPresets == {"desktop-ai"}

(* Enough to type another repository after one was cloned, to describe and apply
   a network over PPPoE, to go back once. *)
MCMaxStray ==
    [how \in ToSet(Steps) \cup {"back"} |-> IF how \in {"source", "network"} THEN 2 ELSE 1]

(* A file of another machine, one with a zone and a name gone wrong, and a plan
   that the wizard exported itself. *)
MCImports ==
    { [version |-> 1, network |-> [hostName |-> "valid"],
       disk |-> [diskMode |-> "two", sysDisk |-> 7, selectedDisks |-> <<7>>, dataDisk |-> 8,
                 dataFs |-> "ext4"],
       admin |-> [adminUser |-> "valid"]],
      [version |-> 1, network |-> [hostName |-> "invalid"], disk |-> [luksEnabled |-> TRUE],
       locale |-> [timeZone |-> "invalid"], admin |-> [adminUser |-> "valid"]],
      [version |-> 2, network |-> [hostName |-> "valid"]] }

ASSUME MCImportsTyped == ImportsTyped
=============================================================================
