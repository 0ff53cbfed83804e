--------------------------- MODULE FeatureCatalog ----------------------------
(* The features an installation may turn on, as the browser ships them
   (ui/src/data/featureCatalog.js), the registry generated from them that the
   plan builder consults (ui/src/generated/capabilities.js) and the profiles
   that preselect some (ui/src/data/profileCatalog.js).

   A block of the catalogue is a function from the ids of its features to what
   each requires. *)
EXTENDS TLC

LOCAL Needing(ids, needs) == [f \in ids |-> needs]

DesktopSession ==
    Needing({"desktop.plasma"}, {})
        @@ Needing({"desktop.gamer"}, {"desktop.plasma"})
        @@ Needing({"desktop.ai"}, {"desktop.plasma", "ai.ollama"})
Gaming ==
    Needing({"gamer.steam"}, {"desktop.plasma"})
        @@ Needing({"gamer.gamemode", "gamer.mangohud", "gamer.proton", "gamer.controllers"}, {})
DesktopDevices == Needing({"desktop.audio", "desktop.bluetooth", "desktop.printing"}, {})
Remote ==
    Needing({"remote.openssh", "remote.tailscale", "remote.web-installer"}, {})
        @@ Needing({"remote.vnc"}, {"desktop.plasma"})
Virtualization ==
    Needing({"virtualization.podman", "virtualization.libvirt"}, {})
        @@ Needing({"virtualization.incus"}, {"storage.srv-data"})
LocalAi ==
    Needing({"ai.ollama", "ai.neo4j", "ai.lightrag"}, {"storage.srv-data"})
        @@ Needing({"ai.open-webui"}, {"ai.ollama"})
        @@ Needing({"ai.kryonix-brain"},
                   {"storage.srv-data", "ai.neo4j", "ai.lightrag", "ai.ollama"})
Storage ==
    Needing({"storage.srv-data"}, {}) @@ Needing({"storage.ai-models"}, {"ai.ollama"})
Security == Needing({"security.firewall", "security.qemu-guest"}, {})
Observability ==
    Needing({"observability.prometheus"}, {})
        @@ Needing({"observability.grafana"}, {"observability.prometheus"})
Mcp ==
    Needing({"mcp.filesystem", "mcp.github"}, {})
        @@ Needing({"mcp.neo4j"}, {"ai.neo4j"}) @@ Needing({"mcp.ollama"}, {"ai.ollama"})

SystemFeatures ==
    DesktopSession @@ Gaming @@ DesktopDevices @@ Remote @@ Virtualization
        @@ LocalAi @@ Storage @@ Security @@ Observability @@ Mcp

ShellAndEditors ==
    Needing({"shell.zsh", "editor.vscode-insiders", "editor.antigravity"}, {})
        @@ Needing({"terminal.warp"}, {"desktop.plasma"})
AiClients == Needing({"ai.claude", "ai.gemini"}, {})
DevTools ==
    Needing({"dev.rust", "dev.python", "dev.nix"}, {})
        @@ Needing({"dev.jupyter"}, {"dev.python"})
DesktopThemes ==
    Needing({"desktop.kde-shortcuts", "desktop.kvantum-theme", "desktop.lock-screen-theme"},
            {"desktop.plasma"})
Notes == Needing({"obsidian.vault"}, {})

UserFeatures == ShellAndEditors @@ AiClients @@ DevTools @@ DesktopThemes @@ Notes

Catalog == SystemFeatures @@ UserFeatures

(* Features that are only partly there (a modal asks before one is turned
   on), and the placeholders that cannot be turned on one by one. *)
PartialFeatures == {"virtualization.libvirt", "ai.ollama"}
StubFeatures == {"ai.open-webui", "ai.lightrag"}

-----------------------------------------------------------------------------
(* The registry: the catalogue's entries again, by domain, with the conflicts,
   and three entries no plan may contain. *)
Unsupported == {"storage.encryption.luks2", "storage.topology.manual", "storage.topology.raid"}

AiCapabilities == LocalAi @@ AiClients
DesktopCapabilities == DesktopSession @@ DesktopDevices @@ DesktopThemes
GamingCapabilities == Gaming
DevCapabilities == DevTools @@ ShellAndEditors @@ Mcp
ServiceCapabilities == Observability @@ Notes @@ Remote @@ Security
HostCapabilities == Storage @@ Virtualization @@ Needing(Unsupported, {})

Capabilities ==
    AiCapabilities @@ DesktopCapabilities @@ GamingCapabilities @@ DevCapabilities
        @@ ServiceCapabilities @@ HostCapabilities

Conflicts(f) == IF f = "virtualization.incus" THEN {"virtualization.libvirt"} ELSE {}

-----------------------------------------------------------------------------
(* The profiles and what each preselects.  Some of it is in no catalogue. *)
BaseFeatures == {"remote.openssh", "security.firewall"}
Plasma == BaseFeatures \cup {"desktop.plasma", "desktop.audio", "desktop.bluetooth",
                             "shell.zsh", "terminal.warp"}
GamingStack == {"gamer.steam", "gamer.gamemode", "gamer.mangohud", "gamer.proton",
                "gamer.controllers"}
DevStack == {"editor.vscode-insiders", "dev.rust", "dev.python", "dev.nix"}
ServerStack == {"security.fail2ban", "virtualization.podman", "server.containers",
                "observability.prometheus", "storage.srv-data"}
AiStack == {"ai.ollama", "ai.open-webui", "ai.neo4j", "ai.lightrag", "ai.kryonix-brain",
            "storage.srv-data", "virtualization.podman"}

ProfileFeatures ==
    "minimal"       :> BaseFeatures
 @@ "desktop"       :> Plasma \cup {"shell.starship", "browser.firefox"}
 @@ "development"   :> Plasma \cup DevStack
                        \cup {"shell.starship", "dev.jupyter", "virtualization.podman"}
 @@ "gamer"         :> Plasma \cup GamingStack
 @@ "gamer-dev"     :> Plasma \cup GamingStack \cup DevStack \cup {"virtualization.podman"}
 @@ "server"        :> BaseFeatures \cup ServerStack
 @@ "server-dev"    :> BaseFeatures \cup ServerStack
                        \cup {"dev.git", "dev.github-cli", "dev.nix", "shell.zsh"}
 @@ "ai-local"      :> BaseFeatures \cup AiStack
 @@ "server-ai"     :> BaseFeatures \cup ServerStack \cup AiStack \cup {"observability.grafana"}
 @@ "full"          :> Plasma \cup DevStack \cup GamingStack \cup AiStack
                        \cup {"desktop.printing", "shell.starship", "dev.jupyter",
                              "virtualization.libvirt", "observability.prometheus",
                              "observability.grafana", "mcp.filesystem", "mcp.neo4j",
                              "mcp.ollama", "server.containers", "server.database",
                              "server.reverse-proxy", "server.backups"}
 @@ "custom"        :> {}

Profiles == DOMAIN ProfileFeatures

(* The presets of the features page; a preset replaces the system features. *)
PresetFeatures ==
    "desktop-standard" :> BaseFeatures \cup {"desktop.plasma", "desktop.audio", "desktop.bluetooth"}
 @@ "desktop-ai"       :> BaseFeatures \cup {"desktop.plasma", "desktop.ai", "desktop.audio",
                           "desktop.bluetooth", "ai.ollama", "ai.open-webui", "storage.srv-data"}
 @@ "desktop-gamer"    :> BaseFeatures \cup GamingStack
                           \cup {"desktop.plasma", "desktop.gamer", "desktop.audio", "desktop.bluetooth"}
 @@ "kve-server"       :> BaseFeatures \cup {"virtualization.incus", "virtualization.podman",
                           "storage.srv-data", "observability.prometheus"}

-----------------------------------------------------------------------------
(* What the plan builder refuses in a selection. *)
FeatureReasons(selected) ==
    { r \in {"unregistered", "unsupported", "requires", "conflicts"} :
        \/ r = "unregistered" /\ ~(selected \subseteq DOMAIN Capabilities)
        \/ r = "unsupported"  /\ selected \cap Unsupported # {}
        \/ r = "requires"     /\ \E f \in selected \cap DOMAIN Capabilities :
                                   ~(Capabilities[f] \subseteq selected)
        \/ r = "conflicts"    /\ \E f \in selected : Conflicts(f) \cap selected # {} }

(* The page's toggle: turning a feature on turns on what it requires, one step
   deep and without the placeholders; turning it off takes nothing else out. *)
Toggle(selected, f) ==
    IF f \in selected
    THEN selected \ {f}
    ELSE selected \cup {f} \cup {r \in Catalog[f] : r \in DOMAIN Catalog \ StubFeatures}

UserLevel(selected) == selected \cap DOMAIN UserFeatures

Preset(selected, preset) == UserLevel(selected) \cup PresetFeatures[preset]
=============================================================================
