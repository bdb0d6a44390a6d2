---------------------------- MODULE MCOverlaySurface ----------------------------
(* Two outputs, surfaces of two heights on outputs of height three.         *)
EXTENDS OverlaySurface

CONSTANTS screen1, screen2

MCDisplays == <<screen1, screen2>>

MCSessions ==
    {[platform |-> "wayland", layerShell |-> TRUE, niri |-> FALSE],
     [platform |-> "wayland", layerShell |-> TRUE, niri |-> TRUE],
     [platform |-> "wayland", layerShell |-> FALSE, niri |-> FALSE],
     [platform |-> "xcb", layerShell |-> FALSE, niri |-> FALSE],
     [platform |-> "offscreen", layerShell |-> FALSE, niri |-> FALSE]}

MCConfigs ==
    {[top |-> FALSE, margin |-> 0, screen |-> NoOutput, passthrough |-> FALSE]}

===============================================================================
