-------------------------------- MODULE Hyprland --------------------------------
(***************************************************************************)
(* The compositor as the daemon sees it through hyprctl (hypr.py): the     *)
(* monitor list, the numbers given to headless outputs, and the last mode  *)
(* applied to each output.  Hyprland itself is outside the repository; its *)
(* behaviour is the one hypr.py and its comments rely on.                  *)
(***************************************************************************)
EXTENDS Naturals

CONSTANTS
    Physical,       \* real monitors
    NoOutput,       \* Python's None for an output name
    MaxOutputs      \* bound: headless outputs of one compositor session

ASSUME OutputsAssumption ==
    /\ MaxOutputs \in Nat \ {0}
    /\ Physical \intersect Nat = {}
    /\ NoOutput \notin Physical \union Nat

VARIABLES
    monitors,       \* what `hyprctl monitors` lists
    nextHeadless,   \* n of the next HEADLESS-n: never reused in a session
    placed,         \* the mode, scale and position last set on each output
    created         \* history: the headless outputs this daemon created

hyprVars == <<monitors, nextHeadless, placed, created>>

Headless == 1..MaxOutputs
Outputs == Physical \union Headless

\* An output nobody configured.
Unplaced == <<"preferred", "auto", "auto">>

HyprInit ==
    /\ monitors = Physical
    /\ nextHeadless = 1
    /\ placed = [o \in Outputs |-> Unplaced]
    /\ created = {}

\* `hyprctl output create headless`, by this daemon or by something else.
NewHeadless ==
    /\ nextHeadless \in Headless
    /\ monitors' = monitors \union {nextHeadless}
    /\ nextHeadless' = nextHeadless + 1
    /\ UNCHANGED placed

CreateHeadless == NewHeadless /\ created' = created \union {nextHeadless}

\* `hyprctl output remove`: a missing output is not an error (hypr.py:81-88).
RemoveOutput(o) ==
    /\ monitors' = monitors \ {o}
    /\ placed' = [placed EXCEPT ![o] = Unplaced]
    /\ UNCHANGED <<nextHeadless, created>>

\* `hyprctl eval hl.monitor({...})` (hypr.py:91-115).
SetMonitorMode(o, mode, scale, position) ==
    /\ placed' = [placed EXCEPT ![o] = <<mode, scale, position>>]
    /\ UNCHANGED <<monitors, nextHeadless, created>>

\* The user connects or disconnects a real monitor.
Plug(o) ==
    /\ o \in Physical \ monitors
    /\ monitors' = monitors \union {o}
    /\ UNCHANGED <<nextHeadless, placed, created>>

Unplug(o) ==
    /\ o \in Physical \intersect monitors
    /\ monitors' = monitors \ {o}
    /\ UNCHANGED <<nextHeadless, placed, created>>

\* Another program creates a headless output of its own.
ForeignCreate ==
    /\ nextHeadless < MaxOutputs
    /\ NewHeadless
    /\ UNCHANGED created

\* A new compositor session: headless outputs are gone, numbering starts over.
NewCompositor ==
    /\ monitors' = Physical
    /\ nextHeadless' = 1
    /\ placed' = [o \in Outputs |-> Unplaced]
    /\ created' = {}
================================================================================
