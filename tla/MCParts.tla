------------------------------- MODULE MCParts -------------------------------
(***************************************************************************)
(* The small parts of the backend for TLC.                                 *)
(***************************************************************************)
EXTENDS Parts

CONSTANTS small, large, a1, a2, s1, s2, hot, named, p1, p2, p3

\* ModelPulls: two downloads; GuiRuntime: two requests.
TwoPulls  == <<1, 2>>
TwoModels == {small, large}
TwoAsks   == {a1, a2}

\* ProviderCalls: the two windows between which a client may be left behind, and
\* both aborters.
TwoWindows   == {8, 16}
BothAborters == {"client", "shutdown"}

\* Compaction: messages that fit a prompt together, and messages that do not; a
\* first thread that is below the threshold, and one that is above it.
SmallAndLarge == {1, 3}
TwoPasts      == {<<1, 3>>, <<3, 1, 3>>}

\* ThreadSettings: two starts, that may ask for one temperature and one title.
TwoStarters == {s1, s2}
OneHeat     == {hot}
OneName     == {named}

\* StorageKey: three processes.
ThreeProcesses == {p1, p2, p3}

==============================================================================
