----------------------------- MODULE MCWebStation -----------------------------
EXTENDS WebStation

\* Two channels where it matters which of them is open, and one section in a session.
Scene(channels, section, uses) ==
  [channels |-> channels, section |-> section, uses |-> uses]

MCScenes == {Scene({"A", "B"}, "plan", {}),
             Scene({"A"}, "plan", {"home", "repair", "blank", "reset"}),
             Scene({"A"}, "mix", {"home", "composer", "content", "create", "device", "station",
                                  "channel"}),
             Scene({"A"}, "mix", {"focus", "hide", "device"}),
             Scene({"A"}, "plan", {"composer", "source"}),
             Scene({"A"}, "rank", {"home", "hide"}),
             Scene({"A"}, "program", {"home", "composer", "hide"})}

=============================================================================
