--------------------------- MODULE MCDirCommands ---------------------------
(* Instances of DirCommands for TLC: two of the three names fill a page. *)
EXTENDS DirCommands

MCNames == {"a", "b", "c"}
MCRank == [n \in MCNames |-> CASE n = "a" -> 1 [] n = "b" -> 2 [] n = "c" -> 3]

MCJobs == [kind: {"add", "rm"}, yes: BOOLEAN, name: {"a", "c"}]
          \cup {[kind |-> "list", yes |-> FALSE, name |-> "a"]}

Holds(a, b, c) ==
    [live |-> TRUE, volume |-> "v1",
     kids |-> [n \in MCNames |-> CASE n = "a" -> a [] n = "b" -> b [] n = "c" -> c]]
MCStartStates ==
    {Holds("missing", "missing", "missing"), Holds("missing", "full", "file"),
     Holds("empty", "file", "empty"), Holds("full", "empty", "missing"),
     [Holds("missing", "missing", "missing") EXCEPT !.live = FALSE]}
=============================================================================
