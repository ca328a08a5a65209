----------------------------- MODULE MCStartup -----------------------------
(* Two releases that are pinned: one wrapped in dist, with index.html at   *)
(* its end, one that begins with it and then tries to leave the directory; *)
(* and one that nobody pinned.                                             *)
EXTENDS Startup

Wrapped == "wrapped"
Escaping == "escaping"
Other == "other"

MCReleases == {Wrapped, Escaping, Other}
MCPins == {Wrapped, Escaping}
MCArchive ==
    [r \in MCReleases |->
        CASE r = Wrapped -> <<<<"dist", "assets", "app.js">>, <<"dist", "index.html">>>>
          [] r = Escaping -> <<<<"index.html">>, <<"app.js">>, <<"..", "app.js">>>>
          [] OTHER -> <<<<"index.html">>>>]
=============================================================================
