---------------------------- MODULE MCPluginRest ----------------------------
(* A small instance of PluginRest for TLC: one plugin name besides the     *)
(* keyword "dev" (which a plugin may also be called), three file names of  *)
(* which one has a supported extension, and a two-level plugin directory. *)
EXTENDS PluginRest

MCSeg == {"dev", "activate", "inactivate", "gumpi", "app.js", "logo.png",
          "README"}

MCExt == [s \in MCSeg |-> CASE s = "app.js"   -> "js"
                            [] s = "logo.png" -> "png"
                            [] OTHER          -> ""]

MCDevDir == {<<"gumpi">>, <<"gumpi", "app.js">>}
=============================================================================
