-------------------------- MODULE MCEmbeddingBuild --------------------------
(* Two builders: one only runs the full build, the other any command.      *)
EXTENDS EmbeddingBuild, TLC

CONSTANTS b1, b2

MCBuilders == {b1, b2}
MCCommands == b1 :> {"full"} @@ b2 :> Modes
=============================================================================
