------------------------------- MODULE MCChat -------------------------------
(***************************************************************************)
(* The menus that TLC offers: two tokens, the recommended one of which is  *)
(* held, and one choice at each step of the wizard.                        *)
(***************************************************************************)
EXTENDS Chat

OneEach == {2}
Typed == {<<"/status">>, <<"/panic">>, <<"/reiniciar">>, <<"/buy", "a">>}
=============================================================================
