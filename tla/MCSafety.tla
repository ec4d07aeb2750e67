------------------------------ MODULE MCSafety ------------------------------
(***************************************************************************)
(* CameraSettings, Composer and OmxCore for TLC: no liveness is asked of   *)
(* them.  They share no variable: part says which of them moves and the    *)
(* others keep their first state, so one run explores the sum of their     *)
(* states and not the product.                                             *)
(***************************************************************************)
EXTENDS CameraSettings, Composer, OmxCore

-----------------------------------------------------------------------------
(* Clients that each ask the camera for a few related changes. *)
Client(cameras, changes, failures) ==
  [cameras |-> cameras, changes |-> changes, faults |-> failures]

MCClients ==
  { Client({"back"}, {[zoom |-> 3], [zoom |-> 13], [whiteBalance |-> "daylight"],
                      [whiteBalance |-> "shade"]}, 2),
    Client({"front"}, {[brightness |-> 1], [brightness |-> 5], [contrast |-> 1],
                       [zoom |-> 3]}, 2),
    Client({"back", "front"}, {[scene |-> "night"], [iso |-> "200"]}, 1),
    Client({"back"}, {[focus |-> "macro"], [face |-> "on"], [face |-> "off"]}, 1),
    Client({"back"}, {[scene |-> "night"], [scene |-> "snow"], [scene |-> "theatre"],
                      [fps |-> "other"]}, 1),
    Client({"front"}, {[scene |-> "auto", flash |-> "torch"],
                       [scene |-> "party", flash |-> "on"]}, 1),
    Client({"back"}, {[effect |-> "mono"], [antiShake |-> "false"], [fps |-> "reversed"]}, 1) }

(* None, one or two layers; a layer that is Nowhere is one GLES has to draw. *)
MCLists ==
  LET L(l, f) == [layer |-> l, frame |-> f]
  IN  { <<>>, <<L(1, Nowhere)>>, <<L(1, "full")>>, <<L(1, "part")>>,
        <<L(2, "full"), L(1, Nowhere)>> }

(* A decoder and an encoder. *)
CONSTANTS c1, c2
MCWanted == [c \in {c1, c2} |-> IF c = c1 THEN {"AVC.Decoder"} ELSE {"MPEG4.Encoder"}]

-----------------------------------------------------------------------------
VARIABLE part

MCvars == <<part, vars, composerVars, coreVars>>

MCInit ==
  /\ part \in {"camera", "composer", "core"}
  /\ Init /\ ComposerInit /\ CoreInit
  /\ part # "camera" => client = CHOOSE c \in Clients : TRUE
  /\ part # "composer" => win.rect_info = "full"

CameraStep == part = "camera" /\ Next /\ UNCHANGED <<part, composerVars, coreVars>>
ComposerStep == part = "composer" /\ ComposerNext /\ UNCHANGED <<part, vars, coreVars>>
CoreStep == part = "core" /\ CoreNext /\ UNCHANGED <<part, vars, composerVars>>

AtRest == part = "core" /\ CoreEnded /\ UNCHANGED MCvars

MCSpec == MCInit /\ [][CameraStep \/ ComposerStep \/ CoreStep \/ AtRest]_MCvars
=============================================================================
