------------------------- MODULE MupgradeRefinement -------------------------
(***************************************************************************)
(* With a single release, Mupgrade implements MupgradeCampaign.            *)
(***************************************************************************)
EXTENDS Mupgrade

Holders ==
  {n \in Node : \E f \in Releases, i \in Slot : IsImage(f, flash[n][i])}

Campaign ==
  INSTANCE MupgradeCampaign WITH
    Device <- Node,
    active <- rpc # "idle",
    pending <- unfinished,
    done <- successed,
    holds <- Holders

(***************************************************************************)
(* Through losses, resets and stops of the root, as long as no OTA call    *)
(* fails and no device is told to stop, every step of the root, the        *)
(* devices and the mesh is a step of a campaign or none: a success is      *)
(* reported once, by a device still pending that holds the image and then  *)
(* keeps it, and every campaign ends (mupgrade_firmware_send,              *)
(* mupgrade.h:200-207).                                                    *)
(***************************************************************************)
ImplementsCampaign == Campaign!Spec
=============================================================================
